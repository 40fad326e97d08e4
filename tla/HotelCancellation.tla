------------------------- MODULE HotelCancellation -------------------------
(***************************************************************************)
(* Cancellation of TBO hotel bookings (services/tbo/cancel.service.ts,     *)
(* queues/tbo-cancel-poll.worker.ts), beside everything HotelBooking does  *)
(* with the same documents: the change request, the poll of its outcome,   *)
(* the credit of the refund, the terminal status.                          *)
(*                                                                         *)
(* The supplier takes one change request for a booking and refuses others. *)
(***************************************************************************)
EXTENDS HotelBooking

VARIABLES
    change,     \* the change request at the supplier
    cancelJob,  \* the HotelCancellationJob of a booking
    settled     \* REFUND_CREDITs of cancellations

cancelVars == <<change, cancelJob, settled>>
vars == <<hotelVars, cancelVars>>

CancelJob == [exists : BOOLEAN,
              completed : BOOLEAN,   \* completedAt
              credited : BOOLEAN,    \* refundCreditedAt
              polls : Nat]           \* pollAttempts

\* The supplier gives the room up against a refund, or without one: RefundAmount is
\* what is left after its charge, and zero for a room that is not refundable.
GivenUp == {"processed", "forfeited"}
Changes == {"none", "open", "rejected"} \cup GivenUp

TypeOK ==
    /\ HotelTypeOK
    /\ change \in [Bookings -> Changes]
    /\ cancelJob \in [Bookings -> CancelJob]
    /\ settled \in [Bookings -> Nat]

Init ==
    /\ HotelInit
    /\ change = [b \in Bookings |-> "none"]
    /\ cancelJob = [b \in Bookings |-> [exists |-> FALSE, completed |-> FALSE,
                                        credited |-> FALSE, polls |-> 0]]
    /\ settled = [b \in Bookings |-> 0]

-----------------------------------------------------------------------------
(* requestCancel *)

ReadForCancel(c, b) ==
    /\ pc[c] = "idle"
    /\ doc[b].status = "VOUCHERED"
    /\ call' = [call EXCEPT ![c] = Loaded(c, b)]
    /\ Goto(c, "send")
    /\ UNCHANGED <<doc, lock, queued, supplier, books, torn, cancelVars>>

SendChangeRequest(c) ==
    /\ pc[c] = "send"
    /\ change[Of(c)] = "none"
    /\ change' = [change EXCEPT ![Of(c)] = "open"]
    /\ \/ Goto(c, "createJob") /\ UNCHANGED <<call, torn>>
       \/ Leave(c) /\ torn' = torn \cup {Of(c)}           \* the answer is lost
    /\ UNCHANGED <<doc, lock, queued, supplier, books, cancelJob, settled>>

ChangeRefused(c) ==
    /\ pc[c] = "send"
    /\ Leave(c)
    /\ UNCHANGED <<doc, lock, queued, supplier, books, torn, cancelVars>>

CreateJob(c) ==
    /\ pc[c] = "createJob"
    /\ cancelJob' = [cancelJob EXCEPT ![Of(c)].exists = TRUE]
    /\ Goto(c, "request")
    /\ UNCHANGED <<doc, lock, queued, supplier, books, torn, call, change, settled>>

SaveRequested(c) ==
    /\ pc[c] = "request"
    /\ Push(c, "CANCEL_REQUESTED", call[c])
    /\ Goto(c, "enqueueCancel")
    /\ UNCHANGED <<lock, queued, supplier, books, cancelVars>>

EnqueueCancel(c) ==
    /\ pc[c] = "enqueueCancel"
    /\ Enqueue(Of(c), "poll-cancel")
    /\ Leave(c)
    /\ UNCHANGED <<doc, lock, supplier, books, torn, cancelVars>>

-----------------------------------------------------------------------------
(* tboCancelPollProcessor and pollCancelStatus *)

\* The supplier cancels the room, or refuses to.
SupplierDecides(b) ==
    /\ change[b] = "open"
    /\ \/ /\ \E outcome \in GivenUp : change' = [change EXCEPT ![b] = outcome]
          /\ room' = [room EXCEPT ![b] = "cancelled"]
       \/ change' = [change EXCEPT ![b] = "rejected"] /\ UNCHANGED room
    /\ UNCHANGED <<doc, lock, queued, doubled, books, torn, pc, call, cancelJob, settled>>

\* A completed job is not polled, nor one that used up its attempts.
ReadJob(c, b) ==
    /\ TakeJob(c, b, "poll-cancel")
    /\ IF ~cancelJob[b].completed /\ cancelJob[b].polls < MaxPolls
       THEN /\ call' = [call EXCEPT ![c] = [WithJob(c, b, "poll-cancel") EXCEPT
                                              !.credited = cancelJob[b].credited]]
            /\ Goto(c, "status")
       ELSE UNCHANGED <<pc, call>>
    /\ UNCHANGED <<doc, lock, supplier, books, torn, cancelVars>>

\* Not decided yet: the attempt is saved, and then the next one is queued.
PollCancelAgain(c) ==
    /\ pc[c] = "status"
    /\ change[Of(c)] = "open"
    /\ cancelJob' = [cancelJob EXCEPT ![Of(c)].polls = @ + 1]
    /\ Goto(c, "requeueCancel")
    /\ UNCHANGED <<doc, lock, queued, supplier, books, torn, call, change, settled>>

RequeueCancel(c) ==
    /\ pc[c] = "requeueCancel"
    /\ Enqueue(Of(c), "poll-cancel")
    /\ Leave(c)
    /\ UNCHANGED <<doc, lock, supplier, books, torn, cancelVars>>

\* The status call throws out of the worker, and the job has one attempt.
StatusFails(c) ==
    /\ pc[c] = "status"
    /\ Leave(c)
    /\ UNCHANGED <<doc, lock, queued, supplier, books, torn, cancelVars>>

\* Mutant: the two outcomes are taken for each other.
CancelOutcomeSwapped == [state \in GivenUp \cup {"rejected"} |->
                           IF state = "rejected" THEN "CANCELLED" ELSE "CANCEL_REJECTED"]

CancelOutcome == [state \in GivenUp \cup {"rejected"} |->
                    IF state = "rejected" THEN "CANCEL_REJECTED" ELSE "CANCELLED"]

\* maybeIssueRefund returns at once for a job that was credited and for a refund
\* of zero.  (Its return for a booking without an agency cannot happen: loadDraft
\* gives a booking one before it is booked.)
CreditDue(c) == change[Of(c)] # "forfeited" /\ ~call[c].credited

StatusKnown(c) ==
    /\ pc[c] = "status"
    /\ change[Of(c)] \in DOMAIN CancelOutcome
    /\ LET outcome == CancelOutcome[change[Of(c)]] IN
         /\ call' = [call EXCEPT ![c].target = outcome]
         /\ Goto(c, IF outcome = "CANCELLED" /\ CreditDue(c) THEN "credit" ELSE "terminal")
    /\ UNCHANGED <<doc, lock, queued, supplier, books, torn, cancelVars>>

\* maybeIssueRefund; a refused credit is swallowed.
CreditRefund(c) ==
    /\ pc[c] = "credit"
    /\ \/ /\ settled' = [settled EXCEPT ![Of(c)] = @ + 1]
          /\ call' = [call EXCEPT ![c].credited = TRUE]
          /\ Goto(c, "tag")
          /\ UNCHANGED refused
       \/ /\ refused' = refused \cup {Of(c)}
          /\ Goto(c, "terminal")
          /\ UNCHANGED <<settled, call>>
    /\ UNCHANGED <<doc, lock, queued, supplier, money, torn, change, cancelJob>>

\* walletRefundTxnId of the booking; no history is pushed here, and a save that
\* throws is swallowed.
TagBooking(c) ==
    /\ pc[c] = "tag"
    /\ (doc' = [doc EXCEPT ![Of(c)].refunded = TRUE]) \/ UNCHANGED doc
    /\ Goto(c, "terminal")
    /\ UNCHANGED <<lock, queued, supplier, books, torn, call, cancelVars>>

\* applyTerminalToBooking reads the booking afresh.
SaveTerminal(c) ==
    /\ pc[c] = "terminal"
    /\ doc' = [doc EXCEPT ![Of(c)].status = call[c].target]
    /\ call' = [d \in Calls |-> IF d # c /\ Of(d) = Of(c)
                                THEN [call[d] EXCEPT !.stale = TRUE] ELSE call[d]]
    /\ Goto(c, "finish")
    /\ UNCHANGED <<lock, queued, supplier, books, torn, cancelVars>>

\* job.save(): only now is the credit on record.
FinishJob(c) ==
    /\ pc[c] = "finish"
    /\ cancelJob' = [cancelJob EXCEPT ![Of(c)].completed = TRUE,
                                      ![Of(c)].credited = call[c].credited,
                                      ![Of(c)].polls = @ + 1]
    /\ Leave(c)
    /\ UNCHANGED <<doc, lock, queued, supplier, books, torn, change, settled>>

-----------------------------------------------------------------------------
UntoldCancel == {"createJob", "request", "enqueueCancel", "tag", "terminal", "finish"}

Crash(c) ==
    /\ CrashAt(c, UntoldCancel \cup Untold)
    /\ UNCHANGED cancelVars

Proceed(c) ==
    \/ HotelProceed(c) /\ UNCHANGED cancelVars
    \/ SendChangeRequest(c) \/ ChangeRefused(c) \/ CreateJob(c)
    \/ SaveRequested(c) \/ EnqueueCancel(c)
    \/ PollCancelAgain(c) \/ RequeueCancel(c) \/ StatusFails(c) \/ StatusKnown(c)
    \/ CreditRefund(c) \/ TagBooking(c) \/ SaveTerminal(c) \/ FinishJob(c)
    \/ /\ WriteFails(c, {"createJob", "request", "enqueueCancel", "requeueCancel",
                        "terminal", "finish"})
       /\ UNCHANGED cancelVars

Start(c, b) ==
    \/ HotelStart(c, b) /\ UNCHANGED cancelVars
    \/ ReadForCancel(c, b) \/ ReadJob(c, b)

Next ==
    \/ \E c \in Calls : Proceed(c) \/ Crash(c)
    \/ \E c \in Calls, b \in Bookings : Start(c, b)
    \/ \E b \in Bookings :
         SupplierDecides(b) \/ (HotelEnvironment(b) /\ UNCHANGED cancelVars)

Spec == Init /\ [][Next]_vars

\* Calls go on, and the workers take the polls that are due.
FairSpec ==
    /\ Spec
    /\ \A c \in Calls : WF_vars(Proceed(c))
    /\ \A b \in Bookings :
         SF_vars(\E c \in Calls : ReadPending(c, b) /\ UNCHANGED cancelVars)

-----------------------------------------------------------------------------
(* Properties *)

\* Until a booking is torn its voucher is that of a room the supplier confirmed
\* and has not cancelled, but for a change request that is about to be saved.
VoucherIsReal ==
    \A b \in Bookings \ torn :
        doc[b].status = "VOUCHERED" =>
            \/ room[b] = "confirmed"
            \/ \E c \in Calls : Of(c) = b /\ pc[c] \in {"createJob", "request"}

\* Until a booking is torn the agency gets back at most what it paid: neither
\* Book and the poll, nor two polls of a cancellation, nor a booking that is
\* vouchered anew repeat a credit.
MoneyBackOnce == \A b \in Bookings \ torn : money[b].refund + settled[b] <= money[b].debit

\* Until a booking is torn a cancellation is refunded only when the supplier has
\* given the room up.
SettledIsCancelled ==
    \A b \in Bookings \ torn : settled[b] > 0 => room[b] = "cancelled"

\* Until a booking is torn, one that shows as CANCELLED got the refund the supplier
\* granted, and none when it granted none, or the refusal of it was logged.
CancelledIsSettled ==
    \A b \in Bookings \ (torn \cup refused) :
        doc[b].status = "CANCELLED" =>
            settled[b] = IF change[b] = "forfeited" THEN 0 ELSE 1

\* Change request, job, credit and status agree: a cancellation is refunded once,
\* for a room that was given up, before it shows.
CancellationSettlesOnce == MoneyBackOnce /\ SettledIsCancelled /\ CancelledIsSettled
=============================================================================
