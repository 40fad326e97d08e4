-------------------------- MODULE BusCancellation --------------------------
(***************************************************************************)
(* Cancellations of bus bookings (services/bus/cancellation.service.ts,    *)
(* queues/bus-operator-cancellation-poller.worker.ts), beside everything   *)
(* BusBooking does with the same documents: an agent cancels seats, the    *)
(* operator cancels the trip and the daily poller mirrors it.              *)
(*                                                                         *)
(* The supplier cancels a seat once, refunds at most its part of the fare, *)
(* and an operator cancels only tickets that have seats left.              *)
(***************************************************************************)
EXTENDS BusBooking, SequencesExt

CONSTANT MaxCancellations   \* bound: BusCancellation documents of one booking

ASSUME CancellationAssumption == MaxCancellations \in Nat

VARIABLES
    cancels,   \* the BusCancellation documents of a booking, oldest first
    settled    \* REFUND_CREDITs of cancellations

cancelVars == <<cancels, settled>>
vars == <<busVars, cancelVars>>

\* MISFILED: status FAILED, beside the refundTxnId of a credit that was posted.
Cancellation == [seats : SUBSET Seats, operator : BOOLEAN, amount : Nat,
                 status : {"INITIATED", "COMPLETED", "FAILED", "MISFILED"}]

TypeOK ==
    /\ BusTypeOK
    /\ cancels \in [Attempts -> Seq(Cancellation)]
    /\ settled \in [Attempts -> Nat]

Init ==
    /\ BusInit
    /\ cancels = [k \in Attempts |-> <<>>]
    /\ settled = [k \in Attempts |-> 0]

\* COMPLETED, or with a refundTxnId all the same.
Credited(r) == r.status \in {"COMPLETED", "MISFILED"}

-----------------------------------------------------------------------------
(* cancelBooking *)

\* Seats of cancellations that are not filed as FAILED.
Covered(k) == UNION {r.seats : r \in {t \in Range(cancels[k]) :
                                        t.status \in {"INITIATED", "COMPLETED"}}}

Cancellable == {"BOOKED", "PARTIALLY_CANCELLED"}

ReadForCancel(c, k) ==
    /\ pc[c] = "idle"
    /\ row[k].status \in Cancellable
    /\ Len(cancels[k]) < MaxCancellations
    /\ call' = [call EXCEPT ![c] = [NoCall EXCEPT !.attempt = k, !.read = row[k].status]]
    /\ Goto(c, "seats")
    /\ UNCHANGED <<approvalVars, lock, ticket, row, money, unverified, marks, cancelVars>>

\* The earlier cancellations of the booking; a seat of theirs ends the call.
ReadSeats(c) ==
    LET covered == Covered(Of(c)) IN
    /\ pc[c] = "seats"
    /\ \/ \E seats \in (SUBSET Seats) \ {{}} :
            /\ seats \cap covered = {}
            /\ call' = [call EXCEPT ![c] = [@ EXCEPT !.seats = seats, !.covered = covered]]
            /\ Goto(c, "cancelTicket")
       \/ Leave(c)
    /\ UNCHANGED <<approvalVars, lock, ticket, row, money, unverified, marks, cancelVars>>

\* What the fare of the booking comes to for these seats.
FareOf(k, seats) == (Cardinality(seats) * row[k].total) \div Total

\* cancelTicket: the seats are given up, for a refund the operator sets.
CancelTicket(c) ==
    LET k == Of(c)
        seats == call[c].seats IN
    /\ pc[c] = "cancelTicket"
    /\ \/ /\ ticket[k].state = "booked" /\ seats \cap ticket[k].gone = {}
          /\ ticket' = [ticket EXCEPT ![k].gone = @ \cup seats]
          /\ \/ /\ \E amount \in {0, FareOf(k, seats)} :
                     call' = [call EXCEPT ![c].amount = amount]
                /\ Goto(c, "createRow")
                /\ UNCHANGED torn
             \/ Leave(c) /\ torn' = torn \cup {k}            \* the answer is lost
       \/ Leave(c) /\ UNCHANGED <<ticket, torn>>
    /\ UNCHANGED <<approvalVars, lock, row, money, unverified, unguarded, cancelVars>>

CreateCancellation(c) ==
    LET k == Of(c) IN
    /\ pc[c] = "createRow"
    /\ cancels' = [cancels EXCEPT ![k] =
                     Append(@, [seats |-> call[c].seats, operator |-> call[c].operator,
                                amount |-> call[c].amount, status |-> "INITIATED"])]
    /\ call' = Outdated(c, k, [call[c] EXCEPT !.index = Len(cancels[k]) + 1])
    /\ Goto(c, "credit")
    /\ UNCHANGED <<approvalVars, lock, ticket, row, money, unverified, marks, settled>>

\* postCredit; nothing is posted for a refund of nothing, a refusal is swallowed.
CreditRefund(c) ==
    /\ pc[c] = "credit"
    /\ \/ /\ settled' = [settled EXCEPT ![Of(c)] = @ + call[c].amount]
          /\ call' = [call EXCEPT ![c].outcome = "COMPLETED"]
          /\ UNCHANGED refused
       \/ /\ call[c].amount > 0
          /\ call' = [call EXCEPT ![c].outcome = "FAILED"]
          /\ refused' = refused \cup {Of(c)}
          /\ UNCHANGED settled
    /\ Goto(c, "saveRow")
    /\ UNCHANGED <<approvalVars, lock, ticket, row, paid, drift, unverified, marks, cancels>>

SaveCancellation(c) ==
    /\ pc[c] = "saveRow"
    /\ cancels' = [cancels EXCEPT ![Of(c)][call[c].index].status = call[c].outcome]
    /\ Goto(c, "transition")
    /\ UNCHANGED <<approvalVars, lock, ticket, row, money, unverified, marks, call, settled>>

\* The save throws.  That of a posted credit lands in the handler of postCredit,
\* which logs REFUND POST FAILED and saves the row, with its refundTxnId, as
\* FAILED; a second throw, or one of another save, leaves the row INITIATED.
SaveCancellationFails(c) ==
    LET k == Of(c) IN
    /\ pc[c] = "saveRow"
    /\ IF call[c].outcome = "COMPLETED" /\ call[c].amount > 0
       THEN /\ call' = [call EXCEPT ![c].outcome = "MISFILED"]
            /\ refused' = refused \cup {k}
            /\ UNCHANGED <<pc, torn>>
       ELSE Leave(c) /\ torn' = torn \cup {k} /\ UNCHANGED refused
    /\ UNCHANGED <<approvalVars, lock, ticket, row, paid, drift, unverified, unguarded, cancelVars>>

\* Mutant: only the seats of this call decide.
NewStatusOwn(c) == IF call[c].operator THEN "OPERATOR_CANCELLED"
                   ELSE IF call[c].seats = Seats THEN "CANCELLED" ELSE "PARTIALLY_CANCELLED"

NewStatus(c) ==
    IF call[c].operator THEN "OPERATOR_CANCELLED"
    ELSE IF call[c].seats \cup call[c].covered = Seats THEN "CANCELLED"
    ELSE "PARTIALLY_CANCELLED"

\* save() writes a status that is not the one it read.
Transition(c) ==
    LET k == Of(c) IN
    /\ pc[c] = "transition"
    /\ row' = IF NewStatus(c) = call[c].read THEN row
              ELSE [row EXCEPT ![k].status = NewStatus(c)]
    /\ torn' = IF call[c].stale THEN torn \cup {k} ELSE torn
    /\ call' = Outdated(c, k, NoCall)
    /\ Goto(c, "idle")
    /\ UNCHANGED <<approvalVars, lock, ticket, money, unverified, unguarded, cancelVars>>

-----------------------------------------------------------------------------
(* processOperatorCancellation *)

\* The operator takes a ticket back, and SeatSeller lists it.
OperatorCancels(k) ==
    /\ ticket[k].state = "booked" /\ ticket[k].gone # Seats
    /\ ticket' = [ticket EXCEPT ![k].state = "void"]
    /\ UNCHANGED <<approvalVars, lock, row, money, unverified, marks, pc, call, cancelVars>>

\* busCancellationInfo is asked for two days back to thirty ahead.
WindowPasses(k) ==
    /\ ticket[k].state = "void"
    /\ ticket' = [ticket EXCEPT ![k].state = "unlisted"]
    /\ UNCHANGED <<approvalVars, lock, row, money, unverified, marks, pc, call, cancelVars>>

\* Mutant: partly cancelled bookings are left to the agent.
SkippedPartial == {"none", "BLOCKED", "FAILED", "PARTIALLY_CANCELLED",
                   "CANCELLED", "OPERATOR_CANCELLED"}

\* Rows without a tin, and rows that need nothing.
Skipped == {"none", "BLOCKED", "FAILED", "CANCELLED", "OPERATOR_CANCELLED"}

\* One poller runs at a time (concurrency 1), over the tickets that are listed.
PollOperator(c, k) ==
    /\ pc[c] = "idle"
    /\ \A d \in Calls : ~call[d].operator
    /\ Len(cancels[k]) < MaxCancellations
    /\ ticket[k].state = "void"
    /\ row[k].status \notin Skipped
    /\ call' = [call EXCEPT ![c] = [NoCall EXCEPT
                  !.attempt = k, !.operator = TRUE, !.seats = Seats, !.read = row[k].status]]
    /\ Goto(c, "fetch")
    /\ UNCHANGED <<approvalVars, lock, ticket, row, money, unverified, marks, cancelVars>>

\* getTicket: the refund it states, or the whole fare when it states none.
FetchTicket(c) ==
    LET k == Of(c) IN
    /\ pc[c] = "fetch"
    /\ \E amount \in {FareOf(k, Seats \ ticket[k].gone), row[k].total} :
         call' = [call EXCEPT ![c].amount = amount]
    /\ Goto(c, "createRow")
    /\ UNCHANGED <<approvalVars, lock, ticket, row, money, unverified, marks, cancelVars>>

FetchFails(c) ==
    /\ pc[c] = "fetch"
    /\ Leave(c)
    /\ UNCHANGED <<approvalVars, lock, ticket, row, money, unverified, marks, cancelVars>>

-----------------------------------------------------------------------------
Crash(c) ==
    /\ CrashAt(c, Untold \cup {"createRow", "credit", "saveRow", "transition"})
    /\ UNCHANGED cancelVars

Proceed(c) ==
    \/ BusProceed(c) /\ UNCHANGED cancelVars
    \/ ReadSeats(c) \/ CancelTicket(c) \/ CreateCancellation(c) \/ CreditRefund(c)
    \/ SaveCancellation(c) \/ SaveCancellationFails(c) \/ Transition(c)
    \/ FetchTicket(c) \/ FetchFails(c)

Next ==
    \/ \E c \in Calls : Proceed(c) \/ Crash(c)
    \/ \E c \in Calls : BusStart(c) /\ UNCHANGED cancelVars
    \/ \E c \in Calls, k \in Attempts : ReadForCancel(c, k) \/ PollOperator(c, k)
    \/ \E k \in Attempts : OperatorCancels(k) \/ WindowPasses(k)
    \/ BusEnvironment /\ UNCHANGED cancelVars

Spec == Init /\ [][Next]_vars

\* Calls go on.  A ticket that stays listed is polled again every day, and
\* getTicket is answered now and then; WindowPasses may end that at any time.
FairSpec ==
    /\ Spec
    /\ \A c \in Calls : WF_vars(Proceed(c))
    /\ SF_vars(\E c \in Calls : FetchTicket(c))
    /\ \A k \in Attempts : SF_vars(\E c \in Calls : PollOperator(c, k))

-----------------------------------------------------------------------------
(* Properties *)

\* An agency gets back at most what it paid for a booking, in any order of
\* partial cancellations, operator cancellations and polls, until it is torn.  The
\* exception is an operator's cancellation that states no refund and follows
\* cancellations of the agent: it credits the whole fare, those seats included.
SeatsRefundedOnce ==
    \A k \in Attempts \ torn :
        \/ settled[k] <= row[k].total
        \/ \E r \in Range(cancels[k]) :
              /\ r.operator /\ r.amount = row[k].total
              /\ r.amount > FareOf(k, Seats \ ticket[k].gone)
              /\ settled[k] <= r.amount + FareOf(k, ticket[k].gone)

\* Until it is torn the credits of a booking are those of its cancellation rows
\* that are COMPLETED or hold a refundTxnId, so that finance can tell from a row
\* whether the agency has its money.  The status alone does not tell it, against
\* the header of cancelBooking: a MISFILED row says FAILED.
RowsTellCredits ==
    \A k \in Attempts \ torn :
        settled[k] = MapThenSumSet(LAMBDA i : cancels[k][i].amount,
                         {i \in DOMAIN cancels[k] : Credited(cancels[k][i])})
                     + MapThenSumSet(LAMBDA c : call[c].amount,
                         {c \in Calls : /\ Of(c) = k /\ pc[c] = "saveRow"
                                        /\ call[c].outcome \in {"COMPLETED", "MISFILED"}})

\* When nobody is at work on it, a booking that is not torn shows what the
\* supplier has cancelled: stacked partial cancellations add up to CANCELLED.  A
\* cancellation that is filed as FAILED, credited or not, breaks it: the next one
\* does not count its seats.
StatusShowsSeats ==
    \A k \in Attempts \ (torn \cup refused) :
        /\ ticket[k].state = "booked" /\ k \notin unverified
        /\ \A c \in Calls : Of(c) # k
        => row[k].status = CASE ticket[k].gone = {} -> "BOOKED"
                             [] ticket[k].gone = Seats -> "CANCELLED"
                             [] OTHER -> "PARTIALLY_CANCELLED"

\* Supplier, cancellation rows, booking and wallet tell the same story of the seats
\* that an agent and an operator cancel side by side.
CancellationsTellSeats == SeatsRefundedOnce /\ RowsTellCredits /\ StatusShowsSeats

\* Bookings the operator has cancelled and the documents do not show yet.
Waiting(k) ==
    /\ ticket[k].state = "void" /\ row[k].status \in Cancellable
    /\ k \notin torn /\ Len(cancels[k]) < MaxCancellations

\* The poller mirrors the operator: the bookings whose tickets were taken back are
\* cancelled in the end, if the tickets stay listed that long, unless they are
\* torn or their documents are used up.
OperatorCancellationArrives == (\E k \in Attempts : Waiting(k)) ~> (\A k \in Attempts : ~Waiting(k))
=============================================================================
