---------------------------- MODULE HotelBooking ----------------------------
(***************************************************************************)
(* TBO hotel bookings up to the voucher (services/tbo/book.service.ts,     *)
(* approval.service.ts, refund.ts, voucher.service.ts and their workers):  *)
(* the Redis lock on the draft, the policy gate, the debit, Book and its   *)
(* five answers, the refund, the poll of a pending booking, the voucher.   *)
(*                                                                         *)
(* Every save pushes to statusHistory, which increments the version of the *)
(* document.  Only a save that replaces the guests compares the version it *)
(* read (a VersionError leaves the call); the others overwrite what they   *)
(* find.  A call is stale once somebody else has saved since it read.      *)
(*                                                                         *)
(* torn remembers the documents that do not tell what was done for them: a *)
(* stale save hit them, a call was lost between a posting or an answer of  *)
(* the supplier and the save of it, a save or queue.add threw there, or a  *)
(* job died on its last delivery.                                          *)
(***************************************************************************)
EXTENDS Naturals, FiniteSets

CONSTANTS
    Bookings,
    Calls,       \* requests and deliveries of jobs that may run together
    MaxBooks,    \* bound: debits of one booking
    MaxPolls,    \* TBO_PENDING_POLL_MAX_ATTEMPTS, TBO_CANCEL_POLL_MAX_ATTEMPTS
    Deliveries,  \* how often the queue hands out a job that does not finish
    None

ASSUME HotelAssumption ==
    /\ MaxBooks \in Nat /\ MaxPolls \in Nat \ {0} /\ Deliveries \in Nat \ {0}
    /\ IsFiniteSet(Calls)
    /\ None \notin Bookings \cup Calls \cup {"poll", "voucher", "poll-cancel"}

VARIABLES
    doc,      \* the HotelBooking documents
    lock,     \* tbo:book:lock: of a draft
    queued,   \* deliveries left of each waiting job, 0 without one
    room,     \* what the supplier has for a booking
    doubled,  \* bookings for which it has more than one room
    money,    \* BOOKING_DEBIT and REFUND_CREDIT, counted
    refused,  \* bookings whose refund the wallet refused (logged as fatal)
    torn,
    pc, call

books == <<money, refused>>
supplier == <<room, doubled>>
hotelVars == <<doc, lock, queued, room, doubled, money, refused, torn, pc, call>>

Statuses == {"DRAFT", "AWAITING_APPROVAL", "APPROVED", "HELD", "PENDING_SUPPLIER", "VOUCHERED",
             "BOOK_FAILED", "CANCEL_REQUESTED", "CANCELLED", "CANCEL_REJECTED"}
Jobs == {"poll", "voucher", "poll-cancel"}
Rooms == {"none", "pending", "held", "confirmed", "failed", "cancelled"}
Steps == {"idle", "load", "gate", "askApproval", "block", "unlock", "delete",
          "approve", "reject", "debit", "debited", "book", "refund", "save", "enqueue",
          "fetch", "still", "requeue", "generate",
          "send", "createJob", "request", "enqueueCancel",
          "status", "requeueCancel", "credit", "tag", "terminal", "finish"}

Document == [status : Statuses,
             debited : BOOLEAN,    \* walletDebitTxnId is stored
             refunded : BOOLEAN,   \* walletRefundTxnId is stored
             polls : Nat]          \* pendingPoll.attempts
Call == [booking : Bookings \cup {None},
         stale : BOOLEAN,
         debited : BOOLEAN, refunded : BOOLEAN,   \* its copy of the two references
         checked : BOOLEAN,                       \* its save compares the version
         locked : BOOLEAN,                        \* it has to release the lock
         target : Statuses \cup {None},           \* the status it is going to save
         credited : BOOLEAN,                      \* its copy of refundCreditedAt
         job : Jobs \cup {None}, left : Nat]      \* the job it works for

NoCall == [booking |-> None, stale |-> FALSE, debited |-> FALSE, refunded |-> FALSE,
           checked |-> FALSE, locked |-> FALSE, target |-> None, credited |-> FALSE,
           job |-> None, left |-> 0]

HotelTypeOK ==
    /\ doc \in [Bookings -> Document]
    /\ lock \in [Bookings -> Calls \cup {None}]
    /\ queued \in [Bookings -> [Jobs -> 0 .. Deliveries]]
    /\ room \in [Bookings -> Rooms]
    /\ doubled \subseteq Bookings
    /\ money \in [Bookings -> [debit : Nat, refund : Nat]]
    /\ refused \subseteq Bookings
    /\ torn \subseteq Bookings
    /\ pc \in [Calls -> Steps]
    /\ call \in [Calls -> Call]

\* A draft is what PreBook leaves.
HotelInit ==
    /\ doc = [b \in Bookings |-> [status |-> "DRAFT", debited |-> FALSE,
                                  refunded |-> FALSE, polls |-> 0]]
    /\ lock = [b \in Bookings |-> None]
    /\ queued = [b \in Bookings |-> [j \in Jobs |-> 0]]
    /\ room = [b \in Bookings |-> "none"]
    /\ doubled = {}
    /\ money = [b \in Bookings |-> [debit |-> 0, refund |-> 0]]
    /\ refused = {}
    /\ torn = {}
    /\ pc = [c \in Calls |-> "idle"]
    /\ call = [c \in Calls |-> NoCall]

-----------------------------------------------------------------------------
(* Reads, saves and jobs *)

Of(c) == call[c].booking
Goto(c, step) == pc' = [pc EXCEPT ![c] = step]

\* The call returns or throws; one that holds the lock releases it on the way.
Released(c) == IF call[c].locked THEN [NoCall EXCEPT !.booking = Of(c), !.locked = TRUE]
               ELSE NoCall

Leave(c) ==
    /\ Goto(c, IF call[c].locked THEN "unlock" ELSE "idle")
    /\ call' = [call EXCEPT ![c] = Released(c)]

\* The document of b is in the memory of c.
Loaded(c, b) == [call[c] EXCEPT !.booking = b, !.stale = FALSE,
                                !.debited = doc[b].debited, !.refunded = doc[b].refunded]

\* save() of the status and of the references c has set; it turns the copies of
\* others stale.  memory is what c knows afterwards.
Push(c, status, memory) ==
    LET b == Of(c) IN
    /\ doc' = [doc EXCEPT ![b].status = status, ![b].debited = @ \/ call[c].debited,
                          ![b].refunded = @ \/ call[c].refunded]
    /\ torn' = IF call[c].stale THEN torn \cup {b} ELSE torn
    /\ call' = [d \in Calls |-> IF d = c THEN memory
                                ELSE IF Of(d) = b THEN [call[d] EXCEPT !.stale = TRUE]
                                ELSE call[d]]

\* The last save of a call.
PushAndLeave(c, status) ==
    /\ Push(c, status, Released(c))
    /\ Goto(c, IF call[c].locked THEN "unlock" ELSE "idle")

\* queue.add
Enqueue(b, job) == queued' = [queued EXCEPT ![b][job] = Deliveries]

\* A worker takes a job of b, with the document it reads.
TakeJob(c, b, job) ==
    /\ pc[c] = "idle"
    /\ queued[b][job] > 0
    /\ queued' = [queued EXCEPT ![b][job] = 0]

WithJob(c, b, job) == [Loaded(c, b) EXCEPT !.job = job, !.left = queued[b][job] - 1]

\* A delivery that ended badly is repeated while deliveries are left.
Redeliver(c) ==
    queued' = IF call[c].job = None THEN queued
              ELSE [queued EXCEPT ![Of(c)][call[c].job] =
                      IF call[c].left > @ THEN call[c].left ELSE @]

-----------------------------------------------------------------------------
(* bookHotel: the lock on the draft, the status, the policy gate *)

LockDraft(c, b) ==
    /\ pc[c] = "idle"
    /\ money[b].debit < MaxBooks
    /\ lock[b] = None
    /\ lock' = [lock EXCEPT ![b] = c]
    /\ call' = [call EXCEPT ![c] = [NoCall EXCEPT !.booking = b, !.locked = TRUE]]
    /\ Goto(c, "load")
    /\ UNCHANGED <<doc, queued, supplier, books, torn>>

\* BOOK_LOCK_TTL_SEC is over, whatever its holder is doing.
LockExpires(b) ==
    /\ lock[b] # None
    /\ lock' = [lock EXCEPT ![b] = None]
    /\ UNCHANGED <<doc, queued, supplier, books, torn, pc, call>>

\* Mutant: the status of the draft is not looked at.
BookableAnyway(b) == TRUE

Bookable(b) == doc[b].status = "DRAFT"

LoadDraft(c) ==
    /\ pc[c] = "load"
    /\ IF Bookable(Of(c))
       THEN call' = [call EXCEPT ![c] = Loaded(c, Of(c))] /\ Goto(c, "gate")
       ELSE Leave(c)
    /\ UNCHANGED <<doc, lock, queued, supplier, books, torn>>

Gate(c) ==
    /\ pc[c] = "gate"
    /\ \E step \in {"block", "askApproval", "debit"} : Goto(c, step)
    /\ UNCHANGED <<doc, lock, queued, supplier, books, torn, call>>

Block(c) ==
    /\ pc[c] = "block"
    /\ PushAndLeave(c, "BOOK_FAILED")
    /\ UNCHANGED <<lock, queued, supplier, books>>

\* persistAwaitingApproval replaces the guests.
AskApproval(c) ==
    /\ pc[c] = "askApproval"
    /\ IF call[c].stale THEN Leave(c) /\ UNCHANGED <<doc, torn>>
       ELSE PushAndLeave(c, "AWAITING_APPROVAL")
    /\ UNCHANGED <<lock, queued, supplier, books>>

\* finally: GET the lock, then DEL it if it is still ours; Redis errors leave it.
CheckLock(c) ==
    /\ pc[c] = "unlock"
    /\ \/ lock[Of(c)] = c /\ Goto(c, "delete") /\ UNCHANGED call
       \/ Goto(c, "idle") /\ call' = [call EXCEPT ![c] = NoCall]
    /\ UNCHANGED <<doc, lock, queued, supplier, books, torn>>

DeleteLock(c) ==
    /\ pc[c] = "delete"
    /\ lock' = [lock EXCEPT ![Of(c)] = None]
    /\ Goto(c, "idle")
    /\ call' = [call EXCEPT ![c] = NoCall]
    /\ UNCHANGED <<doc, queued, supplier, books, torn>>

-----------------------------------------------------------------------------
(* approveBooking and rejectBooking take no lock *)

ReadForApproval(c, b) ==
    /\ pc[c] = "idle"
    /\ money[b].debit < MaxBooks
    /\ doc[b].status = "AWAITING_APPROVAL"
    /\ call' = [call EXCEPT ![c] = Loaded(c, b)]
    /\ \E step \in {"approve", "reject"} : Goto(c, step)
    /\ UNCHANGED <<doc, lock, queued, supplier, books, torn>>

Approve(c) ==
    /\ pc[c] = "approve"
    /\ Push(c, "APPROVED", call[c])
    /\ Goto(c, "debit")
    /\ UNCHANGED <<lock, queued, supplier, books>>

Reject(c) ==
    /\ pc[c] = "reject"
    /\ PushAndLeave(c, "BOOK_FAILED")
    /\ UNCHANGED <<lock, queued, supplier, books>>

-----------------------------------------------------------------------------
(* executeTboBook *)

Debit(c) ==
    /\ pc[c] = "debit"
    /\ money' = [money EXCEPT ![Of(c)].debit = @ + 1]
    /\ Goto(c, "debited")
    /\ UNCHANGED <<doc, lock, queued, supplier, refused, torn, call>>

\* postDebit throws: a draft stays DRAFT, an approved booking stays APPROVED.
DebitRefused(c) ==
    /\ pc[c] = "debit"
    /\ Leave(c)
    /\ UNCHANGED <<doc, lock, queued, supplier, books, torn>>

\* Mutant: Book is called before the booking is saved as APPROVED.
InterimLate == "DRAFT"

Interim == "APPROVED"

\* walletDebitTxnId is set after this save and stored by the next one.
SaveInterim(c) ==
    /\ pc[c] = "debited"
    /\ Push(c, Interim, [call[c] EXCEPT !.debited = TRUE, !.checked = TRUE])
    /\ Goto(c, "book")
    /\ UNCHANGED <<lock, queued, supplier, books>>

\* The supplier's answer: what it has now, and the status that follows from it.
Answers == {<<"confirmed", "VOUCHERED">>, <<"held", "HELD">>, <<"pending", "PENDING_SUPPLIER">>,
            <<"none", "DRAFT">>,              \* verify_price
            <<"none", "BOOK_FAILED">>,        \* failed, or it was not reached
            <<"confirmed", "BOOK_FAILED">>}   \* its answer was lost

Live == {"pending", "held", "confirmed"}

Book(c) ==
    /\ pc[c] = "book"
    /\ \E answer \in Answers :
         /\ IF answer[1] = "none" THEN UNCHANGED supplier
            ELSE /\ room' = [room EXCEPT ![Of(c)] = answer[1]]
                 /\ doubled' = IF room[Of(c)] \in Live THEN doubled \cup {Of(c)} ELSE doubled
         /\ call' = [call EXCEPT ![c].target = answer[2]]
         /\ Goto(c, IF answer[2] \in {"DRAFT", "BOOK_FAILED"} THEN "refund" ELSE "save")
    /\ UNCHANGED <<doc, lock, queued, books, torn>>

RefundDue(c) == call[c].debited /\ ~call[c].refunded

\* refundHotelBookingDebit: skipped, credited, or failed and swallowed.
Refund(c) ==
    /\ pc[c] = "refund"
    /\ \/ /\ RefundDue(c)
          /\ money' = [money EXCEPT ![Of(c)].refund = @ + 1]
          /\ call' = [call EXCEPT ![c].refunded = TRUE]
          /\ UNCHANGED refused
       \/ /\ RefundDue(c)
          /\ refused' = refused \cup {Of(c)}
          /\ UNCHANGED <<money, call>>
       \/ ~RefundDue(c) /\ UNCHANGED <<books, call>>
    /\ Goto(c, "save")
    /\ UNCHANGED <<doc, lock, queued, supplier, torn>>

JobAfter == [status \in {"HELD", "PENDING_SUPPLIER"} |->
               IF status = "HELD" THEN "voucher" ELSE "poll"]

\* The final save.  That of Book compares the version and starts the next job.
SaveOutcome(c) ==
    /\ pc[c] = "save"
    /\ ~(call[c].checked /\ call[c].stale)
    /\ IF call[c].checked /\ call[c].target \in DOMAIN JobAfter
       THEN Push(c, call[c].target, call[c]) /\ Goto(c, "enqueue")
       ELSE PushAndLeave(c, call[c].target)
    /\ UNCHANGED <<lock, queued, supplier, books>>

\* VersionError leaves executeTboBook: no refund, the booking stays APPROVED.
VersionConflict(c) ==
    /\ pc[c] = "save"
    /\ call[c].checked /\ call[c].stale
    /\ torn' = torn \cup {Of(c)}
    /\ Leave(c)
    /\ UNCHANGED <<doc, lock, queued, supplier, books>>

EnqueueNext(c) ==
    /\ pc[c] = "enqueue"
    /\ Enqueue(Of(c), JobAfter[call[c].target])
    /\ Leave(c)
    /\ UNCHANGED <<doc, lock, supplier, books, torn>>

-----------------------------------------------------------------------------
(* tboPendingBookingPollProcessor *)

ReadPending(c, b) ==
    /\ TakeJob(c, b, "poll")
    /\ IF doc[b].status = "PENDING_SUPPLIER"
       THEN call' = [call EXCEPT ![c] = WithJob(c, b, "poll")] /\ Goto(c, "fetch")
       ELSE UNCHANGED <<pc, call>>
    /\ UNCHANGED <<doc, lock, supplier, books, torn>>

\* The supplier decides about a booking it left pending.
SupplierResolves(b) ==
    /\ room[b] = "pending"
    /\ \E state \in {"held", "confirmed", "failed"} : room' = [room EXCEPT ![b] = state]
    /\ UNCHANGED <<doc, lock, queued, doubled, books, torn, pc, call>>

\* Mutant: a held room is taken for a confirmed one.
StatusOfHeld == [state \in {"held", "confirmed", "failed", "cancelled"} |->
                   IF state \in {"held", "confirmed"} THEN "VOUCHERED" ELSE "BOOK_FAILED"]

StatusOf == [state \in {"held", "confirmed", "failed", "cancelled"} |->
               CASE state = "held" -> "HELD"
                 [] state = "confirmed" -> "VOUCHERED"
                 [] OTHER -> "BOOK_FAILED"]

Fetch(c) ==
    /\ pc[c] = "fetch"
    /\ room[Of(c)] \in DOMAIN StatusOf
    /\ call' = [call EXCEPT ![c].target = StatusOf[room[Of(c)]]]
    /\ Goto(c, IF StatusOf[room[Of(c)]] = "BOOK_FAILED" THEN "refund" ELSE "save")
    /\ UNCHANGED <<doc, lock, queued, supplier, books, torn>>

\* mapBookingDetailResponse takes every answer but Status 1 for a failed booking,
\* whatever the supplier has: the refund and BOOK_FAILED may meet a live room.
FetchError(c) ==
    /\ pc[c] = "fetch"
    /\ call' = [call EXCEPT ![c].target = "BOOK_FAILED"]
    /\ Goto(c, "refund")
    /\ UNCHANGED <<doc, lock, queued, supplier, books, torn>>

\* Still pending, or the call threw.
FetchNothing(c) ==
    /\ pc[c] = "fetch"
    /\ Goto(c, "still")
    /\ UNCHANGED <<doc, lock, queued, supplier, books, torn, call>>

\* Mutant: the last attempt but one is the last.
LastPollEarly(attempts) == attempts + 1 >= MaxPolls

LastPoll(attempts) == attempts >= MaxPolls

\* Saves the attempt.  After the last one the booking stays PENDING_SUPPLIER for
\* the ops desk.
PollAgain(c) ==
    LET attempts == doc[Of(c)].polls + 1 IN
    /\ pc[c] = "still"
    /\ doc' = [doc EXCEPT ![Of(c)].polls = attempts]
    /\ IF LastPoll(attempts) THEN Leave(c) ELSE Goto(c, "requeue") /\ UNCHANGED call
    /\ UNCHANGED <<lock, queued, supplier, books, torn>>

\* Only then is the next poll added.
RequeuePoll(c) ==
    /\ pc[c] = "requeue"
    /\ Enqueue(Of(c), "poll")
    /\ Leave(c)
    /\ UNCHANGED <<doc, lock, supplier, books, torn>>

-----------------------------------------------------------------------------
(* voucherHotelBooking, from its job or from the booking page *)

ReadHeld(c, b) ==
    /\ doc[b].status = "HELD"
    /\ \/ /\ TakeJob(c, b, "voucher")
          /\ call' = [call EXCEPT ![c] = WithJob(c, b, "voucher")]
       \/ /\ pc[c] = "idle"
          /\ call' = [call EXCEPT ![c] = Loaded(c, b)]
          /\ UNCHANGED queued
    /\ Goto(c, "generate")
    /\ UNCHANGED <<doc, lock, supplier, books, torn>>

\* The worker drops a job whose booking has moved on.
DropVoucher(c, b) ==
    /\ TakeJob(c, b, "voucher")
    /\ doc[b].status # "HELD"
    /\ UNCHANGED <<doc, lock, supplier, books, torn, pc, call>>

\* GenerateVoucher; a second one for the same room is answered alike.
GenerateVoucher(c) ==
    /\ pc[c] = "generate"
    /\ room[Of(c)] \in {"held", "confirmed"}
    /\ room' = [room EXCEPT ![Of(c)] = "confirmed"]
    /\ call' = [call EXCEPT ![c].target = "VOUCHERED"]
    /\ Goto(c, "save")
    /\ UNCHANGED <<doc, lock, queued, doubled, books, torn>>

VoucherFails(c) ==
    /\ pc[c] = "generate"
    /\ Redeliver(c)
    /\ Leave(c)
    /\ UNCHANGED <<doc, lock, supplier, books, torn>>

-----------------------------------------------------------------------------
\* Steps at which something was done that no document tells yet.
Untold == {"debited", "book", "refund", "save", "enqueue"}

\* The process dies.  The lock stays until it expires; a job is delivered again.
CrashAt(c, steps) ==
    /\ pc[c] # "idle"
    /\ Redeliver(c)
    /\ torn' = IF pc[c] \in steps \/ (call[c].job # None /\ call[c].left = 0)
               THEN torn \cup {Of(c)} ELSE torn
    /\ Goto(c, "idle")
    /\ call' = [call EXCEPT ![c] = NoCall]
    /\ UNCHANGED <<doc, lock, supplier, books>>

\* A save or queue.add throws out of the call.  The jobs of both polls have one
\* attempt and are not delivered again (that of the voucher is: see CrashAt).
WriteFails(c, steps) ==
    /\ pc[c] \in steps /\ call[c].job # "voucher"
    /\ torn' = torn \cup {Of(c)}
    /\ Leave(c)
    /\ UNCHANGED <<doc, lock, queued, supplier, books>>

HotelStart(c, b) ==
    \/ LockDraft(c, b) \/ ReadForApproval(c, b) \/ ReadPending(c, b)
    \/ ReadHeld(c, b) \/ DropVoucher(c, b)

HotelProceed(c) ==
    \/ LoadDraft(c) \/ Gate(c) \/ Block(c) \/ AskApproval(c)
    \/ CheckLock(c) \/ DeleteLock(c) \/ Approve(c) \/ Reject(c)
    \/ Debit(c) \/ DebitRefused(c) \/ SaveInterim(c) \/ Book(c) \/ Refund(c)
    \/ SaveOutcome(c) \/ VersionConflict(c) \/ EnqueueNext(c)
    \/ Fetch(c) \/ FetchError(c) \/ FetchNothing(c) \/ PollAgain(c) \/ RequeuePoll(c)
    \/ GenerateVoucher(c) \/ VoucherFails(c)
    \/ WriteFails(c, {"save", "enqueue", "still", "requeue"})

HotelEnvironment(b) == LockExpires(b) \/ SupplierResolves(b)

-----------------------------------------------------------------------------
(* Properties *)

\* Calls that have debited b and not saved yet.
InFlight(b) == {c \in Calls : Of(c) = b /\ pc[c] = "debited"}

\* A room is paid for, and paid once: after every order of repriced attempts,
\* requests, approvals and polls one debit of a booking that is held or vouchered
\* is not refunded, until it is torn or a refund was refused.  (Two debits allow
\* for one price change; the refund of a second one is skipped, see FailureRefunded.)
RoomIsPaid ==
    \A b \in Bookings \ (torn \cup refused) :
        /\ doc[b].status \in {"HELD", "VOUCHERED", "CANCEL_REQUESTED", "CANCEL_REJECTED"}
        /\ money[b].debit <= 2
        => money[b].debit = money[b].refund + 1 + Cardinality(InFlight(b))

\* Book is not idempotent at the supplier.  Until a booking is torn, the lock on
\* the draft and the status saved before the call keep it from being booked twice,
\* although the lock may expire under its holder.
BookedOnce == doubled \subseteq torn

\* Until a booking is torn a first attempt that failed is refunded, or its refund
\* was refused and logged; refund.ts promises it of later attempts too.
FirstFailureRefunded ==
    \A b \in Bookings \ (torn \cup refused) :
        doc[b].status = "BOOK_FAILED" /\ money[b].debit = 1 /\ InFlight(b) = {} =>
            money[b].refund = 1

\* A debit ends in a room or in its refund, and in one of them only.
DebitHasOneOutcome == RoomIsPaid /\ FirstFailureRefunded

\* The header of book.service.ts: "failed -> REFUND wallet, status=BOOK_FAILED".
\* An attempt after a price change counts as well.
FailureRefunded ==
    \A b \in Bookings \ (torn \cup refused) :
        doc[b].status = "BOOK_FAILED" /\ InFlight(b) = {} => money[b].refund = money[b].debit

\* A pending booking is not forgotten: the poll goes on until the supplier has
\* decided or the attempts are used up, also when a worker dies once, between the
\* count of an attempt and the next job as well.  (A save or queue.add that throws
\* there loses the poll for good: the booking is torn.)
PendingResolves ==
    \A b \in Bookings :
        doc[b].status = "PENDING_SUPPLIER" ~>
            doc[b].status # "PENDING_SUPPLIER" \/ doc[b].polls >= MaxPolls \/ b \in torn
=============================================================================
