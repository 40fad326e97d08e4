----------------------------- MODULE BusBooking -----------------------------
(***************************************************************************)
(* Corporate bus bookings for one travel approval                          *)
(* (services/approval/approval.service.ts, services/bus/booking.service.ts,*)
(* services/bus/booking-locks.ts): managers and the expiry sweep decide the*)
(* approval; calls holding its Redis lock debit the wallet, block the      *)
(* seats, take an RTC operator's new fare, book, look for a lost ticket,   *)
(* refund.                                                                 *)
(*                                                                         *)
(* One seat costs one unit.  The supplier does not block seats that are    *)
(* blocked or booked, and has settled a booking when it is looked for five *)
(* seconds later.                                                          *)
(*                                                                         *)
(* History: torn holds the attempts whose documents do not tell what was   *)
(* done (a call ended between a posting or an answer of the supplier and   *)
(* the save of it, or saved over what another call had saved); unguarded   *)
(* says that the lock or the mark on the approval was lost.                *)
(***************************************************************************)
EXTENDS Integers, FiniteSets, FiniteSetsExt

CONSTANTS
    Seats,       \* of the approval
    Attempts,    \* block keys; bounds the attempts to book
    Prices,      \* what getUpdatedFare may answer, in all
    Calls,       \* requests and runs of the poller that may be under way together
    None

ASSUME BusAssumption ==
    /\ IsFiniteSet(Seats) /\ Seats # {}
    /\ IsFiniteSet(Attempts) /\ IsFiniteSet(Calls)
    /\ Prices \subseteq Nat
    /\ None \notin Attempts \cup Calls

VARIABLES
    approval,   \* status of the ApprovalRequest
    overdue,    \* its expiresAt is past
    overruled,  \* a decision was saved over another
    lock,       \* bus:lock:book:
    ticket,     \* what SeatSeller has for a block key
    row,        \* the BusBooking documents
    paid,       \* BOOKING_DEBIT less REFUND_CREDIT of the booking service
    drift,      \* fare differences that failed attempts did not return
    refused,    \* attempts with a refund that is logged as failed (fatal)
    unverified, \* booked attempts that nobody could confirm
    torn, unguarded,
    pc, call

approvalVars == <<approval, overdue, overruled>>
money == <<paid, drift, refused>>
marks == <<torn, unguarded>>
busVars == <<approvalVars, lock, ticket, row, money, unverified, marks, pc, call>>

ApprovalStatuses == {"pending", "approved", "rejected", "expired", "booked"}
RowStatuses == {"none", "BLOCKED", "BOOKED", "FAILED",
                "CANCELLED", "PARTIALLY_CANCELLED", "OPERATOR_CANCELLED"}
Kept == RowStatuses \ {"none", "BLOCKED", "FAILED"}
Steps == {"idle", "decide", "load", "trip", "debit", "block", "refund", "fare", "create",
          "book", "check", "fail", "save", "mark", "unlock", "delete",
          "seats", "cancelTicket", "fetch", "createRow", "credit", "saveRow", "transition"}

Total == Cardinality(Seats)   \* totalPaise

Call == [attempt : Attempts \cup {None},
         decision : {"approved", "rejected", None},
         held : Int,                          \* what it debited for no booked row yet
         locked : BOOLEAN,                    \* it has to release the lock
         stale : BOOLEAN,                     \* others have saved since it read the row
         read : RowStatuses,                  \* the status it read
         seats : SUBSET Seats,                \* it cancels
         covered : SUBSET Seats,              \* it found cancelled
         operator : BOOLEAN,                  \* it is the poller
         amount : Int, index : Nat,
         outcome : {"COMPLETED", "FAILED", "MISFILED", None}]

NoCall == [attempt |-> None, decision |-> None, held |-> 0, locked |-> FALSE,
           stale |-> FALSE, read |-> "none", seats |-> {}, covered |-> {},
           operator |-> FALSE, amount |-> 0, index |-> 0, outcome |-> None]

BusTypeOK ==
    /\ approval \in ApprovalStatuses /\ overdue \in BOOLEAN /\ overruled \in BOOLEAN
    /\ lock \in Calls \cup {None}
    /\ ticket \in [Attempts -> [state : {"none", "blocked", "lapsed", "booked", "void", "unlisted"},
                                gone : SUBSET Seats]]
    /\ row \in [Attempts -> [status : RowStatuses, total : Nat]]
    /\ paid \in Int /\ drift \in Int /\ unguarded \in BOOLEAN
    /\ refused \subseteq Attempts \cup {None}
    /\ unverified \subseteq Attempts /\ torn \subseteq Attempts \cup {None}
    /\ pc \in [Calls -> Steps]
    /\ call \in [Calls -> Call]

\* submitBusApproval leaves the request pending, or approves what policy allows.
BusInit ==
    /\ approval \in {"pending", "approved"}
    /\ overdue = FALSE /\ overruled = FALSE
    /\ lock = None
    /\ ticket = [k \in Attempts |-> [state |-> "none", gone |-> {}]]
    /\ row = [k \in Attempts |-> [status |-> "none", total |-> 0]]
    /\ paid = 0 /\ drift = 0 /\ refused = {}
    /\ unverified = {}
    /\ torn = {} /\ unguarded = FALSE
    /\ pc = [c \in Calls |-> "idle"]
    /\ call = [c \in Calls |-> NoCall]

-----------------------------------------------------------------------------
Of(c) == call[c].attempt
Goto(c, step) == pc' = [pc EXCEPT ![c] = step]

\* The call returns or throws; one with the lock releases it on the way.
Leave(c) ==
    /\ Goto(c, IF call[c].locked THEN "unlock" ELSE "idle")
    /\ call' = [call EXCEPT ![c] = [NoCall EXCEPT !.locked = call[c].locked]]

\* The copies that others have of a row turn stale when c saves it.
Outdated(c, k, memory) ==
    [d \in Calls |-> IF d = c THEN memory
                     ELSE IF Of(d) = k THEN [call[d] EXCEPT !.stale = TRUE] ELSE call[d]]

-----------------------------------------------------------------------------
(* decideApproval, sweepExpiredApprovals *)

ReadToDecide(c) ==
    /\ pc[c] = "idle"
    /\ approval = "pending"
    /\ \E decision \in {"approved", "rejected"} :
         call' = [call EXCEPT ![c] = [NoCall EXCEPT !.decision = decision]]
    /\ Goto(c, "decide")
    /\ UNCHANGED <<approvalVars, lock, ticket, row, money, unverified, marks>>

\* save() does not compare versions.
Decide(c) ==
    /\ pc[c] = "decide"
    /\ approval' = call[c].decision
    /\ overruled' = (overruled \/ approval # "pending")
    /\ Leave(c)
    /\ UNCHANGED <<overdue, lock, ticket, row, money, unverified, marks>>

ExpiryPasses ==
    /\ ~overdue
    /\ overdue' = TRUE
    /\ UNCHANGED <<approval, overruled, lock, ticket, row, money, unverified, marks, pc, call>>

SweepExpired ==
    /\ overdue
    /\ approval = "pending"
    /\ approval' = "expired"
    /\ UNCHANGED <<overdue, overruled, lock, ticket, row, money, unverified, marks, pc, call>>

-----------------------------------------------------------------------------
(* createBusBooking: the lock, the approval, the seats *)

\* Mutant: the lock is not an NX lock.
LockFreeAlways == TRUE

LockFree == lock = None

\* acquireBookingLock goes on without a lock when Redis fails.
Acquire(c) ==
    /\ pc[c] = "idle"
    /\ \/ LockFree /\ lock' = c /\ UNCHANGED unguarded
       \/ unguarded' = TRUE /\ UNCHANGED lock
    /\ call' = [call EXCEPT ![c] = [NoCall EXCEPT !.locked = TRUE]]
    /\ Goto(c, "load")
    /\ UNCHANGED <<approvalVars, ticket, row, money, unverified, torn>>

\* LOCK_TTL_SEC is over.
LockExpires ==
    /\ lock # None
    /\ lock' = None
    /\ unguarded' = (unguarded \/ call[lock].locked)
    /\ UNCHANGED <<approvalVars, ticket, row, money, unverified, torn, pc, call>>

Load(c) ==
    /\ pc[c] = "load"
    /\ IF approval = "approved" /\ ~overdue THEN Goto(c, "trip") /\ UNCHANGED call
       ELSE Leave(c)
    /\ UNCHANGED <<approvalVars, lock, ticket, row, money, unverified, marks>>

\* Seats nobody holds at the supplier.
Taken(k) == IF ticket[k].state \in {"blocked", "booked"} THEN Seats \ ticket[k].gone ELSE {}
Available == \A k \in Attempts : Taken(k) = {}

\* Live tripDetails: a seat that is taken, or dearer than approved, ends the call.
CheckTrip(c) ==
    /\ pc[c] = "trip"
    /\ \/ Available /\ Goto(c, "debit") /\ UNCHANGED call
       \/ Leave(c)
    /\ UNCHANGED <<approvalVars, lock, ticket, row, money, unverified, marks>>

-----------------------------------------------------------------------------
(* createBusBooking: debit, block, RTC fare *)

Debit(c) ==
    /\ pc[c] = "debit"
    /\ \/ /\ paid' = paid + Total
          /\ call' = [call EXCEPT ![c].held = Total]
          /\ Goto(c, "block")
       \/ Leave(c) /\ UNCHANGED paid                      \* not enough money
    /\ UNCHANGED <<approvalVars, lock, ticket, row, drift, refused, unverified, marks>>

Block(c) ==
    /\ pc[c] = "block"
    /\ \/ \E k \in Attempts :
            /\ Available /\ ticket[k].state = "none"
            /\ ticket' = [ticket EXCEPT ![k].state = "blocked"]
            /\ call' = [call EXCEPT ![c].attempt = k]
            /\ \E step \in {"fare", "create"} : Goto(c, step)   \* callFareBreakupApi
       \/ Goto(c, "refund") /\ UNCHANGED <<ticket, call>>
    /\ UNCHANGED <<approvalVars, lock, row, money, unverified, marks>>

BlockLapses(k) ==
    /\ ticket[k].state = "blocked"
    /\ ticket' = [ticket EXCEPT ![k].state = "lapsed"]
    /\ UNCHANGED <<approvalVars, lock, row, money, unverified, marks, pc, call>>

\* getUpdatedFare, and the posting of the difference; either may throw.
TakeFare(c) ==
    /\ pc[c] = "fare"
    /\ \/ \E price \in Prices :
            /\ paid' = paid + price - Total
            /\ call' = [call EXCEPT ![c].held = price]
            /\ Goto(c, "create")
       \/ Goto(c, "refund") /\ UNCHANGED <<paid, call>>
    /\ UNCHANGED <<approvalVars, lock, ticket, row, drift, refused, unverified, marks>>

\* Mutant: the refund is that of one seat.
RefundOfOneSeat == 1

RefundOnFailure == Total

\* refundOnFailure of totalPaise; a refused credit is swallowed.
Refund(c) ==
    /\ pc[c] = "refund"
    /\ \/ /\ paid' = paid - RefundOnFailure
          /\ drift' = drift + call[c].held - Total
          /\ UNCHANGED refused
       \/ refused' = refused \cup {Of(c)} /\ UNCHANGED <<paid, drift>>
    /\ Leave(c)
    /\ UNCHANGED <<approvalVars, lock, ticket, row, unverified, marks>>

\* BusBooking.create; no catch refunds the debit when it throws.
CreateRow(c) ==
    /\ pc[c] = "create"
    /\ \/ /\ row' = [row EXCEPT ![Of(c)] = [status |-> "BLOCKED", total |-> call[c].held]]
          /\ Goto(c, "book")
          /\ UNCHANGED <<torn, call>>
       \/ torn' = torn \cup {Of(c)} /\ Leave(c) /\ UNCHANGED row
    /\ UNCHANGED <<approvalVars, lock, ticket, money, unverified, unguarded>>

-----------------------------------------------------------------------------
(* createBusBooking: the commit *)

\* bookTicket and getTicket: both answer; a transport error hides whether the
\* booking landed; or an error is taken for a no, one of getTicket as well.
Book(c) ==
    LET k == Of(c) IN
    /\ pc[c] = "book"
    /\ \/ /\ ticket[k].state = "blocked"
          /\ ticket' = [ticket EXCEPT ![k].state = "booked"]
          /\ \/ \E step \in {"save", "check"} : Goto(c, step) /\ UNCHANGED unverified
             \/ Goto(c, "fail") /\ unverified' = unverified \cup {k}
       \/ (\E step \in {"check", "fail"} : Goto(c, step)) /\ UNCHANGED <<ticket, unverified>>
    /\ UNCHANGED <<approvalVars, lock, row, money, marks, call>>

\* Mutant: the ticket is looked for by the wrong key.
FoundNever(k) == FALSE

\* States of a ticket that was booked; the operator took the last two back.
Issued == {"booked", "void", "unlisted"}

Found(k) == ticket[k].state \in Issued

\* tryReconcileBook: checkBookedTicket, which may fail as well.
Check(c) ==
    /\ pc[c] = "check"
    /\ \/ /\ Goto(c, IF Found(Of(c)) THEN "save" ELSE "fail")
          /\ UNCHANGED unverified
       \/ /\ Goto(c, "fail")
          /\ unverified' = IF Found(Of(c)) THEN unverified \cup {Of(c)} ELSE unverified
    /\ UNCHANGED <<approvalVars, lock, ticket, row, money, marks, call>>

MarkFailed(c) ==
    /\ pc[c] = "fail"
    /\ row' = [row EXCEPT ![Of(c)].status = "FAILED"]
    /\ Goto(c, "refund")
    /\ UNCHANGED <<approvalVars, lock, ticket, money, unverified, marks, call>>

SaveBooked(c) ==
    /\ pc[c] = "save"
    /\ row' = [row EXCEPT ![Of(c)].status = "BOOKED"]
    /\ call' = Outdated(c, Of(c), [call[c] EXCEPT !.held = 0])
    /\ Goto(c, "mark")
    /\ UNCHANGED <<approvalVars, lock, ticket, money, unverified, marks>>

\* markApprovalBooked; a failure is logged only.
MarkApproval(c) ==
    /\ pc[c] = "mark"
    /\ \/ /\ approval = "approved"
          /\ approval' = "booked"
          /\ UNCHANGED unguarded
       \/ unguarded' = TRUE /\ UNCHANGED approval
    /\ Leave(c)
    /\ UNCHANGED <<overdue, overruled, lock, ticket, row, money, unverified, torn>>

\* releaseBookingLock: GET, then DEL.
CheckLock(c) ==
    /\ pc[c] = "unlock"
    /\ \/ lock = c /\ Goto(c, "delete") /\ UNCHANGED call
       \/ Goto(c, "idle") /\ call' = [call EXCEPT ![c] = NoCall]
    /\ UNCHANGED <<approvalVars, lock, ticket, row, money, unverified, marks>>

DeleteLock(c) ==
    /\ pc[c] = "delete"
    /\ lock' = None
    /\ Goto(c, "idle")
    /\ call' = [call EXCEPT ![c] = NoCall]
    /\ UNCHANGED <<approvalVars, ticket, row, money, unverified, marks>>

-----------------------------------------------------------------------------
\* Steps at which something was done that no document tells yet.
Untold == {"block", "refund", "fare", "create", "book", "check", "fail", "save"}

\* The process dies; the lock stays until it expires.
CrashAt(c, steps) ==
    /\ pc[c] # "idle"
    /\ torn' = IF pc[c] \in steps THEN torn \cup {Of(c)} ELSE torn
    /\ unguarded' = (unguarded \/ pc[c] = "mark")
    /\ Goto(c, "idle")
    /\ call' = [call EXCEPT ![c] = NoCall]
    /\ UNCHANGED <<approvalVars, lock, ticket, row, money, unverified>>

BusProceed(c) ==
    \/ Decide(c) \/ Load(c) \/ CheckTrip(c) \/ Debit(c) \/ Block(c) \/ TakeFare(c)
    \/ Refund(c) \/ CreateRow(c) \/ Book(c) \/ Check(c) \/ MarkFailed(c) \/ SaveBooked(c)
    \/ MarkApproval(c) \/ CheckLock(c) \/ DeleteLock(c)

BusStart(c) == ReadToDecide(c) \/ Acquire(c)

BusEnvironment ==
    \/ ExpiryPasses \/ SweepExpired \/ LockExpires
    \/ \E k \in Attempts : BlockLapses(k)

-----------------------------------------------------------------------------
(* Properties *)

\* "Refund happens on every error path that left a debit standing": until a call
\* is torn or a refund refused, the agency has paid for the rows that were booked
\* and for what calls still hold.  The fare difference of an RTC operator is the
\* exception, for a failed attempt refunds the approved total (drift).
BookedIsPaid ==
    torn = {} /\ refused = {} =>
        paid = drift + MapThenSumSet(LAMBDA k : row[k].total,
                                     {k \in Attempts : row[k].status \in Kept})
                     + MapThenSumSet(LAMBDA c : call[c].held, Calls)

\* A booking whose answer was lost in transport is found again: a ticket whose
\* row says FAILED is one that the look-up could not decide about.
LostTicketIsFound ==
    \A k \in Attempts \ unverified :
        row[k].status = "FAILED" => ticket[k].state \notin Issued

\* While the lock, the mark and the first decision hold, an approval is used for
\* one booking, also when that booking is cancelled and its seats are on sale again.
ApprovalUsedOnce ==
    ~unguarded /\ ~overruled /\ torn = {} => Cardinality({k \in Attempts : row[k].status \in Kept}) <= 1

\* Until managers overrule each other a booking stands on an approval: neither
\* the expiry sweep nor a late decision takes it away.
BookingIsApproved ==
    ~overruled /\ (\E k \in Attempts : row[k].status \in Kept) =>
        approval \in {"approved", "booked"}

\* Approvals and bookings go together one to one, as far as lock and mark hold.
OneApprovedBooking == ApprovalUsedOnce /\ BookingIsApproved
=============================================================================
