----------------------------- MODULE BusProofs -----------------------------
(***************************************************************************)
(* Theorems about BusBooking beside BusCancellation, for any number of     *)
(* attempts, seats and calls: a ticket whose answer was lost is found,     *)
(* approvals and bookings go together, what is booked is paid, and seats   *)
(* that are cancelled are refunded once and shown.                         *)
(*                                                                         *)
(* A block key belongs to the call that blocked it until its row is        *)
(* BOOKED, and only then to cancellations, so that no call finds the row   *)
(* in another state than it left it in.  As long as the lock holds its     *)
(* holder is the only call between the approval and the mark on it.        *)
(* What was paid is the drift of fares, the amounts of the kept rows and   *)
(* what the calls on their way hold: one sum over rows, one over calls.    *)
(* What was refunded is at most the fare of the seats whose refund may     *)
(* have been posted: those the supplier has cancelled, less those of calls *)
(* that have not credited them, and the rest when the operator's credit is *)
(* done.                                                                   *)
(***************************************************************************)
EXTENDS BusCancellation, SetSums, SequenceTheorems

-----------------------------------------------------------------------------
(* The inductive invariant *)

Unattached == {"idle", "decide", "load", "trip", "debit", "block", "unlock", "delete"}
Attempting == {"fare", "create", "book", "check", "fail", "save"}
Cancelling == {"seats", "cancelTicket", "fetch", "createRow", "credit", "saveRow", "transition"}

\* From the read of the approval to the mark on it.
Approved == {"trip", "debit", "block", "fare", "create", "book", "check", "save", "mark"}
Locked   == Approved \cup {"load", "fail", "refund", "unlock", "delete"}

KeptRows == {k \in Attempts : row[k].status \in Kept}

\* What a call holds and credits is an amount, and the row it is about to save
\* is one it has created.
CallKnown(c) ==
    /\ call[c].held \in Nat /\ call[c].amount \in Nat
    /\ pc[c] = "decide" => call[c].decision \in {"approved", "rejected"}
    /\ pc[c] \in {"credit", "saveRow"} => call[c].index \in DOMAIN cancels[Of(c)]
    /\ pc[c] = "saveRow" => call[c].outcome \in {"COMPLETED", "FAILED", "MISFILED"}

\* A call works on an attempt it has blocked, or on a booked one.
StepKnown(c) ==
    /\ pc[c] \in Unattached => Of(c) = None
    /\ pc[c] \in Attempting \cup Cancelling \cup {"mark"} => Of(c) \in Attempts
    /\ pc[c] \in Locked <=> call[c].locked

\* What it finds there is what it left.
AttemptKnown(c) ==
    LET k == Of(c) IN
    /\ k # None => ticket[k].state # "none"
    /\ pc[c] \in {"fare", "create"} => row[k].status = "none"
    /\ pc[c] \in {"book", "check", "fail", "save"} => row[k].status = "BLOCKED"
    /\ pc[c] \in {"fare", "create", "book"} => ticket[k].state \in {"blocked", "lapsed"}
    /\ pc[c] = "fail" => k \in unverified \/ ticket[k].state \in {"blocked", "lapsed"}
    /\ pc[c] \in Cancelling \cup {"mark"} => row[k].status \in Kept

AttemptsOwned ==
    \A c, d \in Calls : pc[c] \in Attempting /\ pc[d] \in Attempting /\ Of(c) = Of(d) => c = d

\* Nothing is known of a key nobody has blocked, and what failed was not booked.
RowKnown(k) ==
    /\ ticket[k].state = "none" => row[k].status = "none"
    /\ row[k].status = "FAILED" => k \in unverified \/ ticket[k].state \in {"blocked", "lapsed"}

\* The lock is its holder's, until it is lost.
LockHeld == ~unguarded => \A c \in Calls : call[c].locked => lock = c

\* Until it is overruled a decision stands under the calls and bookings that rest on it.
DecisionStands ==
    ~overruled =>
        /\ \A c \in Calls : pc[c] \in Approved => approval \in {"approved", "booked"}
        /\ KeptRows # {} => approval \in {"approved", "booked"}

\* With the lock as well, who works on an approval finds it unused, and the
\* booking is there before the mark on the approval, by the hand that makes it.
ApprovalUnused ==
    ~overruled /\ ~unguarded =>
        /\ \A c \in Calls : pc[c] \in Approved => approval = "approved"
        /\ \A c \in Calls : pc[c] \in Approved \ {"mark"} => KeptRows = {}
        /\ approval # "booked" /\ KeptRows # {} => \E c \in Calls : pc[c] = "mark"
        /\ \A k, l \in KeptRows : k = l

AttemptsKnown ==
    /\ \A c \in Calls : StepKnown(c) /\ AttemptKnown(c)
    /\ AttemptsOwned
    /\ \A k \in Attempts : RowKnown(k)

Typed == TypeOK /\ \A c \in Calls : CallKnown(c)

IInv == Typed /\ AttemptsKnown /\ LockHeld /\ DecisionStands /\ ApprovalUnused

-----------------------------------------------------------------------------
(* Types *)

LEMMA TotalIsNat == Total \in Nat
  BY BusAssumption, FS_CardinalityType DEF Total

LEMMA SeatsCounted ==
    ASSUME NEW S \in SUBSET Seats
    PROVE  IsFiniteSet(S) /\ Cardinality(S) \in Nat
  BY BusAssumption, FS_CardinalityType, FS_Subset

LEMMA SeatsThere == Total \in Nat \ {0}
<1>1. Cardinality(Seats) \in Nat /\ Cardinality(Seats) # 0
  BY BusAssumption, FS_CardinalityType, FS_EmptySet
<1> QED
  BY <1>1 DEF Total

LEMMA FareIsNat ==
    ASSUME Typed, NEW k \in Attempts, NEW S \in SUBSET Seats
    PROVE  FareOf(k, S) \in Nat
<1>1. row[k].total \in Nat
  BY DEF Typed, TypeOK, BusTypeOK
<1>2. PICK n \in Nat : n = Cardinality(S)
  BY SeatsCounted
<1>3. n * row[k].total \in Nat
  BY <1>1, <1>2
<1> QED
  BY <1>2, <1>3, SeatsThere DEF FareOf

\* What a call remembers, edited.
LEMMA CallEdited ==
    ASSUME NEW r \in Call, NEW b \in BOOLEAN
    PROVE  /\ [r EXCEPT !.locked = b] \in Call
           /\ [r EXCEPT !.stale = b] \in Call
           /\ [r EXCEPT !.locked = b].locked = b
           /\ [r EXCEPT !.locked = b].held = r.held
           /\ [r EXCEPT !.locked = b].amount = r.amount
           /\ [r EXCEPT !.locked = b].attempt = r.attempt
  BY Zenon DEF Call

LEMMA CallCounted ==
    ASSUME NEW r \in Call, NEW n \in Nat
    PROVE  /\ [r EXCEPT !.held = n] \in Call
           /\ [r EXCEPT !.amount = n] \in Call
           /\ [r EXCEPT !.index = n] \in Call
<1>1. [r EXCEPT !.held = n] \in Call
  BY DEF Call
<1>2. [r EXCEPT !.amount = n] \in Call
  BY DEF Call
<1>3. [r EXCEPT !.index = n] \in Call
  BY DEF Call
<1> QED
  BY <1>1, <1>2, <1>3

\* What a call leaves behind.
LEMMA NoCallTyped ==
    /\ NoCall \in Call
    /\ NoCall.held \in Nat /\ NoCall.amount \in Nat /\ NoCall.attempt = None
    /\ NoCall.locked = FALSE
  BY DEF NoCall, Call, RowStatuses

LEMMA LeaveTyped ==
    ASSUME Typed, NEW c \in Calls, Leave(c)
    PROVE  /\ pc' \in [Calls -> Steps] /\ call' \in [Calls -> Call]
           /\ pc'[c] \in {"unlock", "idle"}
           /\ call'[c].held \in Nat /\ call'[c].amount \in Nat
           /\ call'[c].attempt = None /\ call'[c].locked = call[c].locked
           /\ call[c].locked => pc'[c] = "unlock"
           /\ ~call[c].locked => pc'[c] = "idle"
           /\ \A d \in Calls \ {c} : pc'[d] = pc[d] /\ call'[d] = call[d]
<1>1. /\ pc \in [Calls -> Steps] /\ call \in [Calls -> Call] /\ call[c].locked \in BOOLEAN
  BY DEF Typed, TypeOK, BusTypeOK, Call
<1>2. /\ [NoCall EXCEPT !.locked = call[c].locked] \in Call
      /\ [NoCall EXCEPT !.locked = call[c].locked].held = 0
      /\ [NoCall EXCEPT !.locked = call[c].locked].amount = 0
      /\ [NoCall EXCEPT !.locked = call[c].locked].attempt = None
      /\ [NoCall EXCEPT !.locked = call[c].locked].locked = call[c].locked
  BY <1>1, NoCallTyped, CallEdited DEF NoCall
<1>3. /\ pc' = [pc EXCEPT ![c] = IF call[c].locked THEN "unlock" ELSE "idle"]
      /\ call' = [call EXCEPT ![c] = [NoCall EXCEPT !.locked = call[c].locked]]
  BY DEF Leave, Goto
<1>4. pc' \in [Calls -> Steps] /\ call' \in [Calls -> Call]
  BY <1>1, <1>2, <1>3 DEF Steps
<1>5. pc'[c] = (IF call[c].locked THEN "unlock" ELSE "idle") /\ call'[c] = [NoCall EXCEPT !.locked = call[c].locked]
  BY <1>1, <1>3
<1>6. \A d \in Calls \ {c} : pc'[d] = pc[d] /\ call'[d] = call[d]
  BY <1>1, <1>3
<1> QED
  BY <1>1, <1>2, <1>4, <1>5, <1>6

\* A step of the booking service that leaves the types as they are, by what it does
\* to its own call.
LEMMA OtherCallsKnown ==
    ASSUME Typed, NEW c \in Calls, UNCHANGED cancels,
           \A d \in Calls \ {c} : pc'[d] = pc[d] /\ call'[d] = call[d]
    PROVE  \A d \in Calls \ {c} : CallKnown(d)'
  BY DEF Typed, CallKnown, Of

LEMMA LeaveKnown ==
    ASSUME Typed, NEW c \in Calls, UNCHANGED cancels, Leave(c)
    PROVE  \A d \in Calls : CallKnown(d)'
<1>1. CallKnown(c)'
  BY LeaveTyped DEF CallKnown
<1> QED
  BY <1>1, LeaveTyped, OtherCallsKnown

LEMMA TypedBooking ==
    ASSUME Typed, AttemptsKnown, NEW c \in Calls, BusProceed(c), UNCHANGED cancelVars
    PROVE  Typed'
<1> USE DEF cancelVars, approvalVars, money, marks
<1>0. /\ approval \in ApprovalStatuses /\ overdue \in BOOLEAN /\ overruled \in BOOLEAN
      /\ lock \in Calls \cup {None}
      /\ ticket \in [Attempts -> [state : {"none", "blocked", "lapsed", "booked", "void", "unlisted"},
                                  gone : SUBSET Seats]]
      /\ row \in [Attempts -> [status : RowStatuses, total : Nat]]
      /\ paid \in Int /\ drift \in Int /\ unguarded \in BOOLEAN
      /\ refused \subseteq Attempts \cup {None}
      /\ unverified \subseteq Attempts /\ torn \subseteq Attempts \cup {None}
      /\ pc \in [Calls -> Steps] /\ call \in [Calls -> Call]
      /\ call[c] \in Call /\ Of(c) \in Attempts \cup {None}
      /\ pc[c] \in Attempting => Of(c) \in Attempts
      /\ call[c].held \in Nat /\ CallKnown(c) /\ StepKnown(c)
      /\ cancels \in [Attempts -> Seq(Cancellation)] /\ settled \in [Attempts -> Nat]
  BY DEF Typed, TypeOK, BusTypeOK, AttemptsKnown, StepKnown, CallKnown, Call, Of
<1>1. CASE Decide(c)
  <2>1. approval' \in ApprovalStatuses /\ overruled' \in BOOLEAN
    BY <1>0, <1>1 DEF Decide, Call, CallKnown, ApprovalStatuses
  <2> QED
    BY <1>0, <1>1, <2>1, LeaveTyped, LeaveKnown DEF Decide, Typed, TypeOK, BusTypeOK
<1>2. CASE Load(c)
  <2>1. CASE Leave(c)
    BY <1>0, <1>2, <2>1, LeaveTyped, LeaveKnown DEF Load, Typed, TypeOK, BusTypeOK
  <2>2. CASE Goto(c, "trip") /\ UNCHANGED call
    BY <1>0, <1>2, <2>2 DEF Load, Goto, Typed, TypeOK, BusTypeOK, CallKnown, Steps, Of
  <2> QED
    BY <1>2, <2>1, <2>2 DEF Load
<1>3. CASE CheckTrip(c)
  <2>1. CASE Leave(c)
    BY <1>0, <1>3, <2>1, LeaveTyped, LeaveKnown DEF CheckTrip, Typed, TypeOK, BusTypeOK
  <2>2. CASE Goto(c, "debit") /\ UNCHANGED call
    BY <1>0, <1>3, <2>2 DEF CheckTrip, Goto, Typed, TypeOK, BusTypeOK, CallKnown, Steps, Of
  <2> QED
    BY <1>3, <2>1, <2>2 DEF CheckTrip
<1>4. CASE Debit(c)
  <2>1. CASE Leave(c) /\ UNCHANGED paid
    BY <1>0, <1>4, <2>1, LeaveTyped, LeaveKnown DEF Debit, Typed, TypeOK, BusTypeOK
  <2>2. CASE call' = [call EXCEPT ![c].held = Total] /\ Goto(c, "block") /\ paid' = paid + Total
    <3>0. paid' \in Int
      BY <1>0, <2>2, TotalIsNat
    <3>4. [call[c] EXCEPT !.held = Total] \in Call
      BY <1>0, TotalIsNat, CallCounted
    <3>1. call' \in [Calls -> Call] /\ pc' \in [Calls -> Steps] /\ paid' \in Int
      BY <1>0, <2>2, <3>0, <3>4 DEF Goto, Steps
    <3>2. CallKnown(c)'
      BY <1>0, <2>2, TotalIsNat DEF CallKnown, Call, Goto, Of
    <3> QED
      BY <1>0, <1>4, <2>2, <3>1, <3>2, OtherCallsKnown DEF Debit, Goto, Typed, TypeOK, BusTypeOK
  <2> QED
    BY <1>4, <2>1, <2>2 DEF Debit
<1>5. CASE Block(c)
  <2>1. ASSUME NEW k \in Attempts, NEW step \in {"fare", "create"}, Goto(c, step),
               ticket' = [ticket EXCEPT ![k].state = "blocked"],
               call' = [call EXCEPT ![c].attempt = k]
        PROVE  Typed'
    <3>1. call' \in [Calls -> Call] /\ pc' \in [Calls -> Steps]
      BY <1>0, <2>1 DEF Call, Goto, Steps
    <3>2. CallKnown(c)'
      BY <1>0, <2>1 DEF CallKnown, Call, Goto, Of
    <3>3. ticket' \in [Attempts -> [state : {"none", "blocked", "lapsed", "booked", "void", "unlisted"},
                                    gone : SUBSET Seats]]
      BY <1>0, <2>1
    <3> QED
      BY <1>0, <1>5, <2>1, <3>1, <3>2, <3>3, OtherCallsKnown
      DEF Block, Goto, Typed, TypeOK, BusTypeOK
  <2>2. CASE Goto(c, "refund") /\ UNCHANGED <<ticket, call>>
    BY <1>0, <1>5, <2>2 DEF Block, Goto, Typed, TypeOK, BusTypeOK, CallKnown, Steps, Of
  <2> QED
    BY <1>5, <2>1, <2>2 DEF Block
<1>6. CASE TakeFare(c)
  <2>1. ASSUME NEW price \in Prices, paid' = paid + price - Total, Goto(c, "create"),
               call' = [call EXCEPT ![c].held = price]
        PROVE  Typed'
    <3>0. price \in Nat
      BY BusAssumption
    <3>4. paid' \in Int
      BY <1>0, <2>1, <3>0, TotalIsNat
    <3>5. [call[c] EXCEPT !.held = price] \in Call
      BY <1>0, <3>0, CallCounted
    <3>1. call' \in [Calls -> Call] /\ pc' \in [Calls -> Steps] /\ paid' \in Int
      BY <1>0, <2>1, <3>4, <3>5 DEF Goto, Steps
    <3>2. CallKnown(c)'
      BY <1>0, <2>1, <3>0 DEF CallKnown, Call, Goto, Of
    <3> QED
      BY <1>0, <1>6, <2>1, <3>1, <3>2, OtherCallsKnown
      DEF TakeFare, Goto, Typed, TypeOK, BusTypeOK
  <2>2. CASE Goto(c, "refund") /\ UNCHANGED <<paid, call>>
    BY <1>0, <1>6, <2>2 DEF TakeFare, Goto, Typed, TypeOK, BusTypeOK, CallKnown, Steps, Of
  <2> QED
    BY <1>6, <2>1, <2>2 DEF TakeFare
<1>7. CASE Refund(c)
  <2>1. paid' \in Int /\ drift' \in Int /\ refused' \subseteq Attempts \cup {None}
    BY <1>0, <1>7, TotalIsNat DEF Refund, RefundOnFailure
  <2> QED
    BY <1>0, <1>7, <2>1, LeaveTyped, LeaveKnown DEF Refund, Typed, TypeOK, BusTypeOK
<1>8. CASE CreateRow(c)
  <2>1. CASE Leave(c) /\ torn' = torn \cup {Of(c)} /\ UNCHANGED row
    BY <1>0, <1>8, <2>1, LeaveTyped, LeaveKnown DEF CreateRow, Typed, TypeOK, BusTypeOK
  <2>2. CASE /\ row' = [row EXCEPT ![Of(c)] = [status |-> "BLOCKED", total |-> call[c].held]]
             /\ Goto(c, "book") /\ UNCHANGED <<torn, call>>
    <3>1. row' \in [Attempts -> [status : RowStatuses, total : Nat]]
      BY <1>0, <2>2 DEF RowStatuses
    <3> QED
      BY <1>0, <1>8, <2>2, <3>1
      DEF CreateRow, Goto, Typed, TypeOK, BusTypeOK, CallKnown, Steps, Of
  <2> QED
    BY <1>8, <2>1, <2>2 DEF CreateRow
<1>9. CASE Book(c)
  <2>0. Of(c) \in Attempts
    BY <1>0, <1>9 DEF Book, Attempting
  <2>1. ticket' \in [Attempts -> [state : {"none", "blocked", "lapsed", "booked", "void", "unlisted"},
                                  gone : SUBSET Seats]]
    <3>1. CASE UNCHANGED ticket
      BY <1>0, <3>1
    <3>2. CASE ticket' = [ticket EXCEPT ![Of(c)].state = "booked"]
      BY <1>0, <2>0, <3>2
    <3> QED
      BY <1>9, <3>1, <3>2 DEF Book
  <2>2. unverified' \subseteq Attempts
    BY <1>0, <1>9, <2>0 DEF Book
  <2>3. \E step \in {"save", "check", "fail"} : Goto(c, step)
    BY <1>9 DEF Book
  <2> QED
    BY <1>0, <1>9, <2>1, <2>2, <2>3 DEF Book, Goto, Typed, TypeOK, BusTypeOK, CallKnown, Steps, Of
<1>10. CASE Check(c)
  <2>1. unverified' \subseteq Attempts /\ \E step \in {"save", "fail"} : Goto(c, step)
    BY <1>0, <1>10 DEF Check, Attempting
  <2> QED
    BY <1>0, <1>10, <2>1 DEF Check, Goto, Typed, TypeOK, BusTypeOK, CallKnown, Steps, Of
<1>11. CASE MarkFailed(c)
  <2>1. row' \in [Attempts -> [status : RowStatuses, total : Nat]]
    BY <1>0, <1>11 DEF MarkFailed, RowStatuses
  <2> QED
    BY <1>0, <1>11, <2>1 DEF MarkFailed, Goto, Typed, TypeOK, BusTypeOK, CallKnown, Steps, Of
<1>12. CASE SaveBooked(c)
  <2>1. row' \in [Attempts -> [status : RowStatuses, total : Nat]]
    BY <1>0, <1>12 DEF SaveBooked, RowStatuses
  <2>4. [call[c] EXCEPT !.held = 0] \in Call
    BY <1>0, CallCounted
  <2>5. \A d \in Calls : [call[d] EXCEPT !.stale = TRUE] \in Call
    BY <1>0, CallEdited
  <2>2. call' \in [Calls -> Call] /\ pc' \in [Calls -> Steps]
    BY <1>0, <1>12, <2>4, <2>5 DEF SaveBooked, Outdated, Goto, Steps
  <2>3. ASSUME NEW d \in Calls PROVE CallKnown(d)'
    BY <1>0, <1>12 DEF SaveBooked, Outdated, Goto, Typed, TypeOK, BusTypeOK, CallKnown, Call, Of
  <2> QED
    BY <1>0, <1>12, <2>1, <2>2, <2>3 DEF SaveBooked, Typed, TypeOK, BusTypeOK
<1>13. CASE MarkApproval(c)
  <2>1. approval' \in ApprovalStatuses /\ unguarded' \in BOOLEAN
    BY <1>0, <1>13 DEF MarkApproval, ApprovalStatuses
  <2> QED
    BY <1>0, <1>13, <2>1, LeaveTyped, LeaveKnown DEF MarkApproval, Typed, TypeOK, BusTypeOK
<1>14. CASE CheckLock(c)
  <2>1. CASE Goto(c, "delete") /\ UNCHANGED call
    BY <1>0, <1>14, <2>1 DEF CheckLock, Goto, Typed, TypeOK, BusTypeOK, CallKnown, Steps, Of
  <2>2. CASE Goto(c, "idle") /\ call' = [call EXCEPT ![c] = NoCall]
    BY <1>0, <1>14, <2>2, NoCallTyped
    DEF CheckLock, Goto, Typed, TypeOK, BusTypeOK, CallKnown, Steps, Of
  <2> QED
    BY <1>14, <2>1, <2>2 DEF CheckLock
<1>15. CASE DeleteLock(c)
  BY <1>0, <1>15, NoCallTyped
  DEF DeleteLock, Goto, Typed, TypeOK, BusTypeOK, CallKnown, Steps, Of
<1> QED
  BY <1>1, <1>2, <1>3, <1>4, <1>5, <1>6, <1>7, <1>8, <1>9, <1>10, <1>11, <1>12, <1>13, <1>14, <1>15
  DEF BusProceed

\* The copies others have of a row that c saves are still copies of that row.
LEMMA OutdatedTyped ==
    ASSUME Typed, NEW c \in Calls, NEW k \in Attempts, NEW memory \in Call,
           call' = Outdated(c, k, memory)
    PROVE  /\ call' \in [Calls -> Call]
           /\ call'[c] = memory
           /\ \A d \in Calls \ {c} :
                /\ call'[d].attempt = call[d].attempt /\ call'[d].locked = call[d].locked
                /\ call'[d].held = call[d].held /\ call'[d].amount = call[d].amount
                /\ call'[d].index = call[d].index /\ call'[d].outcome = call[d].outcome
                /\ call'[d].decision = call[d].decision
<1>1. call \in [Calls -> Call]
  BY DEF Typed, TypeOK, BusTypeOK
<1>2. \A d \in Calls : [call[d] EXCEPT !.stale = TRUE] \in Call
  BY <1>1, CallEdited
<1>3. call' \in [Calls -> Call] /\ call'[c] = memory
  BY <1>1, <1>2 DEF Outdated
<1>4. ASSUME NEW d \in Calls \ {c}
      PROVE  call'[d] = call[d] \/ call'[d] = [call[d] EXCEPT !.stale = TRUE]
  BY <1>4 DEF Outdated
<1> QED
  BY <1>1, <1>3, <1>4 DEF Call

LEMMA TypedStarting ==
    ASSUME Typed, NEW c \in Calls, BusStart(c), UNCHANGED cancelVars
    PROVE  Typed'
<1> USE DEF cancelVars, approvalVars, money, marks
<1>0. /\ pc \in [Calls -> Steps] /\ call \in [Calls -> Call]
      /\ lock \in Calls \cup {None} /\ unguarded \in BOOLEAN
  BY DEF Typed, TypeOK, BusTypeOK
<1>1. CASE ReadToDecide(c)
  <2>1. PICK decision \in {"approved", "rejected"} :
            call' = [call EXCEPT ![c] = [NoCall EXCEPT !.decision = decision]]
    BY <1>1 DEF ReadToDecide
  <2>2. [NoCall EXCEPT !.decision = decision] \in Call
    BY NoCallTyped DEF Call
  <2>3. call' \in [Calls -> Call] /\ pc' \in [Calls -> Steps]
    BY <1>0, <1>1, <2>1, <2>2 DEF ReadToDecide, Goto, Steps
  <2>4. CallKnown(c)'
    BY <1>0, <1>1, <2>1 DEF ReadToDecide, Goto, CallKnown, NoCall
  <2>5. \A d \in Calls \ {c} : pc'[d] = pc[d] /\ call'[d] = call[d]
    BY <1>0, <1>1, <2>1 DEF ReadToDecide, Goto
  <2> QED
    BY <1>1, <2>3, <2>4, <2>5, OtherCallsKnown DEF ReadToDecide, Typed, TypeOK, BusTypeOK
<1>2. CASE Acquire(c)
  <2>1. [NoCall EXCEPT !.locked = TRUE] \in Call
    BY NoCallTyped, CallEdited
  <2>2. call' \in [Calls -> Call] /\ pc' \in [Calls -> Steps]
    BY <1>0, <1>2, <2>1 DEF Acquire, Goto, Steps
  <2>3. lock' \in Calls \cup {None} /\ unguarded' \in BOOLEAN
    BY <1>0, <1>2 DEF Acquire
  <2>4. CallKnown(c)'
    BY <1>0, <1>2 DEF Acquire, Goto, CallKnown, NoCall
  <2>5. \A d \in Calls \ {c} : pc'[d] = pc[d] /\ call'[d] = call[d]
    BY <1>0, <1>2 DEF Acquire, Goto
  <2> QED
    BY <1>2, <2>2, <2>3, <2>4, <2>5, OtherCallsKnown DEF Acquire, Typed, TypeOK, BusTypeOK
<1> QED
  BY <1>1, <1>2 DEF BusStart

LEMMA TypedEnvironment ==
    ASSUME Typed, BusEnvironment, UNCHANGED cancelVars
    PROVE  Typed'
<1> USE DEF cancelVars, approvalVars, money, marks, Typed, TypeOK, BusTypeOK
<1>0. \A c \in Calls : CallKnown(c)'
  BY DEF CallKnown, Of, BusEnvironment, ExpiryPasses, SweepExpired, LockExpires, BlockLapses
<1>1. CASE ExpiryPasses
  BY <1>0, <1>1 DEF ExpiryPasses
<1>2. CASE SweepExpired
  BY <1>0, <1>2 DEF SweepExpired, ApprovalStatuses
<1>3. CASE LockExpires
  <2>1. call[lock].locked \in BOOLEAN
    BY <1>3 DEF LockExpires, Call
  <2> QED
    BY <1>0, <1>3, <2>1 DEF LockExpires
<1>4. ASSUME NEW k \in Attempts, BlockLapses(k) PROVE Typed'
  BY <1>0, <1>4 DEF BlockLapses
<1> QED
  BY <1>1, <1>2, <1>3, <1>4 DEF BusEnvironment

LEMMA TypedCrash ==
    ASSUME Typed, NEW c \in Calls, Crash(c)
    PROVE  Typed'
<1> USE DEF cancelVars, approvalVars, money, marks
<1>1. /\ pc \in [Calls -> Steps] /\ call \in [Calls -> Call] /\ Of(c) \in Attempts \cup {None}
      /\ torn \subseteq Attempts \cup {None} /\ unguarded \in BOOLEAN
  BY DEF Typed, TypeOK, BusTypeOK, Of, Call
<1>2. /\ call' = [call EXCEPT ![c] = NoCall] /\ Goto(c, "idle")
      /\ torn' \in {torn, torn \cup {Of(c)}} /\ unguarded' \in BOOLEAN
  BY <1>1 DEF Crash, CrashAt
<1>3. call' \in [Calls -> Call] /\ pc' \in [Calls -> Steps] /\ torn' \subseteq Attempts \cup {None}
  BY <1>1, <1>2, NoCallTyped DEF Goto, Steps
<1>4. \A d \in Calls \ {c} : pc'[d] = pc[d] /\ call'[d] = call[d]
  BY <1>1, <1>2 DEF Goto
<1>5. CallKnown(c)'
  BY <1>1, <1>2, NoCallTyped DEF CallKnown, Goto
<1> QED
  BY <1>2, <1>3, <1>4, <1>5, OtherCallsKnown DEF Crash, CrashAt, Typed, TypeOK, BusTypeOK

LEMMA CoveredTyped ==
    ASSUME Typed, NEW k \in Attempts
    PROVE  Covered(k) \in SUBSET Seats
<1>1. cancels[k] \in Seq(Cancellation)
  BY DEF Typed, TypeOK
<1>2. \A i \in DOMAIN cancels[k] : cancels[k][i] \in Cancellation
  BY <1>1, ElementOfSeq, LenProperties
<1>3. \A r \in Range(cancels[k]) : r.seats \subseteq Seats
  BY <1>2 DEF Range, Cancellation
<1> QED
  BY <1>3 DEF Covered

\* Cancellations of seats that are counted.
LEMMA TypedCancelling ==
    ASSUME Typed, AttemptsKnown, NEW c \in Calls,
           \/ ReadSeats(c) \/ CancelTicket(c) \/ CreateCancellation(c) \/ CreditRefund(c)
           \/ SaveCancellation(c) \/ SaveCancellationFails(c) \/ Transition(c)
           \/ FetchTicket(c) \/ FetchFails(c)
    PROVE  Typed'
<1> USE DEF cancelVars, approvalVars, money, marks
<1> DEFINE k == Of(c)
<1>0. /\ ticket \in [Attempts -> [state : {"none", "blocked", "lapsed", "booked", "void", "unlisted"},
                                  gone : SUBSET Seats]]
      /\ row \in [Attempts -> [status : RowStatuses, total : Nat]]
      /\ refused \subseteq Attempts \cup {None} /\ torn \subseteq Attempts \cup {None}
      /\ pc \in [Calls -> Steps] /\ call \in [Calls -> Call] /\ call[c] \in Call
      /\ pc[c] \in Cancelling => k \in Attempts
      /\ call[c].held \in Nat /\ call[c].amount \in Nat /\ CallKnown(c)
      /\ call[c].seats \in SUBSET Seats /\ call[c].operator \in BOOLEAN
      /\ cancels \in [Attempts -> Seq(Cancellation)] /\ settled \in [Attempts -> Nat]
  BY DEF Typed, TypeOK, BusTypeOK, AttemptsKnown, StepKnown, CallKnown, Call, Of
<1>01. pc[c] \in Cancelling /\ k \in Attempts
  BY <1>0 DEF Cancelling, ReadSeats, CancelTicket, CreateCancellation, CreditRefund,
              SaveCancellation, SaveCancellationFails, Transition, FetchTicket, FetchFails
<1> HIDE DEF k
<1>1. CASE CancelTicket(c)
  <2>1. /\ ticket' \in [Attempts -> [state : {"none", "blocked", "lapsed", "booked", "void", "unlisted"},
                                     gone : SUBSET Seats]]
        /\ torn' \subseteq Attempts \cup {None}
    <3>1. CASE UNCHANGED <<ticket, torn>>
      BY <1>0, <3>1
    <3>2. CASE ticket' = [ticket EXCEPT ![k].gone = @ \cup call[c].seats] /\ torn' \in {torn, torn \cup {k}}
      <4>1. ticket[k].gone \cup call[c].seats \in SUBSET Seats
        BY <1>0, <1>01
      <4>2. torn' \subseteq Attempts \cup {None}
        BY <1>0, <1>01, <3>2
      <4>3. PICK seats \in SUBSET Seats : seats = ticket[k].gone \cup call[c].seats
        BY <4>1
      <4>4. PICK t \in [state : {"none", "blocked", "lapsed", "booked", "void", "unlisted"}, gone : SUBSET Seats] :
              t = ticket[k]
        BY <1>0, <1>01
      <4>5. PICK u : u = [t EXCEPT !.gone = seats]
        OBVIOUS
      <4>6. u \in [state : {"none", "blocked", "lapsed", "booked", "void", "unlisted"}, gone : SUBSET Seats]
        BY <4>5
      <4>7. ticket' = [ticket EXCEPT ![k] = u]
        BY <3>2, <4>3, <4>4, <4>5
      <4> QED
        BY <1>0, <4>2, <4>6, <4>7
    <3> QED
      BY <1>1, <3>1, <3>2 DEF CancelTicket, k
  <2>2. CASE Leave(c)
    BY <1>0, <1>1, <2>1, <2>2, LeaveTyped, LeaveKnown DEF CancelTicket, Typed, TypeOK, BusTypeOK
  <2>3. CASE Goto(c, "createRow") /\ (\E amount \in {0, FareOf(k, call[c].seats)} :
                                         call' = [call EXCEPT ![c].amount = amount])
    <3>1. PICK amount \in Nat : call' = [call EXCEPT ![c].amount = amount]
      BY <1>0, <1>01, <2>3, FareIsNat
    <3>2. [call[c] EXCEPT !.amount = amount] \in Call
      BY <1>0, CallCounted
    <3>3. call' \in [Calls -> Call] /\ pc' \in [Calls -> Steps]
      BY <1>0, <2>3, <3>1, <3>2 DEF Goto, Steps
    <3>4. CallKnown(c)'
      BY <1>0, <2>3, <3>1 DEF CallKnown, Goto, Call
    <3>5. \A d \in Calls \ {c} : pc'[d] = pc[d] /\ call'[d] = call[d]
      BY <1>0, <2>3, <3>1 DEF Goto
    <3> QED
      BY <1>1, <2>1, <3>3, <3>4, <3>5, OtherCallsKnown DEF CancelTicket, Typed, TypeOK, BusTypeOK
  <2> QED
    BY <1>1, <2>2, <2>3 DEF CancelTicket, k
<1>2. CASE CreateCancellation(c)
  <2> DEFINE r == [seats |-> call[c].seats, operator |-> call[c].operator,
                   amount |-> call[c].amount, status |-> "INITIATED"]
             next == [call[c] EXCEPT !.index = Len(cancels[k]) + 1]
  <2>1. r \in Cancellation /\ cancels[k] \in Seq(Cancellation) /\ Len(cancels[k]) \in Nat
    BY <1>0, <1>01, LenProperties DEF Cancellation
  <2>2. /\ next \in Call /\ next.index = Len(cancels[k]) + 1 /\ next.held = call[c].held
        /\ next.amount = call[c].amount /\ next.attempt = call[c].attempt
    <3>1. Len(cancels[k]) + 1 \in Nat
      BY <2>1
    <3>2. next \in Call
      BY <1>0, <3>1, CallCounted
    <3> QED
      BY <1>0, <3>2 DEF Call
  <2>3. cancels' = [cancels EXCEPT ![k] = Append(cancels[k], r)] /\ call' = Outdated(c, k, next)
        /\ Goto(c, "credit")
    BY <1>2 DEF CreateCancellation, k
  <2> HIDE DEF r, next
  <2>4. /\ Append(cancels[k], r) \in Seq(Cancellation)
        /\ DOMAIN Append(cancels[k], r) = 1 .. Len(cancels[k]) + 1
        /\ DOMAIN cancels[k] = 1 .. Len(cancels[k])
    BY <2>1, AppendProperties, LenProperties
  <2>5. cancels' \in [Attempts -> Seq(Cancellation)]
    BY <1>0, <2>3, <2>4
  <2>6. call' \in [Calls -> Call] /\ pc' \in [Calls -> Steps] /\ call'[c] = next
    BY <1>0, <1>01, <2>2, <2>3, OutdatedTyped DEF Goto, Steps
  <2>7. ASSUME NEW d \in Calls, d # c PROVE CallKnown(d)'
    <3>1. /\ call'[d].attempt = call[d].attempt /\ call'[d].held = call[d].held
          /\ call'[d].amount = call[d].amount /\ call'[d].index = call[d].index
          /\ call'[d].outcome = call[d].outcome /\ call'[d].decision = call[d].decision
          /\ pc'[d] = pc[d]
      BY <1>0, <1>01, <2>2, <2>3, <2>7, OutdatedTyped DEF Goto
    <3>2. Of(d)' = Of(d) /\ DOMAIN cancels[Of(d)] \subseteq DOMAIN cancels'[Of(d)]
      <4>1. Of(d) = k => DOMAIN cancels[Of(d)] \subseteq DOMAIN cancels'[Of(d)]
        BY <1>0, <1>01, <2>1, <2>3, <2>4
      <4>2. Of(d) # k => cancels'[Of(d)] = cancels[Of(d)]
        BY <1>0, <2>3
      <4> QED
        BY <3>1, <4>1, <4>2 DEF Of
    <3>3. CallKnown(d)
      BY DEF Typed
    <3> QED
      BY <3>1, <3>2, <3>3 DEF CallKnown
  <2>8. CallKnown(c)'
    <3>1. Of(c)' = k /\ cancels'[k] = Append(cancels[k], r) /\ pc'[c] = "credit"
      BY <1>0, <1>01, <2>2, <2>3, <2>6 DEF Of, Goto, k
    <3>2. call'[c].index \in DOMAIN cancels'[Of(c)']
      BY <2>1, <2>2, <2>4, <2>6, <3>1
    <3> QED
      BY <1>0, <2>2, <2>6, <3>1, <3>2 DEF CallKnown
  <2> QED
    BY <1>2, <2>5, <2>6, <2>7, <2>8 DEF CreateCancellation, Typed, TypeOK, BusTypeOK
<1>3. CASE CreditRefund(c)
  <2>1. PICK o \in {"COMPLETED", "FAILED"} : call' = [call EXCEPT ![c].outcome = o]
    BY <1>3 DEF CreditRefund
  <2>2. settled' \in [Attempts -> Nat] /\ refused' \subseteq Attempts \cup {None}
    <3>1. call[c].amount \in Nat /\ settled[k] \in Nat
      BY <1>0, <1>01
    <3>2. settled' = settled \/ settled' = [settled EXCEPT ![k] = settled[k] + call[c].amount]
      BY <1>3 DEF CreditRefund, k
    <3>3. settled' \in [Attempts -> Nat]
      <4>1. PICK sum \in Nat : sum = settled[k] + call[c].amount
        BY <3>1
      <4> QED
        BY <1>0, <3>2, <4>1
    <3>4. refused' \in {refused, refused \cup {k}}
      BY <1>3 DEF CreditRefund, k
    <3> QED
      BY <1>0, <1>01, <3>3, <3>4
  <2>3. [call[c] EXCEPT !.outcome = o] \in Call
    BY <1>0 DEF Call
  <2>4. call' \in [Calls -> Call] /\ pc' \in [Calls -> Steps]
    BY <1>0, <1>3, <2>1, <2>3 DEF CreditRefund, Goto, Steps
  <2>5. CallKnown(c)'
    BY <1>0, <1>3, <2>1 DEF CreditRefund, CallKnown, Goto, Call, Of
  <2>6. \A d \in Calls \ {c} : pc'[d] = pc[d] /\ call'[d] = call[d]
    BY <1>0, <1>3, <2>1 DEF CreditRefund, Goto
  <2> QED
    BY <1>3, <2>2, <2>4, <2>5, <2>6, OtherCallsKnown DEF CreditRefund, Typed, TypeOK, BusTypeOK
<1>4. CASE SaveCancellation(c)
  <2> DEFINE i == call[c].index
             s == cancels[k]
             r == [s[i] EXCEPT !.status = call[c].outcome]
  <2>1. s \in Seq(Cancellation) /\ i \in 1 .. Len(s) /\ s[i] \in Cancellation
    BY <1>0, <1>01, <1>4, LenProperties, ElementOfSeq DEF SaveCancellation, CallKnown, k
  <2>2. r \in Cancellation
    BY <1>0, <1>4, <2>1 DEF SaveCancellation, CallKnown, Cancellation, Call
  <2>3. cancels' = [cancels EXCEPT ![k] = [s EXCEPT ![i] = r]]
    BY <1>4 DEF SaveCancellation, k
  <2> HIDE DEF r
  <2>4. [s EXCEPT ![i] = r] \in Seq(Cancellation) /\ DOMAIN [s EXCEPT ![i] = r] = DOMAIN s
    BY <2>1, <2>2, ExceptSeq
  <2>5. cancels' \in [Attempts -> Seq(Cancellation)]
        /\ \A l \in Attempts : DOMAIN cancels'[l] = DOMAIN cancels[l]
    BY <1>0, <1>01, <2>3, <2>4
  <2>6. ASSUME NEW d \in Calls PROVE CallKnown(d)'
    <3>1. CallKnown(d) /\ (pc[d] \in {"credit", "saveRow"} => Of(d) \in Attempts) /\ call' = call
      BY <1>4 DEF Typed, AttemptsKnown, StepKnown, Cancelling, SaveCancellation
    <3> QED
      BY <1>0, <1>4, <2>5, <3>1 DEF SaveCancellation, CallKnown, Goto, Of
  <2> QED
    BY <1>0, <1>4, <2>5, <2>6 DEF SaveCancellation, Goto, Steps, Typed, TypeOK, BusTypeOK
<1>5. CASE Transition(c)
  <2>1. row' \in [Attempts -> [status : RowStatuses, total : Nat]] /\ torn' \subseteq Attempts \cup {None}
    <3>1. PICK status \in RowStatuses : status = NewStatus(c)
      BY DEF NewStatus, RowStatuses
    <3>2. row' \in {row, [row EXCEPT ![k].status = status]} /\ torn' \in {torn, torn \cup {k}}
      BY <1>5, <3>1 DEF Transition, k
    <3> QED
      BY <1>0, <1>01, <3>2
  <2>2. call' \in [Calls -> Call] /\ call'[c] = NoCall
    BY <1>01, <1>5, NoCallTyped, OutdatedTyped DEF Transition, k
  <2>3. pc' \in [Calls -> Steps]
    BY <1>0, <1>5 DEF Transition, Goto, Steps
  <2>4. ASSUME NEW d \in Calls, d # c PROVE CallKnown(d)'
    <3>1. /\ call'[d].attempt = call[d].attempt /\ call'[d].held = call[d].held
          /\ call'[d].amount = call[d].amount /\ call'[d].index = call[d].index
          /\ call'[d].outcome = call[d].outcome /\ call'[d].decision = call[d].decision
          /\ pc'[d] = pc[d] /\ cancels' = cancels
      BY <1>0, <1>01, <1>5, <2>4, NoCallTyped, OutdatedTyped DEF Transition, Goto, k
    <3> QED
      BY <3>1 DEF Typed, CallKnown, Of
  <2>5. CallKnown(c)'
    BY <1>0, <1>5, <2>2, NoCallTyped DEF CallKnown, Transition, Goto
  <2> QED
    BY <1>5, <2>1, <2>2, <2>3, <2>4, <2>5 DEF Transition, Typed, TypeOK, BusTypeOK
<1>6. CASE FetchTicket(c)
  <2>1. PICK amount \in {FareOf(k, Seats \ ticket[k].gone), row[k].total} :
            call' = [call EXCEPT ![c].amount = amount]
    BY <1>6 DEF FetchTicket, k
  <2>2. amount \in Nat
    BY <1>0, <1>01, FareIsNat
  <2>3. [call[c] EXCEPT !.amount = amount] \in Call
    BY <1>0, <2>2, CallCounted
  <2>4. call' \in [Calls -> Call] /\ pc' \in [Calls -> Steps]
    BY <1>0, <1>6, <2>1, <2>3 DEF FetchTicket, Goto, Steps
  <2>5. CallKnown(c)'
    BY <1>0, <1>6, <2>1, <2>2 DEF CallKnown, FetchTicket, Goto, Call
  <2>6. \A d \in Calls \ {c} : pc'[d] = pc[d] /\ call'[d] = call[d]
    BY <1>0, <1>6, <2>1 DEF FetchTicket, Goto
  <2> QED
    BY <1>6, <2>4, <2>5, <2>6, OtherCallsKnown DEF FetchTicket, Typed, TypeOK, BusTypeOK
<1>7. CASE FetchFails(c)
  BY <1>7, LeaveTyped, LeaveKnown DEF FetchFails, Typed, TypeOK, BusTypeOK
<1>8. CASE ReadSeats(c)
  <2>1. CASE Leave(c)
    BY <1>8, <2>1, LeaveTyped, LeaveKnown DEF ReadSeats, Typed, TypeOK, BusTypeOK
  <2>2. ASSUME NEW seats \in SUBSET Seats, Goto(c, "cancelTicket"),
               call' = [call EXCEPT ![c] = [@ EXCEPT !.seats = seats, !.covered = Covered(k)]]
        PROVE  Typed'
    <3>1. PICK covered \in SUBSET Seats : covered = Covered(k)
      BY <1>01, CoveredTyped
    <3>2. PICK memory : memory = [call[c] EXCEPT !.seats = seats, !.covered = covered]
      OBVIOUS
    <3>3. memory \in Call /\ memory.held = call[c].held /\ memory.amount = call[c].amount
      BY <1>0, <3>1, <3>2 DEF Call
    <3>4. call' = [call EXCEPT ![c] = memory]
      BY <1>0, <2>2, <3>1, <3>2
    <3>5. call' \in [Calls -> Call] /\ pc' \in [Calls -> Steps]
      BY <1>0, <2>2, <3>3, <3>4 DEF Goto, Steps
    <3>6. CallKnown(c)'
      BY <1>0, <2>2, <3>3, <3>4 DEF CallKnown, Goto
    <3>7. \A d \in Calls \ {c} : pc'[d] = pc[d] /\ call'[d] = call[d]
      BY <1>0, <2>2, <3>4 DEF Goto
    <3> QED
      BY <1>8, <3>5, <3>6, <3>7, OtherCallsKnown DEF ReadSeats, Typed, TypeOK, BusTypeOK
  <2> QED
    BY <1>8, <2>1, <2>2 DEF ReadSeats, k
<1>9. CASE SaveCancellationFails(c)
  <2>1. refused' \subseteq Attempts \cup {None} /\ torn' \subseteq Attempts \cup {None}
    BY <1>0, <1>01, <1>9 DEF SaveCancellationFails, k
  <2>2. CASE Leave(c)
    BY <1>9, <2>1, <2>2, LeaveTyped, LeaveKnown DEF SaveCancellationFails, Typed, TypeOK, BusTypeOK
  <2>3. CASE call' = [call EXCEPT ![c].outcome = "MISFILED"] /\ UNCHANGED pc
    <3>1. [call[c] EXCEPT !.outcome = "MISFILED"] \in Call
      BY <1>0 DEF Call
    <3>2. call' \in [Calls -> Call] /\ \A d \in Calls \ {c} : call'[d] = call[d]
      BY <1>0, <2>3, <3>1
    <3>3. CallKnown(c)'
      BY <1>0, <1>9, <2>3 DEF SaveCancellationFails, CallKnown, Call, Of
    <3> QED
      BY <1>9, <2>1, <2>3, <3>2, <3>3, OtherCallsKnown
      DEF SaveCancellationFails, Typed, TypeOK, BusTypeOK
  <2> QED
    BY <1>9, <2>2, <2>3 DEF SaveCancellationFails
<1> QED
  BY <1>1, <1>2, <1>3, <1>4, <1>5, <1>6, <1>7, <1>8, <1>9

LEMMA TypedCancelStart ==
    ASSUME Typed, NEW c \in Calls, NEW k \in Attempts, ReadForCancel(c, k) \/ PollOperator(c, k)
    PROVE  Typed'
<1> USE DEF cancelVars, approvalVars, money, marks
<1>0. /\ pc \in [Calls -> Steps] /\ call \in [Calls -> Call] /\ row[k].status \in RowStatuses
      /\ cancels \in [Attempts -> Seq(Cancellation)]
  BY DEF Typed, TypeOK, BusTypeOK
<1>1. PICK memory \in Call : /\ call' = [call EXCEPT ![c] = memory]
                             /\ memory.held \in Nat /\ memory.amount \in Nat
  <2>1. CASE ReadForCancel(c, k)
    <3> DEFINE memory == [NoCall EXCEPT !.attempt = k, !.read = row[k].status]
    <3>1. memory \in Call /\ memory.held = NoCall.held /\ memory.amount = NoCall.amount
      BY <1>0, NoCallTyped DEF Call
    <3> QED
      BY <2>1, <3>1, NoCallTyped DEF ReadForCancel
  <2>2. CASE PollOperator(c, k)
    <3> DEFINE memory == [NoCall EXCEPT !.attempt = k, !.operator = TRUE, !.seats = Seats,
                                        !.read = row[k].status]
    <3>1. memory \in Call /\ memory.held = NoCall.held /\ memory.amount = NoCall.amount
      BY <1>0, NoCallTyped, Zenon DEF Call
    <3> QED
      BY <2>2, <3>1, NoCallTyped DEF PollOperator
  <2> QED
    BY <2>1, <2>2
<1>2. \E step \in {"seats", "fetch"} : Goto(c, step)
  BY DEF ReadForCancel, PollOperator
<1>3. call' \in [Calls -> Call] /\ pc' \in [Calls -> Steps]
  BY <1>0, <1>1, <1>2 DEF Goto, Steps
<1>4. CallKnown(c)'
  BY <1>0, <1>1, <1>2 DEF CallKnown, Goto
<1>5. \A d \in Calls \ {c} : pc'[d] = pc[d] /\ call'[d] = call[d]
  BY <1>0, <1>1, <1>2 DEF Goto
<1> QED
  BY <1>3, <1>4, <1>5, OtherCallsKnown DEF ReadForCancel, PollOperator, Typed, TypeOK, BusTypeOK

LEMMA TypedStep ==
    ASSUME Typed, AttemptsKnown, [Next]_vars
    PROVE  Typed'
<1>1. CASE UNCHANGED vars
  BY <1>1 DEF vars, busVars, approvalVars, money, marks, cancelVars, Typed, TypeOK, BusTypeOK,
              CallKnown, Of
<1>2. ASSUME NEW c \in Calls, Proceed(c) PROVE Typed'
  BY <1>2, TypedBooking, TypedCancelling DEF Proceed
<1>3. ASSUME NEW k \in Attempts, OperatorCancels(k) \/ WindowPasses(k) PROVE Typed'
  <2>1. ticket' \in [Attempts -> [state : {"none", "blocked", "lapsed", "booked", "void", "unlisted"},
                                  gone : SUBSET Seats]]
    <3>1. PICK state \in {"void", "unlisted"} : ticket' = [ticket EXCEPT ![k].state = state]
      BY <1>3 DEF OperatorCancels, WindowPasses
    <3> QED
      BY <3>1 DEF Typed, TypeOK, BusTypeOK
  <2> QED
    BY <1>3, <2>1 DEF OperatorCancels, WindowPasses, approvalVars, money, marks, cancelVars, Typed, TypeOK,
                      BusTypeOK, CallKnown, Of
<1> QED
  BY <1>1, <1>2, <1>3, TypedCrash, TypedStarting, TypedCancelStart, TypedEnvironment DEF Next

-----------------------------------------------------------------------------
(* Attempts *)

\* What the parts of the invariant read of other calls.
Others(c) ==
    \A d \in Calls \ {c} :
        /\ pc'[d] = pc[d] /\ call'[d].attempt = call[d].attempt
        /\ call'[d].locked = call[d].locked

\* Most steps change nothing of the rows and tickets.
LEMMA AttemptsKept ==
    ASSUME Typed, AttemptsKnown, NEW c \in Calls, Others(c),
           UNCHANGED <<row, ticket>>, unverified \subseteq unverified',
           StepKnown(c)', AttemptKnown(c)',
           pc'[c] \in Attempting => pc[c] \in Attempting /\ Of(c)' = Of(c)
    PROVE  AttemptsKnown'
<1>1. ASSUME NEW d \in Calls, d # c PROVE StepKnown(d)' /\ AttemptKnown(d)'
  <2>1. pc'[d] = pc[d] /\ Of(d)' = Of(d) /\ call'[d].locked = call[d].locked
    BY <1>1 DEF Others, Of
  <2>2. StepKnown(d) /\ AttemptKnown(d)
    BY DEF AttemptsKnown
  <2> QED
    BY <2>1, <2>2 DEF StepKnown, AttemptKnown
<1>2. AttemptsOwned'
  BY DEF AttemptsKnown, AttemptsOwned, Others, Of
<1>3. \A k \in Attempts : RowKnown(k)'
  BY DEF AttemptsKnown, RowKnown
<1> QED
  BY <1>1, <1>2, <1>3 DEF AttemptsKnown

LEMMA LeaveOthers ==
    ASSUME Typed, AttemptsKnown, NEW c \in Calls, Leave(c)
    PROVE  Others(c) /\ StepKnown(c)' /\ AttemptKnown(c)' /\ pc'[c] \notin Attempting
<1>1. StepKnown(c) /\ (call[c].locked \in BOOLEAN)
  BY DEF AttemptsKnown, Typed, TypeOK, BusTypeOK, Call
<1>2. Of(c)' = None
  BY LeaveTyped DEF Of
<1> QED
  BY <1>1, <1>2, LeaveTyped
  DEF Others, StepKnown, AttemptKnown, Unattached, Attempting, Cancelling, Locked, Approved

LEMMA LeaveKeeps ==
    ASSUME Typed, AttemptsKnown, NEW c \in Calls, Leave(c),
           UNCHANGED <<row, ticket>>, unverified \subseteq unverified'
    PROVE  AttemptsKnown'
  BY LeaveOthers, AttemptsKept

\* The call is where it was, with what it had.
LEMMA GotoOthers ==
    ASSUME Typed, NEW c \in Calls, NEW step \in Steps, Goto(c, step),
           \A d \in Calls : call'[d].attempt = call[d].attempt /\ call'[d].locked = call[d].locked
    PROVE  /\ Others(c) /\ pc'[c] = step /\ call'[c].locked = call[c].locked
           /\ \A d \in Calls : Of(d)' = Of(d)
  BY DEF Goto, Others, Of, Typed, TypeOK, BusTypeOK

\* A call that starts or ends holds no attempt, or a booked one.
LEMMA FreshOthers ==
    ASSUME Typed, NEW c \in Calls, NEW step \in Steps, Goto(c, step), NEW memory,
           call' = [call EXCEPT ![c] = memory]
    PROVE  Others(c) /\ pc'[c] = step /\ Of(c)' = memory.attempt /\ call'[c].locked = memory.locked
  BY DEF Goto, Others, Of, Typed, TypeOK, BusTypeOK

LEMMA EndKeeps ==
    ASSUME Typed, AttemptsKnown, NEW c \in Calls, Goto(c, "idle"),
           call' = [call EXCEPT ![c] = NoCall], UNCHANGED <<row, ticket, unverified>>
    PROVE  AttemptsKnown'
<1>1. /\ Others(c) /\ pc'[c] = "idle" /\ Of(c)' = None /\ call'[c].locked = FALSE
  <2>1. "idle" \in Steps
    BY DEF Steps
  <2> QED
    BY <2>1, FreshOthers, NoCallTyped
<1>2. StepKnown(c)' /\ AttemptKnown(c)'
  BY <1>1 DEF StepKnown, AttemptKnown, Unattached, Attempting, Cancelling, Locked, Approved
<1> QED
  BY <1>1, <1>2, AttemptsKept DEF Attempting

LEMMA AttemptsBooking ==
    ASSUME Typed, AttemptsKnown, NEW c \in Calls, BusProceed(c)
    PROVE  AttemptsKnown'
<1> USE DEF approvalVars, money, marks
<1>0. /\ ticket \in [Attempts -> [state : {"none", "blocked", "lapsed", "booked", "void", "unlisted"},
                                  gone : SUBSET Seats]]
      /\ row \in [Attempts -> [status : RowStatuses, total : Nat]]
      /\ unverified \subseteq Attempts
      /\ pc \in [Calls -> Steps] /\ call \in [Calls -> Call] /\ call[c] \in Call
      /\ StepKnown(c) /\ AttemptKnown(c) /\ Of(c) \in Attempts \cup {None}
      /\ \A d \in Calls : StepKnown(d) /\ AttemptKnown(d) /\ Of(d) \in Attempts \cup {None}
      /\ \A k \in Attempts : RowKnown(k)
      /\ AttemptsOwned
      /\ None \notin Attempts
  BY BusAssumption DEF Typed, TypeOK, BusTypeOK, AttemptsKnown, Call, Of
<1>1. CASE Decide(c)
  BY <1>1, LeaveKeeps DEF Decide
<1>2. CASE Load(c)
  <2>1. CASE Goto(c, "trip") /\ UNCHANGED call
    BY <1>0, <1>2, <2>1, GotoOthers, AttemptsKept
    DEF Load, Steps, StepKnown, AttemptKnown, Unattached, Attempting, Cancelling, Locked, Approved
  <2> QED
    BY <1>2, <2>1, LeaveKeeps DEF Load
<1>3. CASE CheckTrip(c)
  <2>1. CASE Goto(c, "debit") /\ UNCHANGED call
    BY <1>0, <1>3, <2>1, GotoOthers, AttemptsKept
    DEF CheckTrip, Steps, StepKnown, AttemptKnown, Unattached, Attempting, Cancelling, Locked, Approved
  <2> QED
    BY <1>3, <2>1, LeaveKeeps DEF CheckTrip
<1>4. CASE Debit(c)
  <2>1. CASE call' = [call EXCEPT ![c].held = Total] /\ Goto(c, "block")
    <3>1. \A d \in Calls : call'[d].attempt = call[d].attempt /\ call'[d].locked = call[d].locked
      BY <1>0, <2>1 DEF Call
    <3> QED
      BY <1>0, <1>4, <2>1, <3>1, GotoOthers, AttemptsKept
      DEF Debit, Steps, StepKnown, AttemptKnown, Unattached, Attempting, Cancelling, Locked, Approved
  <2> QED
    BY <1>4, <2>1, LeaveKeeps DEF Debit
<1>5. CASE Block(c)
  <2>1. ASSUME NEW k \in Attempts, NEW step \in {"fare", "create"}, Goto(c, step),
               ticket[k].state = "none", ticket' = [ticket EXCEPT ![k].state = "blocked"],
               call' = [call EXCEPT ![c].attempt = k]
        PROVE  AttemptsKnown'
    <3>1. /\ row[k].status = "none" /\ row' = row /\ unverified' = unverified
          /\ \A d \in Calls : Of(d) # k
          /\ ticket'[k].state = "blocked"
          /\ \A l \in Attempts \ {k} : ticket'[l].state = ticket[l].state
      BY <1>0, <1>5, <2>1 DEF Block, RowKnown, AttemptKnown
    <3>2. /\ Of(c)' = k /\ call'[c].locked = call[c].locked /\ pc'[c] = step
          /\ \A d \in Calls \ {c} : Of(d)' = Of(d) /\ call'[d].locked = call[d].locked /\ pc'[d] = pc[d]
      BY <1>0, <2>1 DEF Of, Call, Goto
    <3>3. StepKnown(c)' /\ AttemptKnown(c)'
      BY <1>0, <1>5, <2>1, <3>1, <3>2
      DEF Block, StepKnown, AttemptKnown, Unattached, Attempting, Cancelling, Locked, Approved
    <3>4. ASSUME NEW d \in Calls, d # c PROVE StepKnown(d)' /\ AttemptKnown(d)'
      <4>1. StepKnown(d)'
        BY <1>0, <3>2, <3>4 DEF StepKnown
      <4>2. AttemptKnown(d)'
        BY <1>0, <3>1, <3>2, <3>4 DEF StepKnown, AttemptKnown, Attempting, Cancelling
      <4> QED
        BY <4>1, <4>2
    <3>5. AttemptsOwned'
      BY <1>0, <3>1, <3>2 DEF AttemptsOwned
    <3>6. \A l \in Attempts : RowKnown(l)'
      BY <1>0, <3>1 DEF RowKnown
    <3> QED
      BY <3>3, <3>4, <3>5, <3>6 DEF AttemptsKnown
  <2>2. CASE Goto(c, "refund") /\ UNCHANGED <<ticket, call>>
    BY <1>0, <1>5, <2>2, GotoOthers, AttemptsKept
    DEF Block, Steps, StepKnown, AttemptKnown, Unattached, Attempting, Cancelling, Locked, Approved
  <2> QED
    BY <1>5, <2>1, <2>2 DEF Block
<1>6. CASE TakeFare(c)
  <2>1. CASE (\E price \in Prices : call' = [call EXCEPT ![c].held = price]) /\ Goto(c, "create")
    <3>1. \A d \in Calls : call'[d].attempt = call[d].attempt /\ call'[d].locked = call[d].locked
      BY <1>0, <2>1 DEF Call
    <3>2. /\ Others(c) /\ pc'[c] = "create" /\ call'[c].locked = call[c].locked
          /\ Of(c)' = Of(c)
      BY <2>1, <3>1, GotoOthers DEF Steps
    <3>3. /\ pc[c] = "fare" /\ UNCHANGED <<row, ticket, unverified>>
          /\ StepKnown(c) /\ AttemptKnown(c)
      BY <1>0, <1>6 DEF TakeFare
    <3>4. StepKnown(c)' /\ AttemptKnown(c)'
      BY <3>2, <3>3
      DEF StepKnown, AttemptKnown, Unattached, Attempting, Cancelling, Locked, Approved
    <3> QED
      BY <3>2, <3>3, <3>4, AttemptsKept DEF Attempting
  <2>2. CASE Goto(c, "refund") /\ UNCHANGED call
    BY <1>0, <1>6, <2>2, GotoOthers, AttemptsKept
    DEF TakeFare, Steps, StepKnown, AttemptKnown, Unattached, Attempting, Cancelling, Locked, Approved
  <2> QED
    BY <1>6, <2>1, <2>2 DEF TakeFare
<1>7. CASE Refund(c)
  BY <1>7, LeaveKeeps DEF Refund
<1>8. CASE CreateRow(c)
  <2>1. CASE Leave(c) /\ UNCHANGED row
    BY <1>8, <2>1, LeaveKeeps DEF CreateRow
  <2>2. CASE /\ row' = [row EXCEPT ![Of(c)] = [status |-> "BLOCKED", total |-> call[c].held]]
             /\ Goto(c, "book") /\ UNCHANGED call
    <3> DEFINE k == Of(c)
    <3>1. /\ k \in Attempts /\ row[k].status = "none" /\ ticket[k].state \in {"blocked", "lapsed"}
          /\ pc[c] = "create"
      BY <1>0, <1>8 DEF CreateRow, StepKnown, AttemptKnown, Attempting
    <3>2. /\ row'[k].status = "BLOCKED" /\ ticket' = ticket /\ unverified' = unverified
          /\ \A l \in Attempts \ {k} : row'[l] = row[l]
      BY <1>0, <1>8, <2>2, <3>1 DEF CreateRow
    <3>3. Others(c) /\ pc'[c] = "book" /\ call'[c].locked = call[c].locked /\ \A d \in Calls : Of(d)' = Of(d)
      BY <2>2, GotoOthers DEF Steps
    <3>4. StepKnown(c)' /\ AttemptKnown(c)'
      BY <1>0, <3>1, <3>2, <3>3
      DEF StepKnown, AttemptKnown, Unattached, Attempting, Cancelling, Locked, Approved
    <3>5. ASSUME NEW d \in Calls, d # c PROVE StepKnown(d)' /\ AttemptKnown(d)'
      <4>1. pc'[d] = pc[d] /\ Of(d)' = Of(d) /\ call'[d].locked = call[d].locked
        BY <3>3, <3>5 DEF Others
      <4>2. Of(d) = k => pc[d] \notin Attempting \cup Cancelling \cup {"mark"}
        BY <1>0, <3>1, <3>5 DEF AttemptsOwned, AttemptKnown, Attempting, Kept
      <4>3. StepKnown(d)'
        BY <1>0, <4>1 DEF StepKnown
      <4>4. AttemptKnown(d)'
        BY <1>0, <3>1, <3>2, <4>1, <4>2 DEF AttemptKnown, Attempting, StepKnown
      <4> QED
        BY <4>3, <4>4
    <3>6. AttemptsOwned'
      BY <1>0, <3>1, <3>3 DEF AttemptsOwned, Others, Attempting
    <3>7. \A l \in Attempts : RowKnown(l)'
      BY <1>0, <3>1, <3>2 DEF RowKnown
    <3> QED
      BY <3>4, <3>5, <3>6, <3>7 DEF AttemptsKnown
  <2> QED
    BY <1>8, <2>1, <2>2 DEF CreateRow
<1>9. CASE Book(c)
  <2> DEFINE k == Of(c)
  <2>1. /\ k \in Attempts /\ row[k].status = "BLOCKED" /\ ticket[k].state \in {"blocked", "lapsed"}
        /\ pc[c] = "book" /\ row' = row /\ call' = call
    BY <1>0, <1>9 DEF Book, StepKnown, AttemptKnown, Attempting
  <2>2. /\ ticket'[k].state # "none" /\ unverified \subseteq unverified'
        /\ \A l \in Attempts \ {k} : ticket'[l] = ticket[l] /\ (l \in unverified' => l \in unverified)
    BY <1>0, <1>9, <2>1 DEF Book
  <2>3. PICK step \in {"save", "check", "fail"} :
            Goto(c, step) /\ (step = "fail" => k \in unverified' \/ ticket'[k].state \in {"blocked", "lapsed"})
    BY <1>9, <2>1 DEF Book
  <2>4. Others(c) /\ pc'[c] = step /\ call'[c].locked = call[c].locked /\ \A d \in Calls : Of(d)' = Of(d)
    <3>1. step \in Steps
      BY DEF Steps
    <3> QED
      BY <2>1, <2>3, <3>1, GotoOthers
  <2>5. StepKnown(c)' /\ AttemptKnown(c)'
    BY <1>0, <2>1, <2>2, <2>3, <2>4
    DEF StepKnown, AttemptKnown, Unattached, Attempting, Cancelling, Locked, Approved
  <2>6. ASSUME NEW d \in Calls, d # c PROVE StepKnown(d)' /\ AttemptKnown(d)'
    <3>1. pc'[d] = pc[d] /\ Of(d)' = Of(d) /\ call'[d].locked = call[d].locked
      BY <2>4, <2>6 DEF Others
    <3>2. Of(d) = k => pc[d] \notin Attempting
      BY <1>0, <2>1, <2>6 DEF AttemptsOwned, Attempting
    <3>3. StepKnown(d)'
      BY <1>0, <3>1 DEF StepKnown
    <3>4. AttemptKnown(d)'
      BY <1>0, <2>1, <2>2, <3>1, <3>2 DEF AttemptKnown, Attempting, Cancelling, StepKnown
    <3> QED
      BY <3>3, <3>4
  <2>7. AttemptsOwned'
    BY <1>0, <2>1, <2>4 DEF AttemptsOwned, Others, Attempting
  <2>8. \A l \in Attempts : RowKnown(l)'
    BY <1>0, <2>1, <2>2 DEF RowKnown
  <2> QED
    BY <2>5, <2>6, <2>7, <2>8 DEF AttemptsKnown
<1>10. CASE Check(c)
  <2>1. /\ Of(c) \in Attempts /\ row[Of(c)].status = "BLOCKED" /\ pc[c] = "check"
        /\ ticket[Of(c)].state \in {"blocked", "lapsed", "booked", "void", "unlisted"}
    BY <1>0, <1>10 DEF Check, StepKnown, AttemptKnown, Attempting
  <2>2. PICK step \in {"save", "fail"} :
            /\ Goto(c, step)
            /\ step = "fail" => Of(c) \in unverified' \/ ticket[Of(c)].state \in {"blocked", "lapsed"}
    BY <1>10, <2>1 DEF Check, Found, Issued
  <2>3. Others(c) /\ pc'[c] = step /\ call'[c].locked = call[c].locked /\ \A d \in Calls : Of(d)' = Of(d)
    <3>1. step \in Steps
      BY DEF Steps
    <3> QED
      BY <1>10, <2>2, <3>1, GotoOthers DEF Check
  <2>4. UNCHANGED <<row, ticket>> /\ unverified \subseteq unverified'
    BY <1>10 DEF Check
  <2>5. StepKnown(c)' /\ AttemptKnown(c)'
    BY <1>0, <2>1, <2>2, <2>3, <2>4
    DEF StepKnown, AttemptKnown, Unattached, Attempting, Cancelling, Locked, Approved
  <2> QED
    BY <2>1, <2>3, <2>4, <2>5, AttemptsKept DEF Attempting
<1>11. CASE MarkFailed(c)
  <2> DEFINE k == Of(c)
  <2>1. /\ k \in Attempts /\ row[k].status = "BLOCKED" /\ pc[c] = "fail"
        /\ k \in unverified \/ ticket[k].state \in {"blocked", "lapsed"}
    BY <1>0, <1>11 DEF MarkFailed, StepKnown, AttemptKnown, Attempting
  <2>2. /\ row'[k].status = "FAILED" /\ ticket' = ticket /\ unverified' = unverified
        /\ \A l \in Attempts \ {k} : row'[l] = row[l]
    BY <1>0, <1>11, <2>1 DEF MarkFailed
  <2>3. Others(c) /\ pc'[c] = "refund" /\ call'[c].locked = call[c].locked /\ \A d \in Calls : Of(d)' = Of(d)
    BY <1>11, GotoOthers DEF MarkFailed, Steps
  <2>4. StepKnown(c)' /\ AttemptKnown(c)'
    BY <1>0, <2>1, <2>2, <2>3
    DEF StepKnown, AttemptKnown, Unattached, Attempting, Cancelling, Locked, Approved
  <2>5. ASSUME NEW d \in Calls, d # c PROVE StepKnown(d)' /\ AttemptKnown(d)'
    <3>1. pc'[d] = pc[d] /\ Of(d)' = Of(d) /\ call'[d].locked = call[d].locked
      BY <2>3, <2>5 DEF Others
    <3>2. Of(d) = k => pc[d] \notin Attempting \cup Cancelling \cup {"mark"}
      BY <1>0, <2>1, <2>5 DEF AttemptsOwned, AttemptKnown, Attempting, Kept
    <3>3. StepKnown(d)'
      BY <1>0, <3>1 DEF StepKnown
    <3>4. AttemptKnown(d)'
      BY <1>0, <2>1, <2>2, <3>1, <3>2 DEF AttemptKnown, Attempting, StepKnown
    <3> QED
      BY <3>3, <3>4
  <2>6. AttemptsOwned'
    BY <1>0, <2>3 DEF AttemptsOwned, Others, Attempting
  <2>7. \A l \in Attempts : RowKnown(l)'
    <3>1. ticket[k].state # "none"
      BY <1>0, <2>1 DEF RowKnown
    <3> QED
      BY <1>0, <2>1, <2>2, <3>1 DEF RowKnown
  <2> QED
    BY <2>4, <2>5, <2>6, <2>7 DEF AttemptsKnown
<1>12. CASE SaveBooked(c)
  <2> DEFINE k == Of(c)
  <2>1. k \in Attempts /\ row[k].status = "BLOCKED" /\ pc[c] = "save"
    BY <1>0, <1>12 DEF SaveBooked, StepKnown, AttemptKnown, Attempting
  <2>2. /\ row'[k].status = "BOOKED" /\ ticket' = ticket /\ unverified' = unverified
        /\ \A l \in Attempts \ {k} : row'[l] = row[l]
    BY <1>0, <1>12, <2>1 DEF SaveBooked
  <2>3. \A d \in Calls : call'[d].attempt = call[d].attempt /\ call'[d].locked = call[d].locked
    BY <1>0, <1>12 DEF SaveBooked, Outdated, Call
  <2>4. Others(c) /\ pc'[c] = "mark" /\ call'[c].locked = call[c].locked /\ \A d \in Calls : Of(d)' = Of(d)
    BY <1>12, <2>3, GotoOthers DEF SaveBooked, Steps
  <2>5. StepKnown(c)' /\ AttemptKnown(c)'
    BY <1>0, <2>1, <2>2, <2>4
    DEF StepKnown, AttemptKnown, Unattached, Attempting, Cancelling, Locked, Approved, Kept, RowStatuses
  <2>6. ASSUME NEW d \in Calls, d # c PROVE StepKnown(d)' /\ AttemptKnown(d)'
    <3>1. pc'[d] = pc[d] /\ Of(d)' = Of(d) /\ call'[d].locked = call[d].locked
      BY <2>4, <2>6 DEF Others
    <3>2. Of(d) = k => pc[d] \notin Attempting \cup Cancelling \cup {"mark"}
      BY <1>0, <2>1, <2>6 DEF AttemptsOwned, AttemptKnown, Attempting, Kept
    <3>3. StepKnown(d)'
      BY <1>0, <3>1 DEF StepKnown
    <3>4. AttemptKnown(d)'
      BY <1>0, <2>1, <2>2, <3>1, <3>2 DEF AttemptKnown, Attempting, StepKnown
    <3> QED
      BY <3>3, <3>4
  <2>7. AttemptsOwned'
    BY <1>0, <2>4 DEF AttemptsOwned, Others, Attempting
  <2>8. \A l \in Attempts : RowKnown(l)'
    <3>1. ticket[k].state # "none"
      BY <1>0, <2>1 DEF RowKnown
    <3> QED
      BY <1>0, <2>1, <2>2, <3>1 DEF RowKnown
  <2> QED
    BY <2>5, <2>6, <2>7, <2>8 DEF AttemptsKnown
<1>13. CASE MarkApproval(c)
  BY <1>13, LeaveKeeps DEF MarkApproval
<1>14. CASE CheckLock(c)
  <2>1. CASE Goto(c, "delete") /\ UNCHANGED call
    BY <1>0, <1>14, <2>1, GotoOthers, AttemptsKept
    DEF CheckLock, Steps, StepKnown, AttemptKnown, Unattached, Attempting, Cancelling, Locked, Approved
  <2>2. CASE Goto(c, "idle") /\ call' = [call EXCEPT ![c] = NoCall]
    BY <1>14, <2>2, EndKeeps DEF CheckLock
  <2> QED
    BY <1>14, <2>1, <2>2 DEF CheckLock
<1>15. CASE DeleteLock(c)
  BY <1>15, EndKeeps DEF DeleteLock
<1> QED
  BY <1>1, <1>2, <1>3, <1>4, <1>5, <1>6, <1>7, <1>8, <1>9, <1>10, <1>11, <1>12, <1>13, <1>14, <1>15
  DEF BusProceed

LEMMA AttemptsStarting ==
    ASSUME Typed, AttemptsKnown, NEW c \in Calls, BusStart(c)
    PROVE  AttemptsKnown'
<1> USE DEF approvalVars, money, marks
<1>1. CASE ReadToDecide(c)
  <2>0. PICK decision \in {"approved", "rejected"} :
            call' = [call EXCEPT ![c] = [NoCall EXCEPT !.decision = decision]]
    BY <1>1 DEF ReadToDecide
  <2> DEFINE memory == [NoCall EXCEPT !.decision = decision]
  <2>1. call' = [call EXCEPT ![c] = memory] /\ memory.attempt = None /\ memory.locked = FALSE
    BY <2>0 DEF NoCall
  <2> HIDE DEF memory
  <2>2. Others(c) /\ pc'[c] = "decide" /\ Of(c)' = None /\ call'[c].locked = FALSE
    BY <1>1, <2>1, FreshOthers DEF ReadToDecide, Steps
  <2>3. StepKnown(c)' /\ AttemptKnown(c)'
    BY <2>2 DEF StepKnown, AttemptKnown, Unattached, Attempting, Cancelling, Locked, Approved
  <2> QED
    BY <1>1, <2>2, <2>3, AttemptsKept DEF ReadToDecide, Attempting
<1>2. CASE Acquire(c)
  <2> DEFINE memory == [NoCall EXCEPT !.locked = TRUE]
  <2>1. call' = [call EXCEPT ![c] = memory] /\ memory.attempt = None /\ memory.locked = TRUE
    BY <1>2 DEF Acquire, NoCall
  <2> HIDE DEF memory
  <2>2. Others(c) /\ pc'[c] = "load" /\ Of(c)' = None /\ call'[c].locked = TRUE
    <3>1. Others(c) /\ pc'[c] = "load" /\ Of(c)' = memory.attempt /\ call'[c].locked = memory.locked
      BY <1>2, <2>1, FreshOthers DEF Acquire, Steps
    <3> QED
      BY <2>1, <3>1
  <2>3. StepKnown(c)' /\ AttemptKnown(c)'
    BY <2>2 DEF StepKnown, AttemptKnown, Unattached, Attempting, Cancelling, Locked, Approved
  <2> QED
    BY <1>2, <2>2, <2>3, AttemptsKept DEF Acquire, Attempting
<1> QED
  BY <1>1, <1>2 DEF BusStart

LEMMA AttemptsCrash ==
    ASSUME Typed, AttemptsKnown, NEW c \in Calls, Crash(c)
    PROVE  AttemptsKnown'
  BY EndKeeps DEF Crash, CrashAt

\* BlockLapses takes a ticket back to what nobody books any more, OperatorCancels and
\* WindowPasses a booked one to what counts as booked.
LEMMA AttemptsOfTicket ==
    ASSUME Typed, AttemptsKnown, NEW k \in Attempts, BlockLapses(k) \/ OperatorCancels(k) \/ WindowPasses(k)
    PROVE  AttemptsKnown'
<1>1. /\ ticket \in [Attempts -> [state : {"none", "blocked", "lapsed", "booked", "void", "unlisted"},
                                  gone : SUBSET Seats]]
      /\ UNCHANGED <<row, unverified, pc, call>>
  BY DEF Typed, TypeOK, BusTypeOK, BlockLapses, OperatorCancels, WindowPasses
<1>2. \/ ticket[k].state = "blocked" /\ ticket' = [ticket EXCEPT ![k].state = "lapsed"]
      \/ ticket[k].state = "booked" /\ ticket' = [ticket EXCEPT ![k].state = "void"]
      \/ ticket[k].state = "void" /\ ticket' = [ticket EXCEPT ![k].state = "unlisted"]
  BY DEF BlockLapses, OperatorCancels, WindowPasses
<1>3. \A l \in Attempts :
          /\ ticket[l].state # "none" <=> ticket'[l].state # "none"
          /\ ticket[l].state \in {"blocked", "lapsed"} => ticket'[l].state \in {"blocked", "lapsed"}
  BY <1>1, <1>2
<1>4. ASSUME NEW d \in Calls PROVE StepKnown(d)' /\ AttemptKnown(d)'
  <2>1. StepKnown(d) /\ AttemptKnown(d) /\ Of(d)' = Of(d) /\ Of(d) \in Attempts \cup {None}
        /\ call'[d].locked = call[d].locked /\ pc'[d] = pc[d]
    BY <1>1 DEF AttemptsKnown, Of, Typed, TypeOK, BusTypeOK, Call
  <2>2. StepKnown(d)'
    BY <2>1 DEF StepKnown
  <2>3. AttemptKnown(d)'
    BY <1>1, <1>3, <2>1 DEF AttemptKnown, StepKnown, Attempting, Cancelling
  <2> QED
    BY <2>2, <2>3
<1>5. AttemptsOwned'
  BY <1>1 DEF AttemptsKnown, AttemptsOwned, Of
<1>6. \A l \in Attempts : RowKnown(l)'
  BY <1>1, <1>3 DEF AttemptsKnown, RowKnown
<1> QED
  BY <1>4, <1>5, <1>6 DEF AttemptsKnown

LEMMA AttemptsEnvironment ==
    ASSUME Typed, AttemptsKnown, BusEnvironment
    PROVE  AttemptsKnown'
<1>1. ASSUME UNCHANGED <<row, ticket, unverified, pc, call>> PROVE AttemptsKnown'
  BY <1>1 DEF AttemptsKnown, StepKnown, AttemptKnown, AttemptsOwned, RowKnown, Of
<1> QED
  BY <1>1, AttemptsOfTicket DEF BusEnvironment, ExpiryPasses, SweepExpired, LockExpires

\* The steps of a cancellation: on a row that is kept, which stays so.
LEMMA AttemptsCancelling ==
    ASSUME Typed, AttemptsKnown, NEW c \in Calls,
           \/ ReadSeats(c) \/ CancelTicket(c) \/ CreateCancellation(c) \/ CreditRefund(c)
           \/ SaveCancellation(c) \/ SaveCancellationFails(c) \/ Transition(c)
           \/ FetchTicket(c) \/ FetchFails(c)
    PROVE  AttemptsKnown'
<1> USE DEF cancelVars, approvalVars, money, marks
<1>0. /\ ticket \in [Attempts -> [state : {"none", "blocked", "lapsed", "booked", "void", "unlisted"},
                                  gone : SUBSET Seats]]
      /\ row \in [Attempts -> [status : RowStatuses, total : Nat]]
      /\ pc \in [Calls -> Steps] /\ call \in [Calls -> Call]
      /\ \A d \in Calls : StepKnown(d) /\ AttemptKnown(d) /\ Of(d) \in Attempts \cup {None}
      /\ \A k \in Attempts : RowKnown(k)
      /\ None \notin Attempts
  BY BusAssumption DEF Typed, TypeOK, BusTypeOK, AttemptsKnown, Call, Of
<1>01. /\ pc[c] \in Cancelling /\ Of(c) \in Attempts /\ row[Of(c)].status \in Kept
       /\ call[c].locked # TRUE /\ ticket[Of(c)].state # "none"
  <2>1. pc[c] \in Cancelling
    BY DEF Cancelling, ReadSeats, CancelTicket, CreateCancellation, CreditRefund, SaveCancellation,
           SaveCancellationFails, Transition, FetchTicket, FetchFails
  <2>2. Of(c) \in Attempts
    BY <1>0, <2>1 DEF StepKnown
  <2> QED
    BY <1>0, <2>1, <2>2 DEF StepKnown, AttemptKnown, Locked, Approved, Cancelling
<1>02. ASSUME NEW step \in Cancelling, Goto(c, step), UNCHANGED unverified, UNCHANGED row,
              \A k \in Attempts : ticket'[k].state = ticket[k].state,
              \A d \in Calls : call'[d].attempt = call[d].attempt /\ call'[d].locked = call[d].locked
       PROVE  AttemptsKnown'
  <2>1. Others(c) /\ pc'[c] = step /\ call'[c].locked = call[c].locked /\ \A d \in Calls : Of(d)' = Of(d)
    <3>1. step \in Steps
      BY DEF Steps, Cancelling
    <3> QED
      BY <1>02, <3>1, GotoOthers
  <2>2. StepKnown(c)'
    BY <1>0, <1>01, <2>1 DEF StepKnown, Unattached, Attempting, Cancelling, Locked, Approved
  <2>3. AttemptKnown(c)'
    BY <1>01, <1>02, <2>1 DEF AttemptKnown, Cancelling
  <2>4. ASSUME NEW d \in Calls, d # c PROVE StepKnown(d)' /\ AttemptKnown(d)'
    <3>1. pc'[d] = pc[d] /\ Of(d)' = Of(d) /\ call'[d].locked = call[d].locked
      BY <2>1, <2>4 DEF Others
    <3>2. StepKnown(d)'
      BY <1>0, <3>1 DEF StepKnown
    <3>3. AttemptKnown(d)'
      BY <1>0, <1>02, <3>1 DEF AttemptKnown, StepKnown, Attempting, Cancelling
    <3> QED
      BY <3>2, <3>3
  <2>5. AttemptsOwned'
    BY <2>1 DEF AttemptsKnown, AttemptsOwned, Others, Attempting, Cancelling
  <2>6. \A k \in Attempts : RowKnown(k)'
    BY <1>0, <1>02 DEF RowKnown
  <2> QED
    BY <2>2, <2>3, <2>4, <2>5, <2>6 DEF AttemptsKnown
<1>1. CASE CancelTicket(c)
  <2>1. \A k \in Attempts : ticket'[k].state = ticket[k].state
    BY <1>0, <1>1 DEF CancelTicket
  <2>2. CASE Leave(c)
    <3>1. Others(c) /\ StepKnown(c)' /\ pc'[c] \notin Attempting /\ Of(c)' = None
          /\ pc'[c] \notin Attempting \cup Cancelling \cup {"mark"}
      BY <2>2, LeaveOthers, LeaveTyped DEF Of, Attempting, Cancelling
    <3>2. AttemptKnown(c)'
      BY <3>1 DEF AttemptKnown, Attempting, Cancelling
    <3>3. ASSUME NEW d \in Calls, d # c PROVE StepKnown(d)' /\ AttemptKnown(d)'
      <4>1. pc'[d] = pc[d] /\ Of(d)' = Of(d) /\ call'[d].locked = call[d].locked
        BY <3>1, <3>3 DEF Others, Of
      <4>2. StepKnown(d)'
        BY <1>0, <4>1 DEF StepKnown
      <4>3. AttemptKnown(d)'
        BY <1>0, <1>1, <2>1, <4>1 DEF CancelTicket, AttemptKnown, StepKnown, Attempting, Cancelling
      <4> QED
        BY <4>2, <4>3
    <3>4. AttemptsOwned'
      BY <3>1 DEF AttemptsKnown, AttemptsOwned, Others, Of
    <3>5. \A k \in Attempts : RowKnown(k)'
      BY <1>0, <1>1, <2>1 DEF CancelTicket, RowKnown
    <3> QED
      BY <3>1, <3>2, <3>3, <3>4, <3>5 DEF AttemptsKnown
  <2>3. CASE Goto(c, "createRow") /\ \E amount \in {0, FareOf(Of(c), call[c].seats)} :
                                         call' = [call EXCEPT ![c].amount = amount]
    <3>1. \A d \in Calls : call'[d].attempt = call[d].attempt /\ call'[d].locked = call[d].locked
      BY <1>0, <2>3 DEF Call
    <3>2. UNCHANGED <<row, unverified>>
      BY <1>1 DEF CancelTicket
    <3> QED
      BY <1>02, <2>1, <2>3, <3>1, <3>2 DEF Cancelling
  <2> QED
    BY <1>1, <2>2, <2>3 DEF CancelTicket
<1>2. CASE CreateCancellation(c)
  <2>1. \A d \in Calls : call'[d].attempt = call[d].attempt /\ call'[d].locked = call[d].locked
    BY <1>0, <1>2 DEF CreateCancellation, Outdated, Call
  <2> QED
    BY <1>02, <1>2, <2>1 DEF CreateCancellation, Cancelling
<1>3. CASE CreditRefund(c)
  <2>1. \A d \in Calls : call'[d].attempt = call[d].attempt /\ call'[d].locked = call[d].locked
    <3>1. PICK outcome : call' = [call EXCEPT ![c].outcome = outcome]
      BY <1>3 DEF CreditRefund
    <3>2. PICK memory : memory = [call[c] EXCEPT !.outcome = outcome]
      OBVIOUS
    <3>3. memory.attempt = call[c].attempt /\ memory.locked = call[c].locked
      BY <1>0, <3>2 DEF Call
    <3>4. call'[c] = memory /\ \A d \in Calls \ {c} : call'[d] = call[d]
      BY <1>0, <3>1, <3>2
    <3> QED
      BY <3>3, <3>4
  <2> QED
    BY <1>02, <1>3, <2>1 DEF CreditRefund, Cancelling
<1>4. CASE SaveCancellation(c)
  BY <1>02, <1>4 DEF SaveCancellation, Cancelling
<1>5. CASE Transition(c)
  <2> DEFINE k == Of(c)
  <2>1. /\ row'[k].status \in Kept /\ ticket' = ticket /\ unverified' = unverified
        /\ \A l \in Attempts \ {k} : row'[l] = row[l]
    BY <1>0, <1>01, <1>5 DEF Transition, NewStatus, Kept, RowStatuses
  <2>2. /\ Of(c)' = None /\ call'[c].locked = FALSE /\ pc'[c] = "idle"
        /\ \A d \in Calls \ {c} : Of(d)' = Of(d) /\ call'[d].locked = call[d].locked /\ pc'[d] = pc[d]
    BY <1>0, <1>01, <1>5, OutdatedTyped, NoCallTyped DEF Transition, Goto, Of
  <2>3. StepKnown(c)' /\ AttemptKnown(c)'
    BY <2>2 DEF StepKnown, AttemptKnown, Unattached, Attempting, Cancelling, Locked, Approved
  <2>4. ASSUME NEW d \in Calls, d # c PROVE StepKnown(d)' /\ AttemptKnown(d)'
    <3>1. pc'[d] = pc[d] /\ Of(d)' = Of(d) /\ call'[d].locked = call[d].locked
      BY <2>2, <2>4
    <3>2. Of(d) = k => pc[d] \notin Attempting
      BY <1>0, <1>01 DEF AttemptKnown, Attempting, Kept
    <3>3. StepKnown(d)'
      BY <1>0, <3>1 DEF StepKnown
    <3>4. AttemptKnown(d)'
      BY <1>0, <1>01, <2>1, <3>1, <3>2 DEF AttemptKnown, Attempting, Cancelling, StepKnown
    <3> QED
      BY <3>3, <3>4
  <2>5. AttemptsOwned'
    BY <2>2 DEF AttemptsKnown, AttemptsOwned, Attempting
  <2>6. \A l \in Attempts : RowKnown(l)'
    BY <1>0, <1>01, <2>1 DEF RowKnown, Kept
  <2> QED
    BY <2>3, <2>4, <2>5, <2>6 DEF AttemptsKnown
<1>6. CASE FetchTicket(c)
  <2>1. \A d \in Calls : call'[d].attempt = call[d].attempt /\ call'[d].locked = call[d].locked
    BY <1>0, <1>6 DEF FetchTicket, Call
  <2> QED
    BY <1>02, <1>6, <2>1 DEF FetchTicket, Cancelling
<1>7. CASE FetchFails(c)
  BY <1>7, LeaveKeeps DEF FetchFails
<1>8. CASE ReadSeats(c)
  <2>1. CASE Leave(c)
    BY <1>8, <2>1, LeaveKeeps DEF ReadSeats
  <2>2. ASSUME NEW seats, NEW covered, Goto(c, "cancelTicket"),
               call' = [call EXCEPT ![c].seats = seats, ![c].covered = covered]
        PROVE  AttemptsKnown'
    <3>1. \A d \in Calls : call'[d].attempt = call[d].attempt /\ call'[d].locked = call[d].locked
      BY <1>0, <2>2 DEF Call
    <3> QED
      BY <1>02, <1>8, <2>2, <3>1 DEF ReadSeats, Cancelling
  <2> QED
    BY <1>8, <2>1, <2>2 DEF ReadSeats
<1>9. CASE SaveCancellationFails(c)
  <2>1. CASE Leave(c)
    BY <1>9, <2>1, LeaveKeeps DEF SaveCancellationFails
  <2>2. CASE call' = [call EXCEPT ![c].outcome = "MISFILED"] /\ UNCHANGED pc
    <3>1. \A d \in Calls : call'[d].attempt = call[d].attempt /\ call'[d].locked = call[d].locked
      BY <1>0, <2>2 DEF Call
    <3>2. pc[c] = "saveRow" /\ Goto(c, "saveRow")
      BY <1>0, <1>9, <2>2 DEF SaveCancellationFails, Goto
    <3> QED
      BY <1>02, <1>9, <3>1, <3>2 DEF SaveCancellationFails, Cancelling
  <2> QED
    BY <1>9, <2>1, <2>2 DEF SaveCancellationFails
<1> QED
  BY <1>1, <1>2, <1>3, <1>4, <1>5, <1>6, <1>7, <1>8, <1>9

LEMMA AttemptsCancelStart ==
    ASSUME Typed, AttemptsKnown, NEW c \in Calls, NEW k \in Attempts,
           ReadForCancel(c, k) \/ PollOperator(c, k)
    PROVE  AttemptsKnown'
<1> USE DEF approvalVars, money, marks
<1>1. row[k].status \in Kept /\ ticket[k].state # "none" /\ UNCHANGED <<row, ticket, unverified>>
  BY DEF ReadForCancel, PollOperator, Cancellable, Skipped, Kept, RowStatuses, Typed, TypeOK,
         BusTypeOK, AttemptsKnown, RowKnown
<1>3. \E memory : /\ call' = [call EXCEPT ![c] = memory]
                  /\ memory.attempt = k /\ memory.locked = FALSE
  <2>1. CASE PollOperator(c, k)
    <3> DEFINE memory == [NoCall EXCEPT !.attempt = k, !.operator = TRUE, !.seats = Seats,
                                        !.read = row[k].status]
    <3>1. memory.attempt = k /\ memory.locked = FALSE
      BY DEF NoCall
    <3> QED
      BY <2>1, <3>1 DEF PollOperator
  <2>2. CASE ReadForCancel(c, k)
    <3> DEFINE memory == [NoCall EXCEPT !.attempt = k, !.read = row[k].status]
    <3>1. memory.attempt = k /\ memory.locked = FALSE
      BY DEF NoCall
    <3> QED
      BY <2>2, <3>1 DEF ReadForCancel
  <2> QED
    BY <2>1, <2>2
<1>4. \E step \in {"seats", "fetch"} : Goto(c, step)
  BY DEF ReadForCancel, PollOperator
<1>5. /\ Others(c) /\ Of(c)' = k /\ call'[c].locked = FALSE
      /\ pc'[c] \in {"seats", "fetch"}
  <2>1. PICK memory : /\ call' = [call EXCEPT ![c] = memory]
                      /\ memory.attempt = k /\ memory.locked = FALSE
    BY <1>3
  <2>2. PICK step \in {"seats", "fetch"} : Goto(c, step)
    BY <1>4
  <2>3. step \in Steps
    BY DEF Steps
  <2> QED
    BY <2>1, <2>2, <2>3, FreshOthers
<1>6. StepKnown(c)' /\ AttemptKnown(c)'
  BY <1>1, <1>5 DEF StepKnown, AttemptKnown, Unattached, Attempting, Cancelling, Locked, Approved
<1> QED
  BY <1>1, <1>5, <1>6, AttemptsKept DEF Attempting

LEMMA AttemptsStep ==
    ASSUME Typed, AttemptsKnown, [Next]_vars
    PROVE  AttemptsKnown'
<1>1. CASE UNCHANGED vars
  BY <1>1 DEF vars, busVars, AttemptsKnown, StepKnown, AttemptKnown, AttemptsOwned, RowKnown, Of
<1>2. ASSUME NEW c \in Calls, Proceed(c) PROVE AttemptsKnown'
  BY <1>2, AttemptsBooking, AttemptsCancelling DEF Proceed
<1> QED
  BY <1>1, <1>2, AttemptsCrash, AttemptsStarting, AttemptsCancelStart, AttemptsOfTicket,
     AttemptsEnvironment
  DEF Next

-----------------------------------------------------------------------------
(* Locks and approvals *)

\* Steps that matter neither to the lock nor to the approval.
Quiet(c) ==
    /\ Others(c)
    /\ UNCHANGED <<approval, overruled, lock>> /\ (unguarded => unguarded')
    /\ KeptRows' = KeptRows
    /\ call'[c].locked => call[c].locked
    /\ pc[c] # "mark" /\ pc'[c] # "mark"
    /\ pc'[c] \in Approved => pc[c] \in Approved

Guards == LockHeld /\ DecisionStands /\ ApprovalUnused

LEMMA QuietKeeps ==
    ASSUME Guards, NEW c \in Calls, Quiet(c)
    PROVE  Guards'
<1>1. LockHeld'
  BY DEF Guards, LockHeld, Quiet, Others
<1>2. DecisionStands'
  BY DEF Guards, DecisionStands, Quiet, Others
<1>3. ApprovalUnused'
  <2> SUFFICES ASSUME ~overruled', ~unguarded'
               PROVE  /\ \A d \in Calls : pc'[d] \in Approved => approval' = "approved"
                      /\ \A d \in Calls : pc'[d] \in Approved \ {"mark"} => KeptRows' = {}
                      /\ approval' # "booked" /\ KeptRows' # {} => \E d \in Calls : pc'[d] = "mark"
                      /\ \A k, l \in KeptRows' : k = l
    BY DEF ApprovalUnused
  <2>1. ~overruled /\ ~unguarded
    BY DEF Quiet
  <2>2. /\ \A d \in Calls : pc[d] \in Approved => approval = "approved"
        /\ \A d \in Calls : pc[d] \in Approved \ {"mark"} => KeptRows = {}
        /\ approval # "booked" /\ KeptRows # {} => \E d \in Calls : pc[d] = "mark"
        /\ \A k, l \in KeptRows : k = l
    BY <2>1 DEF Guards, ApprovalUnused
  <2>3. \A d \in Calls : /\ pc'[d] \in Approved => pc[d] \in Approved
                         /\ pc'[d] = "mark" <=> pc[d] = "mark"
    BY DEF Quiet, Others
  <2>4. approval' = approval /\ KeptRows' = KeptRows
    BY DEF Quiet
  <2> QED
    BY <2>2, <2>3, <2>4
<1> QED
  BY <1>1, <1>2, <1>3 DEF Guards

\* No row becomes or ceases to be a booking.
LEMMA KeptAsBefore ==
    ASSUME \A k \in Attempts : row'[k].status \in Kept <=> row[k].status \in Kept
    PROVE  KeptRows' = KeptRows
  BY DEF KeptRows

\* The commit of the booking service changes the approval or the bookings in four
\* steps only.
LEMMA QuietBooking ==
    ASSUME Typed, AttemptsKnown, NEW c \in Calls, BusProceed(c),
           ~Decide(c), ~Load(c), ~SaveBooked(c), ~MarkApproval(c), ~DeleteLock(c)
    PROVE  Quiet(c)
<1> USE DEF approvalVars, money, marks
<1>0. /\ row \in [Attempts -> [status : RowStatuses, total : Nat]]
      /\ pc \in [Calls -> Steps] /\ call \in [Calls -> Call]
      /\ StepKnown(c) /\ AttemptKnown(c) /\ call[c].locked \in BOOLEAN
  BY DEF Typed, TypeOK, BusTypeOK, AttemptsKnown, Call
<1>1. ASSUME Leave(c), UNCHANGED <<approval, overruled, lock, row>>, unguarded => unguarded', pc[c] # "mark"
      PROVE  Quiet(c)
  BY <1>0, <1>1, LeaveTyped, LeaveOthers, KeptAsBefore DEF Quiet, Approved
<1>2. ASSUME NEW step \in Steps, Goto(c, step), UNCHANGED <<approval, overruled, lock, unguarded>>,
             \A d \in Calls : call'[d].attempt = call[d].attempt /\ call'[d].locked = call[d].locked,
             KeptRows' = KeptRows, pc[c] # "mark", step # "mark", step \in Approved => pc[c] \in Approved
      PROVE  Quiet(c)
  BY <1>2, GotoOthers DEF Quiet
<1>3. CASE CheckTrip(c)
  BY <1>1, <1>2, <1>3, KeptAsBefore DEF CheckTrip, Approved, Steps
<1>4. CASE Debit(c)
  <2>1. CASE Leave(c)
    BY <1>1, <1>4, <2>1 DEF Debit
  <2>2. CASE call' = [call EXCEPT ![c].held = Total] /\ Goto(c, "block")
    <3>1. \A d \in Calls : call'[d].attempt = call[d].attempt /\ call'[d].locked = call[d].locked
      BY <1>0, <2>2 DEF Call
    <3> QED
      BY <1>2, <1>4, <2>2, <3>1, KeptAsBefore DEF Debit, Approved, Steps
  <2> QED
    BY <1>4, <2>1, <2>2 DEF Debit
<1>5. CASE Block(c)
  <2>1. ASSUME NEW k \in Attempts, call' = [call EXCEPT ![c].attempt = k],
               NEW step \in {"fare", "create"}, Goto(c, step)
        PROVE  Quiet(c)
    <3>1. Others(c) /\ call'[c].locked = call[c].locked /\ pc'[c] = step
      BY <1>0, <2>1 DEF Others, Goto, Call
    <3> QED
      BY <1>5, <2>1, <3>1, KeptAsBefore DEF Block, Quiet, Approved
  <2>2. CASE Goto(c, "refund") /\ UNCHANGED call
    BY <1>2, <1>5, <2>2, KeptAsBefore DEF Block, Approved, Steps
  <2> QED
    BY <1>5, <2>1, <2>2 DEF Block
<1>6. CASE TakeFare(c)
  <2>1. \A d \in Calls : call'[d].attempt = call[d].attempt /\ call'[d].locked = call[d].locked
    BY <1>0, <1>6 DEF TakeFare, Call
  <2>2. \E step \in {"create", "refund"} : Goto(c, step)
    BY <1>6 DEF TakeFare
  <2> QED
    BY <1>2, <1>6, <2>1, <2>2, KeptAsBefore DEF TakeFare, Approved, Steps
<1>7. CASE Refund(c)
  BY <1>1, <1>7 DEF Refund
<1>8. CASE CreateRow(c)
  <2>1. CASE Leave(c) /\ UNCHANGED row
    BY <1>1, <1>8, <2>1 DEF CreateRow
  <2>2. CASE /\ row' = [row EXCEPT ![Of(c)] = [status |-> "BLOCKED", total |-> call[c].held]]
             /\ Goto(c, "book") /\ UNCHANGED call
    <3>1. Of(c) \in Attempts /\ row[Of(c)].status = "none"
      BY <1>0, <1>8 DEF CreateRow, StepKnown, AttemptKnown, Attempting
    <3>2. \A k \in Attempts : row'[k].status \in Kept <=> row[k].status \in Kept
      BY <1>0, <2>2, <3>1 DEF Kept
    <3> QED
      BY <1>2, <1>8, <2>2, <3>2, KeptAsBefore DEF CreateRow, Approved, Steps
  <2> QED
    BY <1>8, <2>1, <2>2 DEF CreateRow
<1>9. CASE Book(c)
  <2>1. \E step \in {"save", "check", "fail"} : Goto(c, step)
    BY <1>9 DEF Book
  <2> QED
    BY <1>2, <1>9, <2>1, KeptAsBefore DEF Book, Approved, Steps
<1>10. CASE Check(c)
  <2>1. \E step \in {"save", "fail"} : Goto(c, step)
    BY <1>10 DEF Check
  <2> QED
    BY <1>2, <1>10, <2>1, KeptAsBefore DEF Check, Approved, Steps
<1>11. CASE MarkFailed(c)
  <2>1. Of(c) \in Attempts /\ row[Of(c)].status = "BLOCKED"
    BY <1>0, <1>11 DEF MarkFailed, StepKnown, AttemptKnown, Attempting
  <2>2. \A k \in Attempts : row'[k].status \in Kept <=> row[k].status \in Kept
    BY <1>0, <1>11, <2>1 DEF MarkFailed, Kept
  <2> QED
    BY <1>2, <1>11, <2>2, KeptAsBefore DEF MarkFailed, Approved, Steps
<1>12. CASE CheckLock(c)
  <2>1. CASE Goto(c, "delete") /\ UNCHANGED call
    BY <1>2, <1>12, <2>1, KeptAsBefore DEF CheckLock, Approved, Steps
  <2>2. CASE Goto(c, "idle") /\ call' = [call EXCEPT ![c] = NoCall]
    <3>0. "idle" \in Steps
      BY DEF Steps
    <3>1. Others(c) /\ call'[c].locked = NoCall.locked /\ pc'[c] = "idle"
      BY <2>2, <3>0, FreshOthers
    <3> QED
      BY <1>12, <3>1, NoCallTyped, KeptAsBefore DEF CheckLock, Quiet, Approved
  <2> QED
    BY <1>12, <2>1, <2>2 DEF CheckLock
<1> QED
  BY <1>3, <1>4, <1>5, <1>6, <1>7, <1>8, <1>9, <1>10, <1>11, <1>12 DEF BusProceed

LEMMA QuietCancelling ==
    ASSUME Typed, AttemptsKnown, NEW c \in Calls,
           \/ ReadSeats(c) \/ CancelTicket(c) \/ CreateCancellation(c) \/ CreditRefund(c)
           \/ SaveCancellation(c) \/ SaveCancellationFails(c) \/ Transition(c)
           \/ FetchTicket(c) \/ FetchFails(c)
    PROVE  Quiet(c)
<1> USE DEF cancelVars, approvalVars, money, marks
<1>0. /\ row \in [Attempts -> [status : RowStatuses, total : Nat]]
      /\ pc \in [Calls -> Steps] /\ call \in [Calls -> Call]
      /\ StepKnown(c) /\ AttemptKnown(c) /\ call[c].locked \in BOOLEAN
  BY DEF Typed, TypeOK, BusTypeOK, AttemptsKnown, Call
<1>1. /\ pc[c] \in Cancelling /\ Of(c) \in Attempts /\ row[Of(c)].status \in Kept
  <2>1. pc[c] \in Cancelling
    BY DEF Cancelling, ReadSeats, CancelTicket, CreateCancellation, CreditRefund, SaveCancellation,
           SaveCancellationFails, Transition, FetchTicket, FetchFails
  <2> QED
    BY <1>0, <2>1 DEF StepKnown, AttemptKnown
<1>2. UNCHANGED <<approval, overruled, lock, unguarded>>
  BY DEF ReadSeats, CancelTicket, CreateCancellation, CreditRefund, SaveCancellation,
         SaveCancellationFails, Transition, FetchTicket, FetchFails
<1>3. KeptRows' = KeptRows
  <2>1. CASE row' = row
    BY <2>1, KeptAsBefore
  <2>2. CASE row' = [row EXCEPT ![Of(c)].status = NewStatus(c)]
    <3>1. NewStatus(c) \in Kept
      BY DEF NewStatus, Kept, RowStatuses
    <3>2. \A k \in Attempts : row'[k].status \in Kept <=> row[k].status \in Kept
      BY <1>0, <1>1, <2>2, <3>1
    <3> QED
      BY <3>2, KeptAsBefore
  <2> QED
    BY <2>1, <2>2 DEF ReadSeats, CancelTicket, CreateCancellation, CreditRefund, SaveCancellation,
                      SaveCancellationFails, Transition, FetchTicket, FetchFails
<1>4. CASE Leave(c)
  BY <1>0, <1>1, <1>2, <1>3, <1>4, LeaveTyped, LeaveOthers DEF Quiet, Approved, Cancelling
<1>5. CASE /\ \E step \in Cancelling \cup {"idle"} : Goto(c, step)
           /\ \A d \in Calls \ {c} : call'[d].attempt = call[d].attempt /\ call'[d].locked = call[d].locked
           /\ call'[c].locked => call[c].locked
  BY <1>0, <1>1, <1>2, <1>3, <1>5 DEF Quiet, Others, Goto, Approved, Cancelling
<1>6. CASE CancelTicket(c)
  <2>1. CASE Goto(c, "createRow") /\ \E amount \in {0, FareOf(Of(c), call[c].seats)} :
                                         call' = [call EXCEPT ![c].amount = amount]
    <3>1. \A d \in Calls : call'[d].attempt = call[d].attempt /\ call'[d].locked = call[d].locked
      BY <1>0, <2>1 DEF Call
    <3> QED
      BY <1>5, <2>1, <3>1 DEF Cancelling
  <2> QED
    BY <1>4, <1>6, <2>1 DEF CancelTicket
<1>7. CASE CreateCancellation(c)
  <2>1. \A d \in Calls : call'[d].attempt = call[d].attempt /\ call'[d].locked = call[d].locked
    BY <1>0, <1>7 DEF CreateCancellation, Outdated, Call
  <2> QED
    BY <1>5, <1>7, <2>1 DEF CreateCancellation, Cancelling
<1>8. CASE CreditRefund(c)
  <2>1. \A d \in Calls : call'[d].attempt = call[d].attempt /\ call'[d].locked = call[d].locked
    BY <1>0, <1>8 DEF CreditRefund, Call
  <2> QED
    BY <1>5, <1>8, <2>1 DEF CreditRefund, Cancelling
<1>9. CASE SaveCancellation(c)
  BY <1>5, <1>9 DEF SaveCancellation, Cancelling
<1>10. CASE Transition(c)
  <2>1. call' = Outdated(c, Of(c), NoCall) /\ Goto(c, "idle")
    BY <1>10 DEF Transition
  <2>2. /\ \A d \in Calls \ {c} : call'[d].attempt = call[d].attempt /\ call'[d].locked = call[d].locked
        /\ call'[c].locked = FALSE
    BY <1>1, <2>1, OutdatedTyped, NoCallTyped
  <2> QED
    BY <1>5, <2>1, <2>2
<1>11. CASE FetchTicket(c)
  <2>1. \A d \in Calls : call'[d].attempt = call[d].attempt /\ call'[d].locked = call[d].locked
    BY <1>0, <1>11 DEF FetchTicket, Call
  <2> QED
    BY <1>5, <1>11, <2>1 DEF FetchTicket, Cancelling
<1>12. CASE FetchFails(c)
  BY <1>4, <1>12 DEF FetchFails
<1>13. CASE ReadSeats(c)
  <2>1. ASSUME NEW seats, NEW covered, Goto(c, "cancelTicket"),
               call' = [call EXCEPT ![c].seats = seats, ![c].covered = covered]
        PROVE  Quiet(c)
    <3>1. \A d \in Calls : call'[d].attempt = call[d].attempt /\ call'[d].locked = call[d].locked
      BY <1>0, <2>1 DEF Call
    <3> QED
      BY <1>5, <2>1, <3>1 DEF Cancelling
  <2> QED
    BY <1>4, <1>13, <2>1 DEF ReadSeats
<1>14. CASE SaveCancellationFails(c)
  <2>1. CASE call' = [call EXCEPT ![c].outcome = "MISFILED"] /\ UNCHANGED pc
    <3>1. \A d \in Calls : call'[d].attempt = call[d].attempt /\ call'[d].locked = call[d].locked
      BY <1>0, <2>1 DEF Call
    <3>2. Goto(c, "saveRow")
      BY <1>0, <1>14, <2>1 DEF SaveCancellationFails, Goto
    <3> QED
      BY <1>5, <3>1, <3>2 DEF Cancelling
  <2> QED
    BY <1>4, <1>14, <2>1 DEF SaveCancellationFails
<1> QED
  BY <1>6, <1>7, <1>8, <1>9, <1>10, <1>11, <1>12, <1>13, <1>14

\* Calls that begin to decide or to cancel.
LEMMA QuietStarts ==
    ASSUME Typed, AttemptsKnown, NEW c \in Calls, NEW k \in Attempts,
           ReadToDecide(c) \/ ReadForCancel(c, k) \/ PollOperator(c, k)
    PROVE  Quiet(c)
<1>1. /\ call \in [Calls -> Call] /\ pc \in [Calls -> Steps]
      /\ UNCHANGED <<approval, overruled, lock, unguarded, row>> /\ pc[c] = "idle"
      /\ \E step \in {"decide", "seats", "fetch"} : Goto(c, step)
  BY DEF Typed, TypeOK, BusTypeOK, approvalVars, marks, ReadToDecide, ReadForCancel, PollOperator
<1>2. call'[c].locked = FALSE /\ \A d \in Calls \ {c} : call'[d] = call[d]
  BY <1>1 DEF ReadToDecide, ReadForCancel, PollOperator, NoCall
<1> QED
  BY <1>1, <1>2, KeptAsBefore DEF Quiet, Others, Goto, Approved

\* decideApproval: a decision over another is known as such, one over a pending
\* request finds no booking.
LEMMA GuardsDecide ==
    ASSUME Typed, AttemptsKnown, Guards, NEW c \in Calls, Decide(c)
    PROVE  Guards'
<1> USE DEF approvalVars, money, marks
<1>1. /\ pc[c] = "decide" /\ Others(c) /\ pc'[c] \in {"unlock", "idle"}
      /\ call'[c].locked = call[c].locked
      /\ UNCHANGED <<lock, unguarded>> /\ overruled' = (overruled \/ approval # "pending")
  BY LeaveTyped, LeaveOthers DEF Decide
<1>2. KeptRows' = KeptRows
  BY KeptAsBefore DEF Decide
<1>3. \A d \in Calls : pc'[d] \in Approved => pc[d] \in Approved
  BY <1>1 DEF Others, Approved
<1>4. LockHeld'
  BY <1>1 DEF Guards, LockHeld, Others
<1>5. ~overruled' => KeptRows = {} /\ \A d \in Calls : pc[d] \notin Approved
  BY <1>1 DEF Guards, DecisionStands
<1>6. DecisionStands'
  BY <1>2, <1>3, <1>5 DEF DecisionStands
<1>7. ApprovalUnused'
  BY <1>2, <1>3, <1>5 DEF ApprovalUnused
<1> QED
  BY <1>4, <1>6, <1>7 DEF Guards

\* A call goes on with an approval that is approved, and so not used: whoever used
\* it has marked it, or holds the lock.
LEMMA GuardsLoad ==
    ASSUME Typed, AttemptsKnown, Guards, NEW c \in Calls, Load(c)
    PROVE  Guards'
<1> USE DEF approvalVars, money, marks
<1>1. pc[c] = "load" /\ UNCHANGED <<approval, overruled, lock, unguarded, row>>
  BY DEF Load
<1>2. KeptRows' = KeptRows
  BY <1>1, KeptAsBefore
<1>3. CASE Leave(c)
  <2>1. Quiet(c)
    BY <1>1, <1>2, <1>3, LeaveTyped, LeaveOthers DEF Quiet, Approved
  <2> QED
    BY <2>1, QuietKeeps
<1>4. CASE approval = "approved" /\ Goto(c, "trip") /\ UNCHANGED call
  <2>1. Others(c) /\ pc'[c] = "trip" /\ call'[c].locked = call[c].locked
    BY <1>4, GotoOthers DEF Steps
  <2>2. LockHeld'
    BY <1>1, <2>1 DEF Guards, LockHeld, Others
  <2>3. DecisionStands'
    BY <1>1, <1>2, <1>4 DEF DecisionStands
  <2>4. ASSUME ~overruled, ~unguarded PROVE KeptRows = {}
    <3>1. ASSUME NEW d \in Calls, pc[d] = "mark" PROVE FALSE
      <4>1. call[c].locked /\ call[d].locked
        BY <1>1, <3>1 DEF AttemptsKnown, StepKnown, Locked, Approved
      <4>2. c = d
        BY <2>4, <4>1 DEF Guards, LockHeld
      <4> QED
        BY <1>1, <3>1, <4>2
    <3> QED
      BY <1>4, <2>4, <3>1 DEF Guards, ApprovalUnused
  <2>5. ApprovalUnused'
    BY <1>1, <1>2, <1>4, <2>4 DEF ApprovalUnused
  <2> QED
    BY <2>2, <2>3, <2>5 DEF Guards
<1> QED
  BY <1>3, <1>4 DEF Load

\* The lock's holder is the only one at work, so its booking is the only one.
LEMMA GuardsSaveBooked ==
    ASSUME Typed, AttemptsKnown, Guards, NEW c \in Calls, SaveBooked(c)
    PROVE  Guards'
<1> USE DEF approvalVars, money, marks
<1>1. /\ pc[c] = "save" /\ UNCHANGED <<approval, overruled, lock, unguarded>>
      /\ Of(c) \in Attempts /\ row \in [Attempts -> [status : RowStatuses, total : Nat]]
      /\ call \in [Calls -> Call]
  BY DEF SaveBooked, Typed, TypeOK, BusTypeOK, AttemptsKnown, StepKnown, Attempting
<1>2. KeptRows' = KeptRows \cup {Of(c)}
  <2>1. row'[Of(c)].status = "BOOKED" /\ \A k \in Attempts \ {Of(c)} : row'[k] = row[k]
    BY <1>1 DEF SaveBooked
  <2>2. "BOOKED" \in Kept
    BY DEF Kept, RowStatuses
  <2> QED
    BY <1>1, <2>1, <2>2 DEF KeptRows
<1>3. Others(c) /\ pc'[c] = "mark" /\ call'[c].locked = call[c].locked
  <2>1. \A d \in Calls : call'[d].attempt = call[d].attempt /\ call'[d].locked = call[d].locked
    BY <1>1 DEF SaveBooked, Outdated, Call
  <2> QED
    BY <2>1, GotoOthers DEF SaveBooked, Steps
<1>4. pc[c] \in Approved
  BY <1>1 DEF Approved
<1>5. LockHeld'
  BY <1>1, <1>3 DEF Guards, LockHeld, Others
<1>6. DecisionStands'
  BY <1>1, <1>3, <1>4 DEF Guards, DecisionStands, Others
<1>7. ASSUME ~overruled, ~unguarded
      PROVE  KeptRows = {} /\ approval = "approved" /\ \A d \in Calls : pc[d] \in Approved => d = c
  <2>1. KeptRows = {} /\ approval = "approved"
    BY <1>1, <1>4, <1>7 DEF Guards, ApprovalUnused
  <2>2. ASSUME NEW d \in Calls, pc[d] \in Approved PROVE d = c
    <3>1. call[c].locked /\ call[d].locked
      BY <1>4, <2>2 DEF AttemptsKnown, StepKnown, Locked
    <3> QED
      BY <1>7, <3>1 DEF Guards, LockHeld
  <2> QED
    BY <2>1, <2>2
<1>8. ApprovalUnused'
  <2> SUFFICES ASSUME ~overruled, ~unguarded
               PROVE  /\ \A d \in Calls : pc'[d] \in Approved => approval' = "approved"
                      /\ \A d \in Calls : pc'[d] \in Approved \ {"mark"} => KeptRows' = {}
                      /\ approval' # "booked" /\ KeptRows' # {} => \E d \in Calls : pc'[d] = "mark"
                      /\ \A k, l \in KeptRows' : k = l
    BY <1>1 DEF ApprovalUnused
  <2>1. \A d \in Calls : pc'[d] \in Approved => d = c
    BY <1>3, <1>7 DEF Others
  <2> QED
    BY <1>1, <1>2, <1>3, <1>7, <2>1
<1> QED
  BY <1>5, <1>6, <1>8 DEF Guards

\* The mark ends what the booking began.
LEMMA GuardsMark ==
    ASSUME Typed, AttemptsKnown, Guards, NEW c \in Calls, MarkApproval(c)
    PROVE  Guards'
<1> USE DEF approvalVars, money, marks
<1>1. /\ pc[c] = "mark" /\ UNCHANGED <<overruled, lock, row>>
      /\ \/ approval = "approved" /\ approval' = "booked" /\ UNCHANGED unguarded
         \/ unguarded' = TRUE /\ UNCHANGED approval
  BY DEF MarkApproval
<1>2. Others(c) /\ pc'[c] \in {"unlock", "idle"} /\ call'[c].locked = call[c].locked
  BY LeaveTyped, LeaveOthers DEF MarkApproval
<1>3. KeptRows' = KeptRows
  BY <1>1, KeptAsBefore
<1>4. pc[c] \in Approved /\ \A d \in Calls : pc'[d] \in Approved => pc[d] \in Approved /\ d # c
  BY <1>1, <1>2 DEF Approved, Others
<1>5. LockHeld'
  BY <1>1, <1>2 DEF Guards, LockHeld, Others
<1>6. DecisionStands'
  BY <1>1, <1>3, <1>4 DEF Guards, DecisionStands
<1>7. ApprovalUnused'
  <2> SUFFICES ASSUME ~overruled, ~unguarded, approval' = "booked"
               PROVE  ApprovalUnused'
    BY <1>1 DEF ApprovalUnused
  <2>1. ASSUME NEW d \in Calls PROVE pc'[d] \notin Approved
    <3>1. SUFFICES ASSUME pc[d] \in Approved, d # c PROVE FALSE
      BY <1>4
    <3>2. call[c].locked /\ call[d].locked
      BY <1>4, <3>1 DEF AttemptsKnown, StepKnown, Locked
    <3> QED
      BY <3>1, <3>2 DEF Guards, LockHeld
  <2>2. \A k, l \in KeptRows : k = l
    BY DEF Guards, ApprovalUnused
  <2> QED
    BY <1>3, <2>1, <2>2 DEF ApprovalUnused
<1> QED
  BY <1>5, <1>6, <1>7 DEF Guards

\* The holder gives the lock back; with that nobody is at work.
LEMMA GuardsDeleteLock ==
    ASSUME Typed, AttemptsKnown, Guards, NEW c \in Calls, DeleteLock(c)
    PROVE  Guards'
<1> USE DEF approvalVars, money, marks
<1>1. pc[c] = "delete" /\ UNCHANGED <<approval, overruled, unguarded, row>>
  BY DEF DeleteLock
<1>2. Others(c) /\ pc'[c] = "idle" /\ call'[c].locked = NoCall.locked
  <2>1. "idle" \in Steps
    BY DEF Steps
  <2> QED
    BY <2>1, FreshOthers DEF DeleteLock
<1>3. KeptRows' = KeptRows
  BY <1>1, KeptAsBefore
<1>4. \A d \in Calls : /\ pc'[d] \in Approved => pc[d] \in Approved
                       /\ pc'[d] = "mark" <=> pc[d] = "mark"
  BY <1>1, <1>2 DEF Approved, Others
<1>5. LockHeld'
  <2> SUFFICES ASSUME ~unguarded, NEW d \in Calls, call'[d].locked PROVE FALSE
    BY <1>1 DEF LockHeld
  <2>1. d # c /\ call[d].locked
    BY <1>2, NoCallTyped DEF Others
  <2>2. call[c].locked
    BY <1>1 DEF AttemptsKnown, StepKnown, Locked
  <2> QED
    BY <2>1, <2>2 DEF Guards, LockHeld
<1>6. DecisionStands'
  BY <1>1, <1>3, <1>4 DEF Guards, DecisionStands
<1>7. ApprovalUnused'
  BY <1>1, <1>3, <1>4 DEF Guards, ApprovalUnused
<1> QED
  BY <1>5, <1>6, <1>7 DEF Guards

LEMMA GuardsAcquire ==
    ASSUME Typed, AttemptsKnown, Guards, NEW c \in Calls, Acquire(c)
    PROVE  Guards'
<1> USE DEF approvalVars, money, marks
<1>1. /\ pc[c] = "idle" /\ UNCHANGED <<approval, overruled, row>>
      /\ \/ lock = None /\ lock' = c /\ unguarded' = unguarded
         \/ unguarded' = TRUE
  BY DEF Acquire, LockFree
<1>2. Others(c) /\ pc'[c] = "load"
  BY FreshOthers DEF Acquire, Steps
<1>3. KeptRows' = KeptRows
  BY <1>1, KeptAsBefore
<1>4. \A d \in Calls : /\ pc'[d] \in Approved => pc[d] \in Approved
                       /\ pc'[d] = "mark" <=> pc[d] = "mark"
  BY <1>1, <1>2 DEF Approved, Others
<1>5. LockHeld'
  <2> SUFFICES ASSUME ~unguarded', NEW d \in Calls, call'[d].locked PROVE lock' = d
    BY DEF LockHeld
  <2>1. ~unguarded /\ lock = None /\ lock' = c
    BY <1>1
  <2>2. None \notin Calls
    BY BusAssumption
  <2>3. d # c => call[d].locked
    BY <1>2 DEF Others
  <2> QED
    BY <2>1, <2>2, <2>3 DEF Guards, LockHeld
<1>6. DecisionStands'
  BY <1>1, <1>3, <1>4 DEF Guards, DecisionStands
<1>7. ApprovalUnused'
  BY <1>1, <1>3, <1>4 DEF Guards, ApprovalUnused
<1> QED
  BY <1>5, <1>6, <1>7 DEF Guards

\* A process that dies before the mark leaves the approval unmarked, at the mark it
\* leaves the booking unguarded.
LEMMA GuardsCrash ==
    ASSUME Typed, AttemptsKnown, Guards, NEW c \in Calls, Crash(c)
    PROVE  Guards'
<1> USE DEF approvalVars, money, marks
<1>1. /\ UNCHANGED <<approval, overruled, lock, row>>
      /\ unguarded' = (unguarded \/ pc[c] = "mark")
      /\ Goto(c, "idle") /\ call' = [call EXCEPT ![c] = NoCall]
  BY DEF Crash, CrashAt
<1>2. Others(c) /\ pc'[c] = "idle" /\ call'[c].locked = NoCall.locked
  <2>1. "idle" \in Steps
    BY DEF Steps
  <2> QED
    BY <1>1, <2>1, FreshOthers
<1>3. KeptRows' = KeptRows
  BY <1>1, KeptAsBefore
<1>4. CASE pc[c] # "mark"
  <2>1. Quiet(c)
    BY <1>1, <1>2, <1>3, <1>4, NoCallTyped DEF Quiet, Approved
  <2> QED
    BY <2>1, QuietKeeps
<1>5. CASE pc[c] = "mark"
  <2>1. unguarded' = TRUE
    BY <1>1, <1>5
  <2>2. \A d \in Calls : pc'[d] \in Approved => pc[d] \in Approved
    BY <1>2 DEF Others, Approved
  <2>3. LockHeld' /\ ApprovalUnused'
    BY <2>1 DEF LockHeld, ApprovalUnused
  <2>4. DecisionStands'
    BY <1>1, <1>3, <2>2 DEF Guards, DecisionStands
  <2> QED
    BY <2>3, <2>4 DEF Guards
<1> QED
  BY <1>4, <1>5

LEMMA GuardsEnvironment ==
    ASSUME Typed, AttemptsKnown, Guards,
           BusEnvironment \/ \E k \in Attempts : OperatorCancels(k) \/ WindowPasses(k)
    PROVE  Guards'
<1> USE DEF approvalVars, money, marks
<1>1. UNCHANGED <<pc, call, row, overruled>>
  BY DEF BusEnvironment, ExpiryPasses, SweepExpired, LockExpires, BlockLapses, OperatorCancels, WindowPasses
<1>2. KeptRows' = KeptRows
  BY <1>1, KeptAsBefore
<1>3. CASE UNCHANGED <<approval, lock, unguarded>>
  BY <1>1, <1>2, <1>3 DEF Guards, LockHeld, DecisionStands, ApprovalUnused
<1>4. CASE SweepExpired
  <2>1. approval = "pending" /\ UNCHANGED <<lock, unguarded>>
    BY <1>4 DEF SweepExpired
  <2>2. LockHeld'
    BY <1>1, <2>1 DEF Guards, LockHeld
  <2>3. ~overruled => KeptRows = {} /\ \A c \in Calls : pc[c] \notin Approved
    BY <2>1 DEF Guards, DecisionStands
  <2>4. DecisionStands' /\ ApprovalUnused'
    BY <1>1, <1>2, <2>3 DEF DecisionStands, ApprovalUnused
  <2> QED
    BY <2>2, <2>4 DEF Guards
<1>5. CASE LockExpires
  <2>1. lock # None /\ unguarded' = (unguarded \/ call[lock].locked) /\ UNCHANGED approval
    BY <1>5 DEF LockExpires
  <2>2. LockHeld'
    BY <1>1, <2>1 DEF Guards, LockHeld
  <2>3. DecisionStands' /\ ApprovalUnused'
    BY <1>1, <1>2, <2>1 DEF Guards, DecisionStands, ApprovalUnused
  <2> QED
    BY <2>2, <2>3 DEF Guards
<1> QED
  BY <1>3, <1>4, <1>5 DEF BusEnvironment, ExpiryPasses, BlockLapses, OperatorCancels, WindowPasses

LEMMA GuardsStep ==
    ASSUME Typed, AttemptsKnown, Guards, [Next]_vars
    PROVE  Guards'
<1>1. CASE UNCHANGED vars
  BY <1>1 DEF vars, busVars, approvalVars, marks, Guards, LockHeld, DecisionStands, ApprovalUnused,
              KeptRows
<1>2. ASSUME NEW c \in Calls, Proceed(c) PROVE Guards'
  BY <1>2, QuietBooking, QuietCancelling, QuietKeeps, GuardsDecide, GuardsLoad, GuardsSaveBooked,
     GuardsMark, GuardsDeleteLock
  DEF Proceed
<1>3. ASSUME NEW c \in Calls, BusStart(c) PROVE Guards'
  <2>1. CASE Acquire(c)
    BY <2>1, GuardsAcquire
  <2>2. CASE ReadToDecide(c)
    <3>1. Others(c) /\ UNCHANGED <<approval, overruled, lock, unguarded, row>>
          /\ pc[c] = "idle" /\ pc'[c] = "decide" /\ call'[c].locked = FALSE
      BY <2>2 DEF ReadToDecide, Others, Goto, NoCall, approvalVars, marks, Typed, TypeOK, BusTypeOK
    <3>2. Quiet(c)
      BY <3>1, KeptAsBefore DEF Quiet, Approved
    <3> QED
      BY <3>2, QuietKeeps
  <2> QED
    BY <1>3, <2>1, <2>2 DEF BusStart
<1>4. ASSUME NEW c \in Calls, NEW k \in Attempts, ReadForCancel(c, k) \/ PollOperator(c, k) PROVE Guards'
  BY <1>4, QuietStarts, QuietKeeps
<1> QED
  BY <1>1, <1>2, <1>3, <1>4, GuardsCrash, GuardsEnvironment DEF Next

-----------------------------------------------------------------------------
(* Theorems *)

LEMMA InitKnown ==
    ASSUME Init
    PROVE  IInv
<1> USE DEF Init, BusInit
<1>1. Typed
  <2>1. ticket \in [Attempts -> [state : {"none", "blocked", "lapsed", "booked", "void", "unlisted"},
                                  gone : SUBSET Seats]]
    OBVIOUS
  <2>2. row \in [Attempts -> [status : RowStatuses, total : Nat]]
    BY DEF RowStatuses
  <2>3. pc \in [Calls -> Steps] /\ call \in [Calls -> Call]
    BY NoCallTyped DEF Steps
  <2>4. cancels \in [Attempts -> Seq(Cancellation)] /\ settled \in [Attempts -> Nat]
    OBVIOUS
  <2>5. \A c \in Calls : CallKnown(c)
    BY NoCallTyped DEF CallKnown
  <2>6. approval \in ApprovalStatuses /\ overdue \in BOOLEAN /\ overruled \in BOOLEAN
    BY DEF ApprovalStatuses
  <2>7. lock \in Calls \cup {None} /\ paid \in Int /\ drift \in Int
    OBVIOUS
  <2>9. /\ refused \subseteq Attempts \cup {None} /\ unguarded \in BOOLEAN
        /\ unverified \subseteq Attempts /\ torn \subseteq Attempts \cup {None}
    OBVIOUS
  <2>8. TypeOK
    BY <2>1, <2>2, <2>3, <2>4, <2>6, <2>7, <2>9 DEF TypeOK, BusTypeOK
  <2> QED
    BY <2>5, <2>8 DEF Typed
<1>2. AttemptsKnown
  BY NoCallTyped DEF AttemptsKnown, StepKnown, AttemptKnown, AttemptsOwned, RowKnown, Of,
                     Unattached, Attempting, Cancelling, Locked, Approved
<1>3. KeptRows = {}
  BY DEF KeptRows, Kept
<1>4. LockHeld /\ DecisionStands /\ ApprovalUnused
  BY <1>3, NoCallTyped DEF LockHeld, DecisionStands, ApprovalUnused, Approved
<1> QED
  BY <1>1, <1>2, <1>4 DEF IInv

LEMMA InvStep ==
    ASSUME IInv, [Next]_vars
    PROVE  IInv'
  BY TypedStep, AttemptsStep, GuardsStep DEF IInv, Guards

THEOREM Invariance == Spec => []IInv
  BY InitKnown, InvStep, PTL DEF Spec

\* Type correctness of bus bookings and cancellations, for any seats, attempts, calls,
\* prices and number of cancellation documents.
THEOREM TypesKept == Spec => []TypeOK
<1>1. IInv => TypeOK
  BY DEF IInv, Typed
<1> QED
  BY <1>1, Invariance, PTL

\* A ticket whose answer was lost is found before its debit is refunded: a row says
\* FAILED only of a key that is not booked, unless the look-up could not decide.
THEOREM LostTicketsAreFound == Spec => []LostTicketIsFound
<1>1. IInv => LostTicketIsFound
  BY DEF IInv, AttemptsKnown, RowKnown, LostTicketIsFound, Issued
<1> QED
  BY <1>1, Invariance, PTL

\* Until decisions overrule each other a booking stands on an approval; while the lock
\* and the mark hold as well, on one that no other booking has used.
THEOREM BookingsAreApproved == Spec => []OneApprovedBooking
<1>1. ASSUME IInv PROVE OneApprovedBooking
  <2>1. BookingIsApproved
    BY <1>1 DEF IInv, DecisionStands, BookingIsApproved, KeptRows
  <2>2. ApprovalUsedOnce
    <3> SUFFICES ASSUME ~unguarded, ~overruled
                 PROVE  Cardinality(KeptRows) <= 1
      BY DEF ApprovalUsedOnce, KeptRows
    <3>1. \A k, l \in KeptRows : k = l
      BY <1>1 DEF IInv, ApprovalUnused
    <3>2. CASE KeptRows = {}
      BY <3>2, FS_EmptySet
    <3>3. CASE KeptRows # {}
      <4>1. PICK k : KeptRows = {k}
        BY <3>1, <3>3
      <4> QED
        BY <4>1, FS_Singleton
    <3> QED
      BY <3>2, <3>3
  <2> QED
    BY <2>1, <2>2 DEF OneApprovedBooking
<1> QED
  BY <1>1, Invariance, PTL

-----------------------------------------------------------------------------
(* Money *)

\* A call holds what it debited: the approved total, until an operator has set a
\* new fare, and what its row says once the row is there.
HeldKnown(c) ==
    /\ pc[c] \notin Untold => call[c].held = 0
    /\ pc[c] \in {"block", "fare"} => call[c].held = Total
    /\ pc[c] \in {"book", "check", "fail", "save"} => row[Of(c)].total = call[c].held

RowTotal == [k \in Attempts |-> row[k].total]
Held     == [c \in Calls |-> call[c].held]

\* BookedIsPaid, as sums over functions.
Books ==
    torn = {} /\ refused = {} =>
        paid = drift + SumOf(RowTotal, KeptRows) + SumOf(Held, Calls)

MoneyKnown == (\A c \in Calls : HeldKnown(c)) /\ Books

LEMMA MoneyTyped ==
    ASSUME Typed
    PROVE  /\ \A c \in Calls : call[c].held \in Nat /\ Held[c] = call[c].held
           /\ \A k \in Attempts : row[k].total \in Nat /\ RowTotal[k] = row[k].total
           /\ IsFiniteSet(Calls) /\ IsFiniteSet(KeptRows) /\ KeptRows \subseteq Attempts
           /\ SumOf(Held, Calls) \in Int /\ SumOf(RowTotal, KeptRows) \in Int
           /\ paid \in Int /\ drift \in Int
<1>1. /\ \A c \in Calls : call[c].held \in Nat
      /\ \A k \in Attempts : row[k].total \in Nat
      /\ paid \in Int /\ drift \in Int
  BY DEF Typed, TypeOK, BusTypeOK, CallKnown
<1>2. /\ \A c \in Calls : Held[c] = call[c].held
      /\ \A k \in Attempts : RowTotal[k] = row[k].total
  BY DEF Held, RowTotal
<1>3. IsFiniteSet(Calls) /\ IsFiniteSet(KeptRows) /\ KeptRows \subseteq Attempts
  BY BusAssumption, FS_Subset DEF KeptRows
<1>4. SumOf(Held, Calls) \in Int /\ SumOf(RowTotal, KeptRows) \in Int
  BY <1>1, <1>2, <1>3, SumType
<1> QED
  BY <1>1, <1>2, <1>3, <1>4

\* The calls of the property are functions of a call and of a row.
LEMMA BooksArePaid ==
    ASSUME Typed
    PROVE  Books <=> BookedIsPaid
<1>0. /\ IsFiniteSet(Calls) /\ \A c \in Calls : Held[c] \in Int
      /\ IsFiniteSet(KeptRows) /\ \A k \in KeptRows : RowTotal[k] \in Int
  BY MoneyTyped
<1>1. PICK g : Adds(Held, Calls, g) /\ SumOf(Held, Calls) = g[Calls]
  BY <1>0, SumIs
<1>2. PICK h : h = CHOOSE f : f = [s \in SUBSET Calls |->
                                     IF s = {} THEN 0 ELSE call[First(s)].held + f[s \ {First(s)}]]
  OBVIOUS
<1>3. \A f : Adds(Held, Calls, f) <=>
             f = [s \in SUBSET Calls |->
                    IF s = {} THEN 0 ELSE call[First(s)].held + f[s \ {First(s)}]]
  <2>1. \A s \in SUBSET Calls : s # {} => Held[First(s)] = call[First(s)].held
    BY FirstOf DEF Held
  <2> QED
    BY <2>1 DEF Adds
<1>4. Adds(Held, Calls, h)
  BY <1>1, <1>2, <1>3
<1>5. MapThenSumSet(LAMBDA c : call[c].held, Calls) = h[Calls]
  BY <1>2 DEF MapThenSumSet, MapThenFoldSet, First
<1>6. h[Calls] = SumOf(Held, Calls)
  BY <1>1, <1>4, MoneyTyped, AddsDetermined
<1>11. PICK G : Adds(RowTotal, KeptRows, G) /\ SumOf(RowTotal, KeptRows) = G[KeptRows]
  BY <1>0, SumIs
<1>12. PICK H : H = CHOOSE f : f = [s \in SUBSET KeptRows |->
                                     IF s = {} THEN 0 ELSE row[First(s)].total + f[s \ {First(s)}]]
  OBVIOUS
<1>13. \A f : Adds(RowTotal, KeptRows, f) <=>
             f = [s \in SUBSET KeptRows |->
                    IF s = {} THEN 0 ELSE row[First(s)].total + f[s \ {First(s)}]]
  <2>1. \A s \in SUBSET KeptRows : s # {} => RowTotal[First(s)] = row[First(s)].total
    BY FirstOf DEF RowTotal, KeptRows
  <2> QED
    BY <2>1 DEF Adds
<1>14. Adds(RowTotal, KeptRows, H)
  BY <1>11, <1>12, <1>13
<1>15. MapThenSumSet(LAMBDA k : row[k].total, KeptRows) = H[KeptRows]
  BY <1>12 DEF MapThenSumSet, MapThenFoldSet, First
<1>16. H[KeptRows] = SumOf(RowTotal, KeptRows)
  BY <1>11, <1>14, MoneyTyped, AddsDetermined
<1>17. MapThenSumSet(LAMBDA k : row[k].total, {k \in Attempts : row[k].status \in Kept})
         = MapThenSumSet(LAMBDA k : row[k].total, KeptRows)
  BY DEF KeptRows
<1> QED
  BY <1>5, <1>6, <1>15, <1>16, <1>17 DEF Books, BookedIsPaid

\* A step that takes what it posts from what its call holds.
Even(c) ==
    /\ \A d \in Calls \ {c} : /\ pc'[d] = pc[d] /\ call'[d].attempt = call[d].attempt
                              /\ call'[d].held = call[d].held
    /\ \A k \in Attempts : row'[k].total = row[k].total \/ (pc[c] = "create" /\ k = Of(c))
    /\ torn \subseteq torn' /\ refused \subseteq refused'
    /\ KeptRows' = KeptRows
    /\ \/ torn' # {} \/ refused' # {}
       \/ paid' - drift' - call'[c].held = paid - drift - call[c].held

LEMMA HeldByOthers ==
    ASSUME Typed, AttemptsKnown, \A d \in Calls : HeldKnown(d), NEW c \in Calls, HeldKnown(c)',
           \A d \in Calls \ {c} : /\ pc'[d] = pc[d] /\ call'[d].attempt = call[d].attempt
                                  /\ call'[d].held = call[d].held,
           \A k \in Attempts : row'[k].total = row[k].total \/ (pc[c] = "create" /\ k = Of(c))
    PROVE  \A d \in Calls : HeldKnown(d)'
<1> SUFFICES ASSUME NEW d \in Calls, d # c PROVE HeldKnown(d)'
  OBVIOUS
<1>1. /\ pc'[d] = pc[d] /\ Of(d)' = Of(d) /\ call'[d].held = call[d].held
      /\ HeldKnown(d) /\ StepKnown(d) /\ StepKnown(c) /\ AttemptsOwned
  BY DEF Of, AttemptsKnown
<1>2. pc[d] \in {"book", "check", "fail", "save"} => row'[Of(d)].total = row[Of(d)].total
  BY <1>1 DEF AttemptsOwned, StepKnown, Attempting
<1> QED
  BY <1>1, <1>2 DEF HeldKnown

LEMMA EvenKeeps ==
    ASSUME Typed, Typed', AttemptsKnown, MoneyKnown, NEW c \in Calls, Even(c), HeldKnown(c)'
    PROVE  MoneyKnown'
<1>1. \A d \in Calls : HeldKnown(d)'
  BY HeldByOthers DEF Even, MoneyKnown
<1>2. Books'
  <2> SUFFICES ASSUME torn' = {}, refused' = {}
               PROVE  paid' = drift' + SumOf(RowTotal', KeptRows') + SumOf(Held', Calls)
    BY DEF Books
  <2>1. paid = drift + SumOf(RowTotal, KeptRows) + SumOf(Held, Calls)
    BY DEF Even, MoneyKnown, Books
  <2>2. PICK v : v = RowTotal
    OBVIOUS
  <2>3. PICK w : w = RowTotal'
    OBVIOUS
  <2>4. PICK h : h = Held
    OBVIOUS
  <2>5. PICK i : i = Held'
    OBVIOUS
  <2>6. /\ IsFiniteSet(KeptRows) /\ KeptRows \subseteq Attempts /\ IsFiniteSet(Calls)
        /\ SumOf(v, KeptRows) \in Int /\ SumOf(h, Calls) \in Int
        /\ \A d \in Calls : h[d] = call[d].held /\ h[d] \in Int
        /\ \A k \in Attempts : v[k] = row[k].total /\ v[k] \in Int
        /\ paid \in Int /\ drift \in Int
    BY <2>2, <2>4, MoneyTyped
  <2>7. /\ \A d \in Calls : i[d] = call'[d].held /\ i[d] \in Int
        /\ \A k \in Attempts : w[k] = row'[k].total /\ w[k] \in Int
        /\ paid' \in Int /\ drift' \in Int
    <3>1. /\ \A d \in Calls : call'[d].held \in Nat
          /\ \A k \in Attempts : row'[k].total \in Nat
          /\ paid' \in Int /\ drift' \in Int
      BY DEF Typed, TypeOK, BusTypeOK, CallKnown
    <3> QED
      BY <2>3, <2>5, <3>1 DEF Held, RowTotal
  <2>8. \A k \in KeptRows : w[k] = v[k]
    <3>1. pc[c] = "create" => Of(c) \notin KeptRows
      BY DEF AttemptsKnown, AttemptKnown, KeptRows, Kept
    <3> QED
      BY <2>6, <2>7, <3>1 DEF Even
  <2>9. SumOf(w, KeptRows) = SumOf(v, KeptRows)
    BY <2>6, <2>7, <2>8, SumSame
  <2>10. SumOf(i, Calls) = SumOf(h, Calls) + i[c] - h[c]
    <3>1. \A d \in Calls \ {c} : i[d] = h[d]
      BY <2>6, <2>7 DEF Even
    <3> QED
      BY <2>6, <2>7, <3>1, SumChanged
  <2>11. paid' - drift' - i[c] = paid - drift - h[c]
    BY <2>6, <2>7 DEF Even
  <2>12. /\ KeptRows' = KeptRows /\ i[c] \in Int /\ h[c] \in Int
    BY <2>6, <2>7 DEF Even
  <2> QED
    BY <2>1, <2>2, <2>3, <2>4, <2>5, <2>6, <2>7, <2>9, <2>10, <2>11, <2>12
<1> QED
  BY <1>1, <1>2 DEF MoneyKnown

\* A call that ends, or that has nothing in hand.
LEMMA LeaveHolds ==
    ASSUME Typed, NEW c \in Calls, Leave(c)
    PROVE  HeldKnown(c)' /\ call'[c].held = 0
<1>1. call' = [call EXCEPT ![c] = [NoCall EXCEPT !.locked = call[c].locked]]
  BY DEF Leave
<1>2. call'[c].held = 0
  BY <1>1 DEF Typed, TypeOK, BusTypeOK, NoCall
<1> QED
  BY <1>2, LeaveTyped DEF HeldKnown, Untold

LEMMA EvenBooking ==
    ASSUME Typed, AttemptsKnown, MoneyKnown, NEW c \in Calls, BusProceed(c), ~SaveBooked(c)
    PROVE  Even(c) /\ HeldKnown(c)'
<1> USE DEF approvalVars, money, marks
<1>0. /\ row \in [Attempts -> [status : RowStatuses, total : Nat]]
      /\ pc \in [Calls -> Steps] /\ call \in [Calls -> Call]
      /\ HeldKnown(c) /\ StepKnown(c) /\ AttemptKnown(c)
      /\ call[c].held \in Nat /\ paid \in Int /\ drift \in Int /\ Total \in Nat
  BY TotalIsNat DEF Typed, TypeOK, BusTypeOK, CallKnown, AttemptsKnown, MoneyKnown
<1>1. KeptRows' = KeptRows
  <2>1. CASE Decide(c) \/ Load(c) \/ MarkApproval(c) \/ DeleteLock(c)
    BY <2>1, KeptAsBefore DEF Decide, Load, MarkApproval, DeleteLock
  <2>2. CASE ~(Decide(c) \/ Load(c) \/ MarkApproval(c) \/ DeleteLock(c))
    BY <2>2, QuietBooking DEF Quiet
  <2> QED
    BY <2>1, <2>2
\* It ends: with a posting to undo, or with nothing in hand.
<1>2. ASSUME Leave(c), UNCHANGED row, torn \subseteq torn', refused \subseteq refused',
             \/ torn' # {} \/ refused' # {}
             \/ paid' - drift' = paid - drift - call[c].held
      PROVE  Even(c) /\ HeldKnown(c)'
  <2>1. HeldKnown(c)' /\ call'[c].held = 0
    BY <1>2, LeaveHolds
  <2>2. \A d \in Calls \ {c} : pc'[d] = pc[d] /\ call'[d] = call[d]
    BY <1>2, LeaveTyped
  <2>3. paid' - drift' = paid - drift - call[c].held
          => paid' - drift' - call'[c].held = paid - drift - call[c].held
    BY <1>0, <2>1
  <2> QED
    BY <1>1, <1>2, <2>1, <2>2, <2>3 DEF Even
\* It goes on with what it has.
<1>3. ASSUME NEW step \in Steps, Goto(c, step), UNCHANGED <<call, paid, drift, refused, torn>>,
             HeldKnown(c)',
             \A k \in Attempts : row'[k].total = row[k].total \/ (pc[c] = "create" /\ k = Of(c))
      PROVE  Even(c) /\ HeldKnown(c)'
  BY <1>0, <1>1, <1>3 DEF Even, Goto
<1>4. ASSUME NEW step \in Steps, Goto(c, step), UNCHANGED call
      PROVE  pc'[c] = step /\ call'[c].held = call[c].held /\ Of(c)' = Of(c)
  BY <1>0, <1>4 DEF Goto, Of
<1>5. CASE Decide(c)
  <2>1. call[c].held = 0
    BY <1>0, <1>5 DEF Decide, HeldKnown, Untold
  <2> QED
    BY <1>0, <1>2, <1>5, <2>1 DEF Decide
<1>6. CASE Load(c)
  <2>1. call[c].held = 0 /\ pc[c] = "load"
    BY <1>0, <1>6 DEF Load, HeldKnown, Untold
  <2>2. CASE Leave(c)
    BY <1>0, <1>2, <1>6, <2>1, <2>2 DEF Load
  <2>3. CASE Goto(c, "trip") /\ UNCHANGED call
    <3>1. HeldKnown(c)'
      BY <1>4, <2>1, <2>3 DEF HeldKnown, Untold, Steps
    <3> QED
      BY <1>3, <1>6, <2>3, <3>1 DEF Load, Steps
  <2> QED
    BY <1>6, <2>2, <2>3 DEF Load
<1>7. CASE CheckTrip(c)
  <2>1. call[c].held = 0 /\ pc[c] = "trip"
    BY <1>0, <1>7 DEF CheckTrip, HeldKnown, Untold
  <2>2. CASE Leave(c)
    BY <1>0, <1>2, <1>7, <2>1, <2>2 DEF CheckTrip
  <2>3. CASE Goto(c, "debit") /\ UNCHANGED call
    <3>1. HeldKnown(c)'
      BY <1>4, <2>1, <2>3 DEF HeldKnown, Untold, Steps
    <3> QED
      BY <1>3, <1>7, <2>3, <3>1 DEF CheckTrip, Steps
  <2> QED
    BY <1>7, <2>2, <2>3 DEF CheckTrip
<1>8. CASE Debit(c)
  <2>1. call[c].held = 0 /\ pc[c] = "debit" /\ UNCHANGED <<row, drift, refused, torn>>
    BY <1>0, <1>8 DEF Debit, HeldKnown, Untold
  <2>2. CASE Leave(c) /\ UNCHANGED paid
    BY <1>0, <1>2, <2>1, <2>2
  <2>3. CASE /\ call' = [call EXCEPT ![c].held = Total] /\ Goto(c, "block") /\ paid' = paid + Total
    <3>1. /\ pc'[c] = "block" /\ call'[c].held = Total
          /\ \A d \in Calls \ {c} : pc'[d] = pc[d] /\ call'[d] = call[d]
      BY <1>0, <2>3 DEF Goto, Call
    <3>2. HeldKnown(c)'
      BY <3>1 DEF HeldKnown, Untold
    <3>3. paid' - drift' - call'[c].held = paid - drift - call[c].held
      BY <1>0, <2>1, <2>3, <3>1
    <3> QED
      BY <1>1, <2>1, <3>1, <3>2, <3>3 DEF Even
  <2> QED
    BY <1>8, <2>2, <2>3 DEF Debit
<1>9. CASE Block(c)
  <2>1. call[c].held = Total /\ pc[c] = "block" /\ UNCHANGED <<row, paid, drift, refused, torn>>
    BY <1>0, <1>9 DEF Block, HeldKnown
  <2>2. ASSUME NEW k \in Attempts, NEW step \in {"fare", "create"}, Goto(c, step),
               call' = [call EXCEPT ![c].attempt = k]
        PROVE  Even(c) /\ HeldKnown(c)'
    <3>1. /\ pc'[c] = step /\ call'[c].held = Total
          /\ \A d \in Calls \ {c} : pc'[d] = pc[d] /\ call'[d] = call[d]
      BY <1>0, <2>1, <2>2 DEF Goto, Call
    <3>2. HeldKnown(c)'
      BY <3>1 DEF HeldKnown, Untold
    <3> QED
      BY <1>1, <2>1, <3>1, <3>2 DEF Even
  <2>3. CASE Goto(c, "refund") /\ UNCHANGED call
    <3>1. HeldKnown(c)'
      BY <1>4, <2>3 DEF HeldKnown, Untold, Steps
    <3> QED
      BY <1>3, <2>1, <2>3, <3>1 DEF Steps
  <2> QED
    BY <1>9, <2>2, <2>3 DEF Block
<1>10. CASE TakeFare(c)
  <2>1. call[c].held = Total /\ pc[c] = "fare" /\ UNCHANGED <<row, drift, refused, torn>>
    BY <1>0, <1>10 DEF TakeFare, HeldKnown
  <2>2. ASSUME NEW price \in Prices, paid' = paid + price - Total, Goto(c, "create"),
               call' = [call EXCEPT ![c].held = price]
        PROVE  Even(c) /\ HeldKnown(c)'
    <3>1. /\ pc'[c] = "create" /\ call'[c].held = price /\ price \in Nat
          /\ \A d \in Calls \ {c} : pc'[d] = pc[d] /\ call'[d] = call[d]
      BY <1>0, <2>2, BusAssumption DEF Goto, Call
    <3>2. HeldKnown(c)'
      BY <3>1 DEF HeldKnown, Untold
    <3>3. paid' - drift' - call'[c].held = paid - drift - call[c].held
      BY <1>0, <2>1, <2>2, <3>1
    <3> QED
      BY <1>1, <2>1, <3>1, <3>2, <3>3 DEF Even
  <2>3. CASE Goto(c, "refund") /\ UNCHANGED <<paid, call>>
    <3>1. HeldKnown(c)'
      BY <1>4, <2>3 DEF HeldKnown, Untold, Steps
    <3> QED
      BY <1>3, <2>1, <2>3, <3>1 DEF Steps
  <2> QED
    BY <1>10, <2>2, <2>3 DEF TakeFare
<1>11. CASE Refund(c)
  <2>1. Leave(c) /\ UNCHANGED <<row, torn>> /\ refused \subseteq refused'
    BY <1>11 DEF Refund
  <2>2. \/ refused' # {}
        \/ paid' = paid - Total /\ drift' = drift + call[c].held - Total
    BY <1>11 DEF Refund, RefundOnFailure
  <2>3. refused' # {} \/ paid' - drift' = paid - drift - call[c].held
    BY <1>0, <2>2
  <2> QED
    BY <1>2, <2>1, <2>3
<1>12. CASE CreateRow(c)
  <2>1. pc[c] = "create" /\ UNCHANGED <<paid, drift, refused>> /\ torn \subseteq torn'
    BY <1>12 DEF CreateRow
  <2>2. CASE torn' = torn \cup {Of(c)} /\ Leave(c) /\ UNCHANGED row
    BY <1>2, <2>1, <2>2
  <2>3. CASE /\ row' = [row EXCEPT ![Of(c)] = [status |-> "BLOCKED", total |-> call[c].held]]
             /\ Goto(c, "book") /\ UNCHANGED <<torn, call>>
    <3>1. Of(c) \in Attempts
      BY <1>0, <2>1 DEF StepKnown, Attempting
    <3>2. row'[Of(c)].total = call[c].held /\ \A k \in Attempts \ {Of(c)} : row'[k].total = row[k].total
      BY <1>0, <2>3, <3>1
    <3>3. HeldKnown(c)'
      BY <1>4, <2>3, <3>2 DEF HeldKnown, Untold, Steps
    <3> QED
      BY <1>3, <2>1, <2>3, <3>2, <3>3 DEF Steps
  <2> QED
    BY <1>12, <2>2, <2>3 DEF CreateRow
<1>13. CASE Book(c) \/ Check(c)
  <2>1. /\ UNCHANGED <<row, paid, drift, refused, torn, call>>
        /\ pc[c] \in {"book", "check"} /\ row[Of(c)].total = call[c].held
    BY <1>0, <1>13 DEF Book, Check, HeldKnown
  <2>2. PICK step \in {"save", "check", "fail"} : Goto(c, step)
    BY <1>13 DEF Book, Check
  <2>3. HeldKnown(c)'
    BY <1>4, <2>1, <2>2 DEF HeldKnown, Untold, Steps
  <2> QED
    BY <1>3, <2>1, <2>2, <2>3 DEF Steps
<1>14. CASE MarkFailed(c)
  <2>1. /\ UNCHANGED <<paid, drift, refused, torn, call>> /\ Goto(c, "refund")
        /\ \A k \in Attempts : row'[k].total = row[k].total
    BY <1>0, <1>14 DEF MarkFailed
  <2>2. HeldKnown(c)'
    BY <1>4, <2>1 DEF HeldKnown, Untold, Steps
  <2> QED
    BY <1>3, <2>1, <2>2 DEF Steps
<1>15. CASE MarkApproval(c)
  <2>1. call[c].held = 0
    BY <1>0, <1>15 DEF MarkApproval, HeldKnown, Untold
  <2> QED
    BY <1>0, <1>2, <1>15, <2>1 DEF MarkApproval
<1>16. CASE CheckLock(c) \/ DeleteLock(c)
  <2>1. /\ call[c].held = 0 /\ pc[c] \in {"unlock", "delete"}
        /\ UNCHANGED <<row, paid, drift, refused, torn>>
    BY <1>0, <1>16 DEF CheckLock, DeleteLock, HeldKnown, Untold
  <2>2. CASE Goto(c, "delete") /\ UNCHANGED call
    <3>1. HeldKnown(c)'
      BY <1>4, <2>1, <2>2 DEF HeldKnown, Untold, Steps
    <3> QED
      BY <1>3, <2>1, <2>2, <3>1 DEF Steps
  <2>3. CASE Goto(c, "idle") /\ call' = [call EXCEPT ![c] = NoCall]
    <3>1. /\ pc'[c] = "idle" /\ call'[c].held = 0
          /\ \A d \in Calls \ {c} : pc'[d] = pc[d] /\ call'[d] = call[d]
      BY <1>0, <2>3 DEF Goto, NoCall
    <3>2. HeldKnown(c)'
      BY <3>1 DEF HeldKnown, Untold
    <3> QED
      BY <1>1, <2>1, <3>1, <3>2 DEF Even
  <2> QED
    BY <1>16, <2>2, <2>3 DEF CheckLock, DeleteLock
<1> QED
  BY <1>5, <1>6, <1>7, <1>8, <1>9, <1>10, <1>11, <1>12, <1>13, <1>14, <1>15, <1>16 DEF BusProceed

\* The booking service saves the row as BOOKED: what the call held is now what was
\* paid for the row.
LEMMA MoneySaveBooked ==
    ASSUME Typed, Typed', AttemptsKnown, MoneyKnown, NEW c \in Calls, SaveBooked(c)
    PROVE  MoneyKnown'
<1> USE DEF approvalVars, money, marks
<1>0. /\ row \in [Attempts -> [status : RowStatuses, total : Nat]]
      /\ pc \in [Calls -> Steps] /\ call \in [Calls -> Call]
      /\ HeldKnown(c) /\ StepKnown(c) /\ AttemptKnown(c)
      /\ \A d \in Calls : call[d] \in Call
  BY DEF Typed, TypeOK, BusTypeOK, AttemptsKnown, MoneyKnown
<1>1. PICK k \in Attempts : k = Of(c)
  BY <1>0 DEF SaveBooked, StepKnown, Attempting
<1>2. /\ pc[c] = "save" /\ row[k].status = "BLOCKED" /\ row[k].total = call[c].held
      /\ UNCHANGED <<paid, drift, refused, torn>>
  BY <1>0, <1>1 DEF SaveBooked, AttemptKnown, HeldKnown
<1>3. /\ row'[k].status = "BOOKED" /\ row'[k].total = row[k].total
      /\ \A l \in Attempts \ {k} : row'[l] = row[l]
  BY <1>0, <1>1 DEF SaveBooked
<1>4. /\ pc'[c] = "mark" /\ call'[c].held = 0
      /\ \A d \in Calls \ {c} : /\ pc'[d] = pc[d] /\ call'[d].attempt = call[d].attempt
                                /\ call'[d].held = call[d].held
  <2>1. call' = Outdated(c, k, [call[c] EXCEPT !.held = 0]) /\ Goto(c, "mark")
    BY <1>1 DEF SaveBooked
  <2>2. call'[c] = [call[c] EXCEPT !.held = 0]
    BY <2>1 DEF Outdated
  <2>3. \A d \in Calls \ {c} : call'[d] = call[d] \/ call'[d] = [call[d] EXCEPT !.stale = TRUE]
    BY <2>1 DEF Outdated
  <2>4. \A d \in Calls \ {c} : call'[d].attempt = call[d].attempt /\ call'[d].held = call[d].held
    <3> SUFFICES ASSUME NEW d \in Calls \ {c}
                 PROVE  call'[d].attempt = call[d].attempt /\ call'[d].held = call[d].held
      OBVIOUS
    <3>1. call[d] \in Call
      BY <1>0
    <3>2. CASE call'[d] = call[d]
      BY <3>2
    <3>3. CASE call'[d] = [call[d] EXCEPT !.stale = TRUE]
      BY <3>1, <3>3 DEF Call
    <3> QED
      BY <2>3, <3>2, <3>3
  <2> QED
    BY <1>0, <2>1, <2>2, <2>4 DEF Goto, Call
<1>5. \A d \in Calls : HeldKnown(d)'
  <2>1. HeldKnown(c)'
    BY <1>4 DEF HeldKnown, Untold
  <2> QED
    BY <1>3, <1>4, <2>1, HeldByOthers DEF MoneyKnown
<1>6. KeptRows' = KeptRows \cup {k} /\ k \notin KeptRows
  <2>1. "BOOKED" \in Kept /\ "BLOCKED" \notin Kept
    BY DEF Kept, RowStatuses
  <2> QED
    BY <1>2, <1>3, <2>1 DEF KeptRows
<1>7. Books'
  <2> SUFFICES ASSUME torn = {}, refused = {}
               PROVE  paid' = drift' + SumOf(RowTotal', KeptRows') + SumOf(Held', Calls)
    BY <1>2 DEF Books
  <2>1. paid = drift + SumOf(RowTotal, KeptRows) + SumOf(Held, Calls)
    BY DEF MoneyKnown, Books
  <2>2. PICK v : v = RowTotal
    OBVIOUS
  <2>3. RowTotal' = v
    BY <1>3, <2>2 DEF RowTotal
  <2>4. PICK h : h = Held
    OBVIOUS
  <2>5. PICK i : i = Held'
    OBVIOUS
  <2>6. /\ IsFiniteSet(KeptRows) /\ KeptRows \subseteq Attempts /\ IsFiniteSet(Calls)
        /\ SumOf(v, KeptRows) \in Int /\ SumOf(h, Calls) \in Int
        /\ \A d \in Calls : h[d] = call[d].held /\ h[d] \in Int
        /\ \A l \in Attempts : v[l] = row[l].total /\ v[l] \in Int
        /\ paid \in Int /\ drift \in Int
    BY <2>2, <2>4, MoneyTyped
  <2>7. /\ \A d \in Calls : i[d] = call'[d].held
        /\ \A d \in Calls \ {c} : i[d] = h[d]
        /\ \A d \in Calls : i[d] \in Int
        /\ i[c] = 0
    BY <1>4, <2>5, <2>6 DEF Held
  <2>8. SumOf(i, Calls) = SumOf(h, Calls) + i[c] - h[c]
    <3>1. \A d \in Calls : h[d] \in Int /\ i[d] \in Int
      BY <2>6, <2>7
    <3>2. IsFiniteSet(Calls) /\ \A d \in Calls \ {c} : i[d] = h[d]
      BY <2>6, <2>7
    <3> QED
      BY <3>1, <3>2, SumChanged
  <2>9. SumOf(v, KeptRows \cup {k}) = v[k] + SumOf(v, KeptRows)
    BY <1>6, <2>6, SumAdd
  <2>10. h[c] = v[k] /\ v[k] \in Int
    BY <1>2, <2>6
  <2> QED
    BY <1>2, <1>6, <2>1, <2>2, <2>3, <2>4, <2>5, <2>6, <2>7, <2>8, <2>9, <2>10
<1> QED
  BY <1>5, <1>7 DEF MoneyKnown

\* Cancellations have nothing in hand and change no total.
LEMMA EvenCancelling ==
    ASSUME Typed, AttemptsKnown, MoneyKnown, NEW c \in Calls,
           \/ ReadSeats(c) \/ CancelTicket(c) \/ CreateCancellation(c) \/ CreditRefund(c)
           \/ SaveCancellation(c) \/ SaveCancellationFails(c) \/ Transition(c)
           \/ FetchTicket(c) \/ FetchFails(c)
    PROVE  Even(c) /\ HeldKnown(c)'
<1> USE DEF cancelVars, approvalVars, money, marks
<1>0. /\ row \in [Attempts -> [status : RowStatuses, total : Nat]]
      /\ pc \in [Calls -> Steps] /\ call \in [Calls -> Call] /\ HeldKnown(c)
      /\ paid \in Int /\ drift \in Int /\ \A d \in Calls : call[d] \in Call
  BY DEF Typed, TypeOK, BusTypeOK, MoneyKnown
<1>1. KeptRows' = KeptRows
  BY QuietCancelling DEF Quiet
<1>2. /\ pc[c] \in Cancelling /\ UNCHANGED <<paid, drift>>
      /\ torn \subseteq torn' /\ refused \subseteq refused'
  BY DEF ReadSeats, CancelTicket, CreateCancellation, CreditRefund, SaveCancellation,
         SaveCancellationFails, Transition, FetchTicket, FetchFails, Cancelling
<1>3. call[c].held = 0
  BY <1>0, <1>2 DEF HeldKnown, Cancelling, Untold
<1>4. \A k \in Attempts : row'[k].total = row[k].total
  <2>1. CASE Transition(c)
    <3>1. row' = row \/ row' = [row EXCEPT ![Of(c)].status = NewStatus(c)]
      BY <2>1 DEF Transition
    <3> QED
      BY <1>0, <3>1
  <2>2. CASE ~Transition(c)
    BY <2>2 DEF ReadSeats, CancelTicket, CreateCancellation, CreditRefund, SaveCancellation,
                   SaveCancellationFails, FetchTicket, FetchFails
  <2> QED
    BY <2>1, <2>2
\* What the calls hold stays what it is.
<1>5. ASSUME call'[c].held = 0, pc'[c] \in Cancelling \cup {"idle", "unlock"},
             \A d \in Calls \ {c} : /\ pc'[d] = pc[d] /\ call'[d].attempt = call[d].attempt
                                   /\ call'[d].held = call[d].held
      PROVE  Even(c) /\ HeldKnown(c)'
  <2>1. HeldKnown(c)'
    BY <1>5 DEF HeldKnown, Cancelling, Untold
  <2> QED
    BY <1>0, <1>1, <1>2, <1>3, <1>4, <1>5, <2>1 DEF Even
<1>6. CASE Leave(c)
  BY <1>5, <1>6, LeaveTyped, LeaveHolds
<1>7. CASE CancelTicket(c) \/ FetchTicket(c)
  <2> SUFFICES ASSUME ~Leave(c) PROVE Even(c) /\ HeldKnown(c)'
    BY <1>6
  <2>1. PICK amount : call' = [call EXCEPT ![c].amount = amount]
    BY <1>7 DEF CancelTicket, FetchTicket
  <2>2. Goto(c, "createRow")
    BY <1>7 DEF CancelTicket, FetchTicket
  <2>3. call'[c].held = 0 /\ \A d \in Calls \ {c} : call'[d] = call[d]
    BY <1>0, <1>3, <2>1 DEF Call
  <2> QED
    BY <1>0, <1>5, <2>2, <2>3 DEF Goto, Cancelling
<1>8. CASE CreateCancellation(c) \/ Transition(c)
  <2>1. PICK step \in {"credit", "idle"} : Goto(c, step)
    BY <1>8 DEF CreateCancellation, Transition
  <2>2. PICK n, memory : /\ call' = Outdated(c, Of(c), memory)
                         /\ memory = NoCall \/ memory = [call[c] EXCEPT !.index = n]
    BY <1>8 DEF CreateCancellation, Transition
  <2>3. call'[c].held = 0
    BY <1>0, <1>3, <2>2 DEF Outdated, Call, NoCall
  <2>4. \A d \in Calls \ {c} : call'[d] = call[d] \/ call'[d] = [call[d] EXCEPT !.stale = TRUE]
    BY <2>2 DEF Outdated
  <2>5. \A d \in Calls \ {c} : call'[d].attempt = call[d].attempt /\ call'[d].held = call[d].held
    <3> SUFFICES ASSUME NEW d \in Calls \ {c}
                 PROVE  call'[d].attempt = call[d].attempt /\ call'[d].held = call[d].held
      OBVIOUS
    <3>1. call[d] \in Call
      BY <1>0
    <3>2. CASE call'[d] = call[d]
      BY <3>2
    <3>3. CASE call'[d] = [call[d] EXCEPT !.stale = TRUE]
      BY <3>1, <3>3 DEF Call
    <3> QED
      BY <2>4, <3>2, <3>3
  <2> QED
    BY <1>0, <1>5, <2>1, <2>3, <2>5 DEF Goto, Cancelling
<1>9. CASE CreditRefund(c)
  <2>1. PICK outcome : call' = [call EXCEPT ![c].outcome = outcome]
    BY <1>9 DEF CreditRefund
  <2>2. call'[c].held = 0 /\ \A d \in Calls \ {c} : call'[d] = call[d]
    BY <1>0, <1>3, <2>1 DEF Call
  <2> QED
    BY <1>0, <1>5, <1>9, <2>2 DEF CreditRefund, Goto, Cancelling
<1>10. CASE SaveCancellation(c)
  BY <1>0, <1>3, <1>5, <1>10 DEF SaveCancellation, Goto, Cancelling
<1>11. CASE ReadSeats(c)
  <2>1. ASSUME NEW seats, NEW covered, Goto(c, "cancelTicket"),
               call' = [call EXCEPT ![c].seats = seats, ![c].covered = covered]
        PROVE  Even(c) /\ HeldKnown(c)'
    <3>1. call'[c].held = 0 /\ \A d \in Calls \ {c} : call'[d] = call[d]
      BY <1>0, <1>3, <2>1 DEF Call
    <3> QED
      BY <1>0, <1>5, <2>1, <3>1 DEF Goto, Cancelling
  <2> QED
    BY <1>6, <1>11, <2>1 DEF ReadSeats
<1>12. CASE SaveCancellationFails(c)
  <2>1. CASE call' = [call EXCEPT ![c].outcome = "MISFILED"] /\ UNCHANGED pc
    <3>1. call'[c].held = 0 /\ \A d \in Calls \ {c} : call'[d] = call[d]
      BY <1>0, <1>3, <2>1 DEF Call
    <3> QED
      BY <1>0, <1>2, <1>5, <2>1, <3>1
  <2> QED
    BY <1>6, <1>12, <2>1 DEF SaveCancellationFails
<1> QED
  BY <1>6, <1>7, <1>8, <1>9, <1>10, <1>11, <1>12 DEF FetchFails

\* A call starts with nothing in hand; one that dies with something tears its attempt.
LEMMA EvenStarts ==
    ASSUME Typed, AttemptsKnown, MoneyKnown, NEW c \in Calls,
           \/ BusStart(c) \/ Crash(c)
           \/ \E k \in Attempts : ReadForCancel(c, k) \/ PollOperator(c, k)
    PROVE  Even(c) /\ HeldKnown(c)'
<1> USE DEF approvalVars, money, marks
<1>0. /\ pc \in [Calls -> Steps] /\ call \in [Calls -> Call] /\ HeldKnown(c)
      /\ paid \in Int /\ drift \in Int
  BY DEF Typed, TypeOK, BusTypeOK, MoneyKnown
<1>1. UNCHANGED <<row, paid, drift, refused>> /\ torn \subseteq torn'
  BY DEF BusStart, ReadToDecide, Acquire, Crash, CrashAt, ReadForCancel, PollOperator
<1>2. KeptRows' = KeptRows
  BY <1>1, KeptAsBefore
<1>3. call'[c].held = 0 /\ \A d \in Calls \ {c} : call'[d] = call[d]
  <2>1. CASE ReadToDecide(c)
    BY <1>0, <2>1 DEF ReadToDecide, NoCall
  <2>2. CASE Acquire(c)
    BY <1>0, <2>2 DEF Acquire, NoCall
  <2>3. CASE Crash(c)
    BY <1>0, <2>3 DEF Crash, CrashAt, NoCall
  <2>4. ASSUME NEW k \in Attempts, ReadForCancel(c, k)
        PROVE  call'[c].held = 0 /\ \A d \in Calls \ {c} : call'[d] = call[d]
    BY <1>0, <2>4 DEF ReadForCancel, NoCall
  <2>5. ASSUME NEW k \in Attempts, PollOperator(c, k)
        PROVE  call'[c].held = 0 /\ \A d \in Calls \ {c} : call'[d] = call[d]
    BY <1>0, <2>5 DEF PollOperator, NoCall
  <2> QED
    BY <2>1, <2>2, <2>3, <2>4, <2>5 DEF BusStart
<1>4. PICK step \in {"decide", "load", "idle", "seats", "fetch"} : Goto(c, step)
  BY DEF BusStart, ReadToDecide, Acquire, Crash, CrashAt, ReadForCancel, PollOperator
<1>5. /\ call'[c].held = 0 /\ pc'[c] = step
      /\ \A d \in Calls \ {c} : pc'[d] = pc[d] /\ call'[d] = call[d]
  BY <1>0, <1>3, <1>4 DEF Goto
<1>6. HeldKnown(c)'
  BY <1>5 DEF HeldKnown, Untold
<1>7. torn' # {} \/ call[c].held = 0
  <2>1. CASE Crash(c)
    BY <1>0, <2>1 DEF Crash, CrashAt, HeldKnown
  <2>2. CASE ~Crash(c)
    <3>1. pc[c] = "idle"
      BY <2>2 DEF BusStart, ReadToDecide, Acquire, ReadForCancel, PollOperator
    <3> QED
      BY <1>0, <3>1 DEF HeldKnown, Untold
  <2> QED
    BY <2>1, <2>2
<1> QED
  BY <1>0, <1>1, <1>2, <1>5, <1>6, <1>7 DEF Even

LEMMA MoneyStep ==
    ASSUME Typed, Typed', AttemptsKnown, MoneyKnown, [Next]_vars
    PROVE  MoneyKnown'
<1>1. ASSUME UNCHANGED <<pc, call, row, paid, drift, refused, torn>> PROVE MoneyKnown'
  BY <1>1 DEF MoneyKnown, HeldKnown, Of, Books, RowTotal, Held, KeptRows
<1>2. CASE UNCHANGED vars
  BY <1>1, <1>2 DEF vars, busVars, money, marks
<1>3. CASE BusEnvironment \/ \E k \in Attempts : OperatorCancels(k) \/ WindowPasses(k)
  BY <1>1, <1>3 DEF BusEnvironment, ExpiryPasses, SweepExpired, LockExpires, BlockLapses,
                    OperatorCancels, WindowPasses, money, marks
<1>4. ASSUME NEW c \in Calls, Proceed(c) PROVE MoneyKnown'
  <2>1. CASE BusProceed(c)
    BY <2>1, MoneySaveBooked, EvenBooking, EvenKeeps
  <2>2. CASE ~BusProceed(c)
    BY <1>4, <2>2, EvenCancelling, EvenKeeps DEF Proceed
  <2> QED
    BY <2>1, <2>2
<1>5. ASSUME NEW c \in Calls, \/ BusStart(c) \/ Crash(c)
                               \/ \E k \in Attempts : ReadForCancel(c, k) \/ PollOperator(c, k)
      PROVE  MoneyKnown'
  BY <1>5, EvenStarts, EvenKeeps
<1> QED
  BY <1>2, <1>3, <1>4, <1>5 DEF Next

\* Until a call is torn or a refund refused the agency has paid for the rows that were
\* booked and for what calls still hold, whoever books, cancels and dies in between.
THEOREM BookingsArePaid == Spec => []BookedIsPaid
<1>1. Init => IInv /\ MoneyKnown
  <2> SUFFICES ASSUME Init PROVE MoneyKnown
    BY InitKnown
  <2>1. \A c \in Calls : call[c].held = 0 /\ pc[c] = "idle"
    BY DEF Init, BusInit, NoCall
  <2>2. \A c \in Calls : HeldKnown(c)
    BY <2>1 DEF HeldKnown, Untold
  <2>3. KeptRows = {} /\ paid = 0 /\ drift = 0
    BY DEF Init, BusInit, KeptRows, Kept
  <2>4. SumOf(RowTotal, KeptRows) = 0
    BY <2>3, SumEmpty
  <2>5. SumOf(Held, Calls) = 0
    <3>1. \A c \in Calls : Held[c] = 0
      BY <2>1 DEF Held
    <3> QED
      BY <3>1, BusAssumption, SumZero
  <2> QED
    BY <2>2, <2>3, <2>4, <2>5 DEF MoneyKnown, Books
<1>2. IInv /\ MoneyKnown /\ [Next]_vars => (IInv /\ MoneyKnown)'
  BY InvStep, MoneyStep DEF IInv
<1>3. IInv /\ MoneyKnown => BookedIsPaid
  BY BooksArePaid DEF IInv, MoneyKnown
<1> QED
  BY <1>1, <1>2, <1>3, PTL DEF Spec

-----------------------------------------------------------------------------
(* Cancelled seats *)

\* From the answer of the supplier, and from the row that tells of it.
Answered == {"createRow", "credit", "saveRow", "transition"}
Written  == {"credit", "saveRow", "transition"}

TakenBack == {"void", "unlisted"}

\* Calls on their way with a refund of k that is not posted.
Due(k) == {c \in Calls : Of(c) = k /\ pc[c] \in {"createRow", "credit"} /\ ~call[c].operator}

Crediting(k) == {c \in Calls : /\ Of(c) = k /\ pc[c] = "saveRow"
                                /\ call[c].outcome \in {"COMPLETED", "MISFILED"}}
CreditedRows(k) == {i \in DOMAIN cancels[k] : Credited(cancels[k][i])}

OperatorRow(k) == \E i \in DOMAIN cancels[k] : cancels[k][i].operator

\* The operator's refund is behind us.
OperatorDone(k) ==
    OperatorRow(k) /\ \A c \in Calls : Of(c) = k /\ call[c].operator => pc[c] # "credit"

\* Seats whose refund may have been posted, to the agent and in all.
AgentsReturned(k) == ticket[k].gone \ UNION {call[c].seats : c \in Due(k)}
Returned(k) == AgentsReturned(k) \cup (IF OperatorDone(k) THEN Seats \ ticket[k].gone ELSE {})

\* It was the whole fare, for more than the seats that were left.
Overpaid(k) ==
    /\ OperatorDone(k)
    /\ row[k].total > FareOf(k, Seats \ ticket[k].gone)
    /\ settled[k] <= row[k].total + FareOf(k, AgentsReturned(k))
    /\ \E i \in DOMAIN cancels[k] : cancels[k][i].operator /\ cancels[k][i].amount = row[k].total

\* Seats the supplier has cancelled for calls that have not written it down.
Unwritten(k) == UNION {call[c].seats : c \in {d \in Calls : Of(d) = k /\ pc[d] = "createRow"}}

Shown(k) ==
    row[k].status = CASE ticket[k].gone = {} -> "BOOKED"
                      [] ticket[k].gone = Seats -> "CANCELLED"
                      [] OTHER -> "PARTIALLY_CANCELLED"

\* A call of the poller works on a ticket the operator has taken back, an agent's
\* call on seats that nobody else has.
WorkKnown(c) ==
    /\ call[c].operator => /\ pc[c] \in Cancelling \ {"seats", "cancelTicket"}
                           /\ ticket[Of(c)].state \in TakenBack
    /\ pc[c] = "fetch" => call[c].operator
    /\ pc[c] \in Cancelling => /\ pc[c] # "seats" => call[c].seats # {}
                               /\ call[c].read # "OPERATOR_CANCELLED"

\* What it is about to credit is what the seats cost, and its row says so.
RefundKnown(c) ==
    LET k == Of(c) IN
    /\ pc[c] \in {"createRow", "credit"} /\ call[c].operator =>
         call[c].amount <= FareOf(k, Seats \ ticket[k].gone) \/ call[c].amount = row[k].total
    /\ pc[c] \in {"createRow", "credit"} /\ ~call[c].operator =>
         call[c].seats \subseteq ticket[k].gone /\ call[c].amount <= FareOf(k, call[c].seats)
    /\ pc[c] \in {"credit", "saveRow"} =>
         LET r == cancels[k][call[c].index] IN
         /\ r.operator = call[c].operator /\ r.amount = call[c].amount
         /\ r.seats = call[c].seats /\ r.status = "INITIATED"
    /\ pc[c] = "saveRow" /\ call[c].outcome \in {"FAILED", "MISFILED"} => k \in refused

\* A copy that is not stale is what the documents say.
CopyKnown(c) ==
    LET k == Of(c) IN
    pc[c] \in Cancelling =>
        /\ row[k].status = "OPERATOR_CANCELLED" => call[c].stale
        /\ ~call[c].operator /\ ~call[c].stale /\ k \notin refused =>
             /\ call[c].read = row[k].status
             /\ pc[c] # "seats" =>
                  Covered(k) = IF pc[c] \in Written THEN call[c].covered \cup call[c].seats
                               ELSE call[c].covered

CallsApart ==
    \A c, d \in Calls : c # d =>
        /\ ~(call[c].operator /\ call[d].operator)
        /\ Of(c) = Of(d) /\ {pc[c], pc[d]} \subseteq {"createRow", "credit"}
             /\ ~call[c].operator /\ ~call[d].operator => call[c].seats \cap call[d].seats = {}
        /\ Of(c) = Of(d) /\ {pc[c], pc[d]} \subseteq {"credit", "saveRow"} => call[c].index # call[d].index

\* Nothing is cancelled of what was not booked, and the operator's row is there
\* when its ticket was taken back.
CancelsKnown(k) ==
    /\ row[k].status \notin Kept => cancels[k] = <<>> /\ ticket[k].gone = {} /\ settled[k] = 0
    /\ OperatorRow(k) => ticket[k].state \in TakenBack

\* The operator's cancellation is mirrored once.
PolledOnce(k) ==
    /\ OperatorRow(k) => \/ row[k].status = "OPERATOR_CANCELLED"
                         \/ \E c \in Calls : Of(c) = k /\ call[c].operator /\ pc[c] \in Written
    /\ \A c \in Calls : Of(c) = k /\ call[c].operator /\ pc[c] \in {"fetch", "createRow"} => ~OperatorRow(k)

RefundsFit(k) == settled[k] <= FareOf(k, Returned(k)) \/ Overpaid(k)

RowAmount(k) == [i \in DOMAIN cancels[k] |-> cancels[k][i].amount]
Amount == [c \in Calls |-> call[c].amount]

CreditsTold(k) == settled[k] = SumOf(RowAmount(k), CreditedRows(k)) + SumOf(Amount, Crediting(k))

\* While somebody works on it a booked ticket may show too little; nobody leaves it so.
SeatsTold(k) ==
    /\ ticket[k].gone = Covered(k) \cup Unwritten(k)
    /\ k \notin unverified =>
         \/ \E c \in Calls : Of(c) = k /\ pc[c] \in {"save", "check"} \cup Answered
         \/ Shown(k)

AttemptTold(k) ==
    /\ CancelsKnown(k)
    /\ k \notin torn => PolledOnce(k) /\ RefundsFit(k) /\ CreditsTold(k)
    /\ k \notin torn \cup refused /\ ticket[k].state = "booked" => SeatsTold(k)

CallTold(c) == WorkKnown(c) /\ RefundKnown(c) /\ CopyKnown(c)

CancelInv ==
    /\ \A c \in Calls : CallTold(c)
    /\ CallsApart
    /\ \A k \in Attempts : AttemptTold(k)

-----------------------------------------------------------------------------
(* Fares *)

LEMMA FareJoins ==
    ASSUME Typed, NEW k \in Attempts, NEW S \in SUBSET Seats, NEW T \in SUBSET Seats, S \cap T = {}
    PROVE  FareOf(k, S) + FareOf(k, T) <= FareOf(k, S \cup T)
<1>1. PICK fare \in Nat : fare = row[k].total
  BY DEF Typed, TypeOK, BusTypeOK
<1>2. PICK m \in Nat : m = Cardinality(S)
  BY SeatsCounted
<1>3. PICK n \in Nat : n = Cardinality(T)
  BY SeatsCounted
<1>4. Cardinality(S \cup T) = m + n
  <2>1. IsFiniteSet(S) /\ IsFiniteSet(T)
    BY SeatsCounted
  <2>2. Cardinality(S \cup T) = Cardinality(S) + Cardinality(T) - Cardinality(S \cap T)
    BY <2>1, FS_Union
  <2>3. Cardinality(S \cap T) = 0
    BY FS_EmptySet
  <2> QED
    BY <1>2, <1>3, <2>2, <2>3
<1>5. PICK x \in Nat : x = m * fare
  BY <1>1, <1>2
<1>6. PICK y \in Nat : y = n * fare
  BY <1>1, <1>3
<1>7. (m + n) * fare = x + y
  BY <1>1, <1>2, <1>3, <1>5, <1>6
<1>8. (x \div Total) + (y \div Total) <= (x + y) \div Total
  BY SeatsThere
<1> QED
  BY <1>1, <1>2, <1>3, <1>4, <1>5, <1>6, <1>7, <1>8 DEF FareOf

LEMMA FareGrows ==
    ASSUME Typed, NEW k \in Attempts, NEW T \in SUBSET Seats, NEW S \in SUBSET T
    PROVE  FareOf(k, S) <= FareOf(k, T)
<1>1. PICK R \in SUBSET Seats : R = T \ S
  OBVIOUS
<1>2. S \in SUBSET Seats /\ S \cap R = {} /\ S \cup R = T
  BY <1>1
<1>3. FareOf(k, S) + FareOf(k, R) <= FareOf(k, T)
  BY <1>2, FareJoins
<1>4. FareOf(k, S) \in Nat /\ FareOf(k, R) \in Nat /\ FareOf(k, T) \in Nat
  BY <1>2, FareIsNat
<1> QED
  BY <1>3, <1>4

LEMMA FareOfAll ==
    ASSUME Typed, NEW k \in Attempts
    PROVE  FareOf(k, Seats) = row[k].total
<1>1. PICK fare \in Nat : fare = row[k].total
  BY DEF Typed, TypeOK, BusTypeOK
<1>2. PICK T \in Nat \ {0} : T = Total
  BY SeatsThere
<1>3. (T * fare) \div T = fare
  BY <1>1, <1>2
<1> QED
  BY <1>1, <1>2, <1>3 DEF FareOf, Total

\* The fare of no seat is nothing.
LEMMA FareOfNone ==
    ASSUME Typed, NEW k \in Attempts
    PROVE  FareOf(k, {}) = 0
<1>1. row[k].total \in Nat /\ 0 * row[k].total = 0
  BY DEF Typed, TypeOK, BusTypeOK
<1> QED
  BY <1>1, SeatsThere, FS_EmptySet DEF FareOf

LEMMA FareKept ==
    ASSUME NEW k, row'[k].total = row[k].total, NEW S
    PROVE  FareOf(k, S)' = FareOf(k, S)
  BY DEF FareOf

-----------------------------------------------------------------------------
(* What other calls and other attempts keep *)

\* The calls beside D are where they were, with a copy that may be stale now.
Bystanders(D) ==
    \A d \in Calls \ D :
        /\ pc'[d] = pc[d]
        /\ call'[d].attempt = call[d].attempt /\ call'[d].read = call[d].read
        /\ call'[d].seats = call[d].seats /\ call'[d].covered = call[d].covered
        /\ call'[d].operator = call[d].operator /\ call'[d].amount = call[d].amount
        /\ call'[d].index = call[d].index /\ call'[d].outcome = call[d].outcome
        /\ call[d].stale => call'[d].stale

\* What a step may do to the documents while d is at work on them.
Respects(d) ==
    LET k == Of(d) IN
    /\ ticket[k].state \in TakenBack =>
         ticket'[k].state \in TakenBack /\ ticket'[k].gone = ticket[k].gone
    /\ ticket[k].gone \subseteq ticket'[k].gone
    /\ row'[k].total = row[k].total
    /\ pc[d] \in {"credit", "saveRow"} => cancels'[k][call[d].index] = cancels[k][call[d].index]
    /\ k \in refused => k \in refused'
    /\ row'[k].status = "OPERATOR_CANCELLED" => row[k].status = "OPERATOR_CANCELLED" \/ call'[d].stale
    /\ \/ row'[k].status = row[k].status /\ Covered(k)' = Covered(k)
       \/ call'[d].stale
       \/ k \in refused'

LEMMA BystanderTold ==
    ASSUME Typed, AttemptsKnown, NEW D, Bystanders(D), NEW d \in Calls \ D, CallTold(d),
           pc[d] \in Cancelling => Respects(d)
    PROVE  CallTold(d)'
<1>1. /\ pc'[d] = pc[d] /\ Of(d)' = Of(d) /\ call'[d].read = call[d].read
      /\ call'[d].seats = call[d].seats /\ call'[d].covered = call[d].covered
      /\ call'[d].operator = call[d].operator /\ call'[d].amount = call[d].amount
      /\ call'[d].index = call[d].index /\ call'[d].outcome = call[d].outcome
      /\ call[d].stale => call'[d].stale
  BY DEF Bystanders, Of
<1>2. WorkKnown(d)'
  BY <1>1 DEF CallTold, WorkKnown, Respects
<1>3. RefundKnown(d)'
  <2>1. CASE pc[d] \notin Cancelling
    BY <1>1, <2>1 DEF RefundKnown, Cancelling
  <2>2. CASE pc[d] \in Cancelling
    <3>1. PICK k : k = Of(d)
      OBVIOUS
    <3>2. row'[k].total = row[k].total /\ Of(d)' = k
      BY <1>1, <2>2, <3>1 DEF Respects
    <3>3. PICK S : S = Seats \ ticket[k].gone
      OBVIOUS
    <3>4. PICK T : T = call[d].seats
      OBVIOUS
    <3>5. FareOf(k, S)' = FareOf(k, S) /\ FareOf(k, T)' = FareOf(k, T)
      BY <3>2, FareKept
    <3>6. pc[d] \in {"createRow", "credit"} /\ call[d].operator =>
             (call[d].amount <= FareOf(k, Seats \ ticket[k].gone) \/ call[d].amount = row[k].total)'
      <4>1. call[d].operator => ticket'[k].gone = ticket[k].gone
        BY <2>2, <3>1 DEF CallTold, WorkKnown, Respects
      <4>2. call[d].operator => (Seats \ ticket[k].gone)' = S
        BY <3>3, <4>1
      <4>3. call[d].operator => FareOf(k, Seats \ ticket[k].gone)' = FareOf(k, Seats \ ticket[k].gone)
        BY <3>2, <4>1 DEF FareOf
      <4> QED
        BY <1>1, <3>1, <3>2, <4>3 DEF CallTold, RefundKnown
    <3>7. FareOf(k, call[d].seats)' = FareOf(k, call[d].seats)
      BY <1>1, <3>2 DEF FareOf
    <3> QED
      BY <1>1, <2>2, <3>1, <3>2, <3>6, <3>7 DEF CallTold, RefundKnown, Respects
  <2> QED
    BY <2>1, <2>2
<1>4. CopyKnown(d)'
  BY <1>1 DEF CallTold, CopyKnown, Respects
<1> QED
  BY <1>2, <1>3, <1>4 DEF CallTold

\* Steps in which calls may collide.
Colliding == {"createRow", "credit", "saveRow"}

LEMMA ApartKept ==
    ASSUME CallsApart, NEW D \in SUBSET Calls, Bystanders(D),
           \A c, d \in D : c = d,
           \A c \in D : /\ call'[c].operator => call[c].operator \/ \A d \in Calls : ~call[d].operator
                        /\ pc'[c] \in {"createRow", "credit"} /\ ~call'[c].operator =>
                             /\ pc[c] \in {"createRow", "credit"} /\ ~call[c].operator
                             /\ Of(c)' = Of(c) /\ call'[c].seats = call[c].seats
                        /\ pc'[c] \in {"credit", "saveRow"} =>
                             /\ pc[c] \in {"credit", "saveRow"}
                             /\ Of(c)' = Of(c) /\ call'[c].index = call[c].index
    PROVE  CallsApart'
<1> SUFFICES ASSUME NEW c \in Calls, NEW d \in Calls, c # d
             PROVE  /\ ~(call'[c].operator /\ call'[d].operator)
                    /\ Of(c)' = Of(d)' /\ {pc'[c], pc'[d]} \subseteq {"createRow", "credit"}
                         /\ ~call'[c].operator /\ ~call'[d].operator => call'[c].seats \cap call'[d].seats = {}
                    /\ Of(c)' = Of(d)' /\ {pc'[c], pc'[d]} \subseteq {"credit", "saveRow"}
                         => call'[c].index # call'[d].index
  BY DEF CallsApart
<1>1. \A e \in Calls \ D : /\ pc'[e] = pc[e] /\ Of(e)' = Of(e) /\ call'[e].seats = call[e].seats
                             /\ call'[e].operator = call[e].operator /\ call'[e].index = call[e].index
  BY DEF Bystanders, Of
<1>2. /\ ~(call[c].operator /\ call[d].operator)
      /\ Of(c) = Of(d) /\ {pc[c], pc[d]} \subseteq {"createRow", "credit"}
           /\ ~call[c].operator /\ ~call[d].operator => call[c].seats \cap call[d].seats = {}
      /\ Of(c) = Of(d) /\ {pc[c], pc[d]} \subseteq {"credit", "saveRow"} => call[c].index # call[d].index
  BY DEF CallsApart
<1>3. CASE c \notin D /\ d \notin D
  BY <1>1, <1>2, <1>3
<1>4. CASE c \in D /\ d \notin D
  BY <1>1, <1>2, <1>4
<1>5. CASE c \notin D /\ d \in D
  BY <1>1, <1>2, <1>5
<1> QED
  BY <1>3, <1>4, <1>5

\* A step that has nothing to do with k.
Elsewhere(D, k) ==
    /\ row'[k] = row[k] /\ ticket'[k] = ticket[k]
    /\ cancels'[k] = cancels[k] /\ settled'[k] = settled[k]
    /\ k \in torn => k \in torn'
    /\ k \in refused => k \in refused'
    /\ k \in unverified => k \in unverified'
    /\ \A c \in D : /\ Of(c) = k => pc[c] \notin Cancelling \cup {"save", "check"}
                    /\ Of(c)' = k => pc'[c] \notin Cancelling \cup {"save", "check"}

\* What the properties of k read of the calls on it.
LEMMA SameCallsOn ==
    ASSUME NEW D \in SUBSET Calls, Bystanders(D), NEW k,
           \A c \in D : /\ Of(c) = k => pc[c] \notin Cancelling \cup {"save", "check"}
                        /\ Of(c)' = k => pc'[c] \notin Cancelling \cup {"save", "check"}
    PROVE  \A c \in Calls :
             \/ /\ c \notin D /\ pc'[c] = pc[c] /\ Of(c)' = Of(c)
                /\ call'[c].seats = call[c].seats /\ call'[c].operator = call[c].operator
                /\ call'[c].amount = call[c].amount /\ call'[c].outcome = call[c].outcome
             \/ /\ c \in D
                /\ Of(c) # k \/ pc[c] \notin Cancelling \cup {"save", "check"}
                /\ Of(c)' # k \/ pc'[c] \notin Cancelling \cup {"save", "check"}
  BY DEF Bystanders, Of

\* The sums are those of the same rows and calls.
LEMMA CreditsKept ==
    ASSUME Typed, NEW k \in Attempts, CreditsTold(k), settled'[k] = settled[k],
           CreditedRows(k)' = CreditedRows(k),
           \A i \in CreditedRows(k) : cancels'[k][i].amount = cancels[k][i].amount,
           Crediting(k)' = Crediting(k),
           \A c \in Crediting(k) : call'[c].amount = call[c].amount
    PROVE  CreditsTold(k)'
<1>1. PICK S : S = CreditedRows(k)
  OBVIOUS
<1>2. PICK T : T = Crediting(k)
  OBVIOUS
<1>3. PICK v : v = RowAmount(k)
  OBVIOUS
<1>4. PICK w : w = RowAmount(k)'
  OBVIOUS
<1>5. PICK x : x = Amount
  OBVIOUS
<1>6. PICK y : y = Amount'
  OBVIOUS
<1>7. IsFiniteSet(S) /\ \A i \in S : v[i] \in Int /\ v[i] = w[i]
  <2>1. cancels[k] \in Seq(Cancellation)
    BY DEF Typed, TypeOK
  <2>2. IsFiniteSet(S) /\ S \subseteq DOMAIN cancels[k]
    <3>1. S \subseteq DOMAIN cancels[k] /\ DOMAIN cancels[k] = 1 .. Len(cancels[k]) /\ Len(cancels[k]) \in Nat
      BY <1>1, <2>1, LenProperties DEF CreditedRows
    <3>2. IsFiniteSet(1 .. Len(cancels[k]))
      BY <3>1, FS_Interval
    <3> QED
      BY <3>1, <3>2, FS_Subset
  <2>3. S \subseteq DOMAIN cancels'[k]
    BY <1>1 DEF CreditedRows
  <2>4. \A i \in DOMAIN cancels[k] : cancels[k][i].amount \in Int
    <3>1. \A i \in DOMAIN cancels[k] : cancels[k][i] \in Cancellation
      BY <2>1, LenProperties, ElementOfSeq
    <3> QED
      BY <3>1 DEF Cancellation
  <2> QED
    BY <1>1, <1>3, <1>4, <2>2, <2>3, <2>4 DEF RowAmount
<1>8. IsFiniteSet(T) /\ \A c \in T : x[c] \in Int /\ x[c] = y[c]
  <2>1. T \subseteq Calls /\ \A c \in Calls : call[c].amount \in Int
    BY <1>2 DEF Crediting, Typed, CallKnown
  <2>2. IsFiniteSet(T)
    BY <2>1, BusAssumption, FS_Subset
  <2> QED
    BY <1>2, <1>5, <1>6, <2>1, <2>2 DEF Amount
<1>9. SumOf(v, S) = SumOf(w, S)
  BY <1>7, SumSame
<1>10. SumOf(x, T) = SumOf(y, T)
  BY <1>8, SumSame
<1>11. settled[k] = SumOf(v, S) + SumOf(x, T)
  BY <1>1, <1>2, <1>3, <1>5 DEF CreditsTold
<1>12. settled'[k] = SumOf(w, S) + SumOf(y, T)
  BY <1>9, <1>10, <1>11
<1> QED
  BY <1>1, <1>2, <1>4, <1>6, <1>12 DEF CreditsTold

LEMMA RefundsKept ==
    ASSUME Typed, NEW k \in Attempts, RefundsFit(k), settled'[k] = settled[k],
           row'[k].total = row[k].total, Returned(k) \subseteq Returned(k)', Returned(k)' \subseteq Seats,
           Overpaid(k) => Overpaid(k)'
    PROVE  RefundsFit(k)'
<1>1. PICK S : S = Returned(k)
  OBVIOUS
<1>2. PICK T \in SUBSET Seats : T = Returned(k)'
  OBVIOUS
<1>3. FareOf(k, S) <= FareOf(k, T) /\ FareOf(k, S) \in Nat /\ FareOf(k, T) \in Nat
  BY <1>1, <1>2, FareGrows, FareIsNat
<1>4. FareOf(k, Returned(k))' = FareOf(k, T)
  BY <1>2 DEF FareOf
<1>5. settled[k] \in Nat
  BY DEF Typed, TypeOK
<1> QED
  BY <1>1, <1>3, <1>4, <1>5 DEF RefundsFit

LEMMA ReturnedTyped ==
    ASSUME Typed, NEW k \in Attempts
    PROVE  Returned(k) \subseteq Seats
<1>1. ticket[k].gone \subseteq Seats
  BY DEF Typed, TypeOK, BusTypeOK
<1> QED
  BY <1>1 DEF Returned, AgentsReturned

\* Rows may be added, and what is credited may grow with what the agent gets back.
LEMMA OverpaidGrows ==
    ASSUME Typed, NEW k \in Attempts, Overpaid(k), OperatorDone(k)',
           NEW A \in SUBSET Seats, A = AgentsReturned(k)', settled'[k] \in Nat,
           settled'[k] + FareOf(k, AgentsReturned(k)) <= settled[k] + FareOf(k, A),
           row'[k].total = row[k].total, ticket'[k].gone = ticket[k].gone,
           DOMAIN cancels[k] \subseteq DOMAIN cancels'[k],
           \A i \in DOMAIN cancels[k] : /\ cancels'[k][i].operator = cancels[k][i].operator
                                         /\ cancels'[k][i].amount = cancels[k][i].amount
    PROVE  Overpaid(k)'
<1>1. PICK i \in DOMAIN cancels[k] : cancels[k][i].operator /\ cancels[k][i].amount = row[k].total
  BY DEF Overpaid
<1>2. i \in DOMAIN cancels'[k] /\ cancels'[k][i].operator /\ cancels'[k][i].amount = row'[k].total
  BY <1>1
<1>3. FareOf(k, Seats \ ticket[k].gone)' = FareOf(k, Seats \ ticket[k].gone)
  BY DEF FareOf
<1>4. FareOf(k, AgentsReturned(k))' = FareOf(k, A)
  BY DEF FareOf
<1>5. PICK B \in SUBSET Seats : B = AgentsReturned(k)
  <2>1. ticket[k].gone \subseteq Seats
    BY DEF Typed, TypeOK, BusTypeOK
  <2> QED
    BY <2>1 DEF AgentsReturned
<1>6. FareOf(k, A) \in Nat /\ FareOf(k, B) \in Nat
  BY FareIsNat
<1>7. settled[k] \in Nat /\ row[k].total \in Nat
  BY DEF Typed, TypeOK, BusTypeOK
<1>8. settled[k] <= row[k].total + FareOf(k, B)
  BY <1>5 DEF Overpaid
<1>9. settled'[k] <= row'[k].total + FareOf(k, A)
  BY <1>5, <1>6, <1>7, <1>8
<1> QED
  BY <1>2, <1>3, <1>4, <1>9 DEF Overpaid

\* Nothing it is about changes.
LEMMA OverpaidKept ==
    ASSUME Typed, NEW k \in Attempts, Overpaid(k), OperatorDone(k)',
           AgentsReturned(k)' = AgentsReturned(k), settled'[k] = settled[k],
           row'[k].total = row[k].total, ticket'[k].gone = ticket[k].gone,
           DOMAIN cancels[k] \subseteq DOMAIN cancels'[k],
           \A i \in DOMAIN cancels[k] : /\ cancels'[k][i].operator = cancels[k][i].operator
                                         /\ cancels'[k][i].amount = cancels[k][i].amount
    PROVE  Overpaid(k)'
<1>1. PICK A : A = AgentsReturned(k)
  OBVIOUS
<1>2. A \in SUBSET Seats
  <2>1. ticket[k].gone \subseteq Seats
    BY DEF Typed, TypeOK, BusTypeOK
  <2> QED
    BY <1>1, <2>1 DEF AgentsReturned
<1>3. settled[k] \in Nat /\ FareOf(k, A) \in Nat
  BY <1>2, FareIsNat DEF Typed, TypeOK
<1> QED
  BY <1>1, <1>2, <1>3, OverpaidGrows

LEMMA ElsewhereTold ==
    ASSUME Typed, CancelInv, NEW D \in SUBSET Calls, Bystanders(D), NEW k \in Attempts, Elsewhere(D, k)
    PROVE  AttemptTold(k)'
<1>0. \A c \in Calls :
             \/ /\ c \notin D /\ pc'[c] = pc[c] /\ Of(c)' = Of(c)
                /\ call'[c].seats = call[c].seats /\ call'[c].operator = call[c].operator
                /\ call'[c].amount = call[c].amount /\ call'[c].outcome = call[c].outcome
             \/ /\ c \in D
                /\ Of(c) # k \/ pc[c] \notin Cancelling \cup {"save", "check"}
                /\ Of(c)' # k \/ pc'[c] \notin Cancelling \cup {"save", "check"}
  BY SameCallsOn DEF Elsewhere
<1>1. AttemptTold(k) /\ Elsewhere(D, k)
  BY DEF CancelInv
<1>2. OperatorRow(k)' = OperatorRow(k)
  BY <1>1 DEF Elsewhere, OperatorRow
<1>3. CancelsKnown(k)'
  BY <1>1, <1>2 DEF Elsewhere, AttemptTold, CancelsKnown
<1>4. ASSUME k \notin torn' PROVE PolledOnce(k)'
  <2>1. PolledOnce(k) /\ row'[k] = row[k]
    BY <1>1, <1>4 DEF Elsewhere, AttemptTold
  <2>2. \A c \in Calls : Of(c) = k /\ call[c].operator /\ pc[c] \in Written =>
                          Of(c)' = k /\ call'[c].operator /\ pc'[c] \in Written
    BY <1>0 DEF Written, Cancelling
  <2>3. \A c \in Calls : Of(c)' = k /\ call'[c].operator /\ pc'[c] \in {"fetch", "createRow"} =>
                          Of(c) = k /\ call[c].operator /\ pc[c] \in {"fetch", "createRow"}
    BY <1>0 DEF Cancelling
  <2> QED
    BY <1>2, <2>1, <2>2, <2>3 DEF PolledOnce
<1>5. ASSUME k \notin torn' PROVE RefundsFit(k)'
  <2>1. RefundsFit(k) /\ row'[k] = row[k] /\ settled'[k] = settled[k]
    BY <1>1, <1>5 DEF Elsewhere, AttemptTold
  <2>3. Due(k)' = Due(k) /\ \A c \in Due(k) : call'[c].seats = call[c].seats
    BY <1>0 DEF Due, Cancelling
  <2>4. OperatorDone(k)' = OperatorDone(k)
    BY <1>0, <1>2 DEF OperatorDone, Cancelling
  <2>5. UNION {call'[c].seats : c \in Due(k)'} = UNION {call[c].seats : c \in Due(k)}
    BY <2>3
  <2>6. AgentsReturned(k)' = AgentsReturned(k)
    BY <1>1, <2>5 DEF AgentsReturned, Elsewhere
  <2>7. Returned(k)' = Returned(k)
    BY <1>1, <2>4, <2>6 DEF Returned, Elsewhere
  <2>8. Overpaid(k) => Overpaid(k)'
    <3>1. Overpaid(k) => OperatorDone(k)'
      BY <2>4 DEF Overpaid
    <3> QED
      BY <1>1, <2>1, <2>6, <3>1, OverpaidKept DEF Elsewhere
  <2> QED
    BY <2>1, <2>7, <2>8, RefundsKept, ReturnedTyped
<1>6. ASSUME k \notin torn' PROVE CreditsTold(k)'
  <2>1. CreditsTold(k) /\ cancels'[k] = cancels[k] /\ settled'[k] = settled[k]
    BY <1>1, <1>6 DEF Elsewhere, AttemptTold
  <2>2. CreditedRows(k)' = CreditedRows(k)
    BY <2>1 DEF CreditedRows
  <2>3. Crediting(k)' = Crediting(k) /\ \A c \in Crediting(k) : call'[c].amount = call[c].amount
    BY <1>0 DEF Crediting, Cancelling
  <2> QED
    BY <2>1, <2>2, <2>3, CreditsKept
<1>7. ASSUME k \notin torn' \cup refused', ticket'[k].state = "booked" PROVE SeatsTold(k)'
  <2>1. SeatsTold(k) /\ row'[k] = row[k] /\ ticket'[k] = ticket[k] /\ (k \notin unverified' => k \notin unverified)
    BY <1>1, <1>7 DEF Elsewhere, AttemptTold
  <2>2. Covered(k)' = Covered(k)
    BY <1>1 DEF Elsewhere, Covered
  <2>3. Unwritten(k)' = Unwritten(k)
    BY <1>0 DEF Unwritten, Cancelling
  <2>4. Shown(k)' = Shown(k)
    BY <2>1 DEF Shown
  <2>5. \A c \in Calls : Of(c) = k /\ pc[c] \in {"save", "check"} \cup Answered =>
                          Of(c)' = k /\ pc'[c] \in {"save", "check"} \cup Answered
    BY <1>0 DEF Cancelling, Answered
  <2> QED
    BY <2>1, <2>2, <2>3, <2>4, <2>5 DEF SeatsTold
<1> QED
  BY <1>3, <1>4, <1>5, <1>6, <1>7 DEF AttemptTold

-----------------------------------------------------------------------------
(* The booking service beside cancellations *)

LEMMA LeaveDoes ==
    ASSUME Typed, NEW c \in Calls, Leave(c)
    PROVE  /\ Bystanders({c}) /\ pc'[c] \in {"unlock", "idle"}
           /\ Of(c)' = None /\ call'[c].operator = FALSE
<1>1. \A d \in Calls \ {c} : pc'[d] = pc[d] /\ call'[d] = call[d]
  BY LeaveTyped
<1>2. call'[c] = [NoCall EXCEPT !.locked = call[c].locked]
  BY DEF Leave, Typed, TypeOK, BusTypeOK
<1> QED
  BY <1>1, <1>2, LeaveTyped DEF Bystanders, NoCall, Of

\* One call changes, and nobody's copy.
LEMMA OneCallDoes ==
    ASSUME Typed, NEW c \in Calls, NEW step, Goto(c, step), NEW memory,
           call' = [call EXCEPT ![c] = memory]
    PROVE  Bystanders({c}) /\ pc'[c] = step /\ call'[c] = memory
  BY DEF Goto, Bystanders, Typed, TypeOK, BusTypeOK

LEMMA GotoDoes ==
    ASSUME Typed, NEW c \in Calls, NEW step, Goto(c, step), UNCHANGED call
    PROVE  Bystanders({c}) /\ pc'[c] = step
  BY DEF Goto, Bystanders, Typed, TypeOK, BusTypeOK

LEMMA OutdatedDoes ==
    ASSUME Typed, NEW c \in Calls, NEW step, Goto(c, step), NEW k, NEW memory,
           call' = Outdated(c, k, memory)
    PROVE  /\ Bystanders({c}) /\ pc'[c] = step /\ call'[c] = memory
           /\ \A d \in Calls \ {c} : Of(d) = k => call'[d].stale
<1>1. pc'[c] = step /\ call'[c] = memory /\ \A d \in Calls \ {c} : pc'[d] = pc[d]
  BY DEF Goto, Outdated, Typed, TypeOK, BusTypeOK
<1>2. ASSUME NEW d \in Calls \ {c}
      PROVE  /\ call'[d].attempt = call[d].attempt /\ call'[d].read = call[d].read
             /\ call'[d].seats = call[d].seats /\ call'[d].covered = call[d].covered
             /\ call'[d].operator = call[d].operator /\ call'[d].amount = call[d].amount
             /\ call'[d].index = call[d].index /\ call'[d].outcome = call[d].outcome
             /\ call[d].stale => call'[d].stale
             /\ Of(d) = k => call'[d].stale
  <2>1. call[d] \in Call
    BY DEF Typed, TypeOK, BusTypeOK
  <2>2. call'[d] = IF Of(d) = k THEN [call[d] EXCEPT !.stale = TRUE] ELSE call[d]
    BY <1>2 DEF Outdated
  <2>3. CASE Of(d) = k
    <3>1. call'[d] = [call[d] EXCEPT !.stale = TRUE]
      BY <2>2, <2>3
    <3> QED
      BY <2>1, <3>1 DEF Call
  <2>4. CASE Of(d) # k
    BY <2>2, <2>4
  <2> QED
    BY <2>3, <2>4
<1> QED
  BY <1>1, <1>2 DEF Bystanders

\* A step of the booking service: the call has nothing to do with cancellations,
\* before and after, and touches no row that was booked.
Booking(c) ==
    /\ Bystanders({c})
    /\ pc[c] \notin Cancelling /\ pc'[c] \notin Cancelling
    /\ call'[c].operator => call[c].operator
    /\ torn \subseteq torn' /\ refused \subseteq refused' /\ unverified \subseteq unverified'
    /\ \A k \in Attempts :
         /\ row[k].status \in Kept => row'[k] = row[k]
         /\ ticket'[k].gone = ticket[k].gone
         /\ ticket[k].state \in TakenBack => ticket'[k] = ticket[k]
         /\ ticket'[k].state = "booked" => ticket[k].state = "booked" \/ row[k].status \notin Kept
         /\ ticket'[k].state = "booked" /\ k \notin torn' \cup unverified' =>
              \/ Of(c)' = k /\ pc'[c] \in {"save", "check"}
              \/ row[k].status \notin Kept /\ row'[k].status = "BOOKED"
              \/ ticket[k] = ticket'[k] /\ row'[k] = row[k] /\ (Of(c) = k => pc[c] \notin {"save", "check"})

\* One that changes no document, neither from nor to the hours of the ticket.
LEMMA QuietIsBooking ==
    ASSUME Typed, NEW c \in Calls, Bystanders({c}), UNCHANGED <<row, ticket>>,
           pc[c] \notin Cancelling \cup {"save", "check"}, pc'[c] \notin Cancelling,
           call'[c].operator => call[c].operator,
           torn \subseteq torn', refused \subseteq refused', unverified \subseteq unverified'
    PROVE  Booking(c)
<1>1. \A k \in Attempts : row'[k] = row[k] /\ ticket'[k] = ticket[k]
  OBVIOUS
<1> QED
  BY <1>1 DEF Booking

LEMMA BookingDoes ==
    ASSUME Typed, AttemptsKnown, NEW c \in Calls, BusProceed(c)
    PROVE  Booking(c)
<1> USE DEF approvalVars, money, marks
<1>0. /\ row \in [Attempts -> [status : RowStatuses, total : Nat]]
      /\ ticket \in [Attempts -> [state : {"none", "blocked", "lapsed", "booked", "void", "unlisted"},
                                  gone : SUBSET Seats]]
      /\ call[c] \in Call /\ call \in [Calls -> Call]
      /\ StepKnown(c) /\ AttemptKnown(c)
      /\ \A k \in Attempts : RowKnown(k)
      /\ None \notin Attempts
  BY BusAssumption DEF Typed, TypeOK, BusTypeOK, AttemptsKnown
<1>1. ASSUME Leave(c), UNCHANGED <<row, ticket>>, pc[c] \notin Cancelling \cup {"save", "check"},
             torn \subseteq torn', refused \subseteq refused', unverified \subseteq unverified'
      PROVE  Booking(c)
  BY <1>1, LeaveDoes, QuietIsBooking DEF Cancelling
<1>2. ASSUME NEW step \in Steps \ Cancelling, Goto(c, step), UNCHANGED <<row, ticket, call>>,
             pc[c] \notin Cancelling \cup {"save", "check"},
             torn \subseteq torn', refused \subseteq refused', unverified \subseteq unverified'
      PROVE  Booking(c)
  <2>1. Bystanders({c}) /\ pc'[c] = step
    BY <1>2, GotoDoes
  <2> QED
    BY <1>2, <2>1, QuietIsBooking
<1>3. CASE Decide(c)
  BY <1>1, <1>3 DEF Decide, Cancelling
<1>4. CASE Load(c)
  BY <1>1, <1>2, <1>4 DEF Load, Cancelling, Steps
<1>5. CASE CheckTrip(c)
  BY <1>1, <1>2, <1>5 DEF CheckTrip, Cancelling, Steps
<1>6. CASE Debit(c)
  <2>1. CASE Leave(c)
    BY <1>1, <1>6, <2>1 DEF Debit, Cancelling
  <2>2. CASE call' = [call EXCEPT ![c].held = Total] /\ Goto(c, "block")
    <3>1. PICK memory : memory = [call[c] EXCEPT !.held = Total]
      OBVIOUS
    <3>2. memory.operator = call[c].operator
      BY <1>0, <3>1 DEF Call
    <3>3. Bystanders({c}) /\ pc'[c] = "block" /\ call'[c] = memory
      BY <2>2, <3>1, OneCallDoes
    <3> QED
      BY <1>6, <3>2, <3>3, QuietIsBooking DEF Debit, Cancelling
  <2> QED
    BY <1>6, <2>1, <2>2 DEF Debit
<1>7. CASE Block(c)
  <2>1. ASSUME NEW k \in Attempts, NEW step \in {"fare", "create"}, Goto(c, step),
               ticket[k].state = "none", ticket' = [ticket EXCEPT ![k].state = "blocked"],
               call' = [call EXCEPT ![c].attempt = k]
        PROVE  Booking(c)
    <3>1. PICK memory : memory = [call[c] EXCEPT !.attempt = k]
      OBVIOUS
    <3>2. memory.operator = call[c].operator
      BY <1>0, <3>1 DEF Call
    <3>3. Bystanders({c}) /\ pc'[c] = step /\ call'[c] = memory
      BY <2>1, <3>1, OneCallDoes
    <3>4. /\ pc[c] = "block" /\ UNCHANGED <<row, torn, refused, unverified>>
          /\ ticket'[k].state = "blocked" /\ ticket'[k].gone = ticket[k].gone
          /\ \A l \in Attempts \ {k} : ticket'[l] = ticket[l]
      BY <1>0, <1>7, <2>1 DEF Block
    <3> QED
      BY <2>1, <3>2, <3>3, <3>4 DEF Booking, Cancelling, TakenBack
  <2>2. CASE Goto(c, "refund") /\ UNCHANGED <<ticket, call>>
    BY <1>2, <1>7, <2>2 DEF Block, Cancelling, Steps
  <2> QED
    BY <1>7, <2>1, <2>2 DEF Block
<1>8. CASE TakeFare(c)
  <2>1. ASSUME NEW price \in Prices, Goto(c, "create"), call' = [call EXCEPT ![c].held = price]
        PROVE  Booking(c)
    <3>1. PICK memory : memory = [call[c] EXCEPT !.held = price]
      OBVIOUS
    <3>2. memory.operator = call[c].operator
      BY <1>0, <3>1 DEF Call
    <3>3. Bystanders({c}) /\ pc'[c] = "create" /\ call'[c] = memory
      BY <2>1, <3>1, OneCallDoes
    <3> QED
      BY <1>8, <3>2, <3>3, QuietIsBooking DEF TakeFare, Cancelling
  <2>2. CASE Goto(c, "refund") /\ UNCHANGED call
    BY <1>2, <1>8, <2>2 DEF TakeFare, Cancelling, Steps
  <2> QED
    BY <1>8, <2>1, <2>2 DEF TakeFare
<1>9. CASE Refund(c)
  <2>1. refused \subseteq refused'
    BY <1>9 DEF Refund
  <2> QED
    BY <1>1, <1>9, <2>1 DEF Refund, Cancelling
<1>10. CASE CreateRow(c)
  <2>1. CASE torn' = torn \cup {Of(c)} /\ Leave(c) /\ UNCHANGED row
    BY <1>1, <1>10, <2>1 DEF CreateRow, Cancelling
  <2>2. CASE /\ row' = [row EXCEPT ![Of(c)] = [status |-> "BLOCKED", total |-> call[c].held]]
             /\ Goto(c, "book") /\ UNCHANGED <<torn, call>>
    <3>1. Bystanders({c}) /\ pc'[c] = "book"
      BY <2>2, GotoDoes
    <3>2. /\ pc[c] = "create" /\ Of(c) \in Attempts /\ row[Of(c)].status = "none"
          /\ ticket[Of(c)].state \in {"blocked", "lapsed"}
          /\ UNCHANGED <<ticket, refused, unverified>>
      BY <1>0, <1>10 DEF CreateRow, StepKnown, AttemptKnown, Attempting
    <3>3. \A k \in Attempts \ {Of(c)} : row'[k] = row[k]
      BY <1>0, <2>2
    <3> QED
      BY <2>2, <3>1, <3>2, <3>3 DEF Booking, Cancelling, Kept
  <2> QED
    BY <1>10, <2>1, <2>2 DEF CreateRow
<1>11. CASE Book(c)
  <2>1. /\ pc[c] = "book" /\ Of(c) \in Attempts /\ ticket[Of(c)].state \in {"blocked", "lapsed"}
        /\ UNCHANGED <<row, torn, refused, call>>
    BY <1>0, <1>11 DEF Book, StepKnown, AttemptKnown, Attempting
  <2>2. PICK step \in {"save", "check", "fail"} : Goto(c, step)
    BY <1>11 DEF Book
  <2>3. Bystanders({c}) /\ pc'[c] = step /\ Of(c)' = Of(c)
    BY <2>1, <2>2, GotoDoes DEF Of
  <2>4. CASE /\ ticket' = [ticket EXCEPT ![Of(c)].state = "booked"]
             /\ \/ step \in {"save", "check"} /\ UNCHANGED unverified
                \/ step = "fail" /\ unverified' = unverified \cup {Of(c)}
    <3>1. /\ ticket'[Of(c)].gone = ticket[Of(c)].gone
          /\ \A k \in Attempts \ {Of(c)} : ticket'[k] = ticket[k]
          /\ row[Of(c)].status = "BLOCKED"
      BY <1>0, <2>1, <2>4 DEF AttemptKnown
    <3> QED
      BY <2>1, <2>3, <2>4, <3>1 DEF Booking, Cancelling, Kept, TakenBack
  <2>5. CASE UNCHANGED <<ticket, unverified>>
    BY <2>1, <2>3, <2>5, QuietIsBooking DEF Cancelling
  <2>6. \/ UNCHANGED <<ticket, unverified>>
        \/ /\ ticket' = [ticket EXCEPT ![Of(c)].state = "booked"]
           /\ \/ pc'[c] \in {"save", "check"} /\ UNCHANGED unverified
              \/ pc'[c] = "fail" /\ unverified' = unverified \cup {Of(c)}
    BY <1>11 DEF Book, Goto, Typed, TypeOK, BusTypeOK
  <2> QED
    BY <2>3, <2>4, <2>5, <2>6
<1>12. CASE Check(c)
  <2>1. pc[c] = "check" /\ Of(c) \in Attempts /\ UNCHANGED <<row, ticket, torn, refused, call>>
    BY <1>0, <1>12 DEF Check, StepKnown, Attempting
  <2>2. PICK step \in {"save", "fail"} : Goto(c, step) /\ unverified \subseteq unverified'
    BY <1>12 DEF Check
  <2>3. Bystanders({c}) /\ pc'[c] = step /\ Of(c)' = Of(c)
    BY <2>1, <2>2, GotoDoes DEF Of
  <2>4. ticket[Of(c)].state = "booked" => step = "save" \/ Of(c) \in unverified'
    BY <1>12, <2>3 DEF Check, Found, Issued, Goto, Typed, TypeOK, BusTypeOK
  <2> QED
    BY <2>1, <2>2, <2>3, <2>4 DEF Booking, Cancelling
<1>13. CASE MarkFailed(c)
  <2>1. /\ pc[c] = "fail" /\ Of(c) \in Attempts /\ row[Of(c)].status = "BLOCKED"
        /\ Of(c) \in unverified \/ ticket[Of(c)].state \in {"blocked", "lapsed"}
        /\ UNCHANGED <<ticket, torn, refused, unverified, call>> /\ Goto(c, "refund")
        /\ \A k \in Attempts \ {Of(c)} : row'[k] = row[k]
    BY <1>0, <1>13 DEF MarkFailed, StepKnown, AttemptKnown, Attempting
  <2>2. Bystanders({c}) /\ pc'[c] = "refund"
    BY <2>1, GotoDoes
  <2> QED
    BY <2>1, <2>2 DEF Booking, Cancelling, Kept
<1>14. CASE SaveBooked(c)
  <2>1. /\ pc[c] = "save" /\ Of(c) \in Attempts /\ row[Of(c)].status = "BLOCKED"
        /\ UNCHANGED <<ticket, torn, refused, unverified>> /\ Goto(c, "mark")
        /\ row'[Of(c)].status = "BOOKED"
        /\ \A k \in Attempts \ {Of(c)} : row'[k] = row[k]
    BY <1>0, <1>14 DEF SaveBooked, StepKnown, AttemptKnown, Attempting
  <2>2. PICK memory : memory = [call[c] EXCEPT !.held = 0]
    OBVIOUS
  <2>3. memory.operator = call[c].operator
    BY <1>0, <2>2 DEF Call
  <2>4. Bystanders({c}) /\ pc'[c] = "mark" /\ call'[c] = memory
    BY <1>14, <2>1, <2>2, OutdatedDoes DEF SaveBooked
  <2> QED
    BY <2>1, <2>3, <2>4 DEF Booking, Cancelling, Kept
<1>15. CASE MarkApproval(c)
  BY <1>1, <1>15 DEF MarkApproval, Cancelling
<1>16. CASE CheckLock(c) \/ DeleteLock(c)
  <2>1. pc[c] \in {"unlock", "delete"} /\ UNCHANGED <<row, ticket, torn, refused, unverified>>
    BY <1>16 DEF CheckLock, DeleteLock
  <2>2. CASE Goto(c, "delete") /\ UNCHANGED call
    BY <1>2, <2>1, <2>2 DEF Cancelling, Steps
  <2>3. CASE Goto(c, "idle") /\ call' = [call EXCEPT ![c] = NoCall]
    <3>1. Bystanders({c}) /\ pc'[c] = "idle" /\ call'[c] = NoCall
      BY <2>3, OneCallDoes
    <3> QED
      BY <2>1, <3>1, QuietIsBooking DEF NoCall, Cancelling
  <2> QED
    BY <1>16, <2>2, <2>3 DEF CheckLock, DeleteLock
<1> QED
  BY <1>3, <1>4, <1>5, <1>6, <1>7, <1>8, <1>9, <1>10, <1>11, <1>12, <1>13, <1>14, <1>15, <1>16
  DEF BusProceed

LEMMA BookingTold ==
    ASSUME Typed, AttemptsKnown, CancelInv, NEW c \in Calls, Booking(c), UNCHANGED cancelVars, Typed'
    PROVE  CancelInv'
<1> USE DEF cancelVars
<1>0. /\ Bystanders({c}) /\ pc[c] \notin Cancelling /\ pc'[c] \notin Cancelling
      /\ call'[c].operator = FALSE
      /\ \A d \in Calls : CallTold(d) /\ StepKnown(d) /\ AttemptKnown(d)
  <2>1. call'[c].operator \in BOOLEAN
    BY DEF Typed, TypeOK, BusTypeOK, Call
  <2>2. ~call[c].operator
    BY DEF Booking, CancelInv, CallTold, WorkKnown
  <2> QED
    BY <2>1, <2>2 DEF Booking, CancelInv, AttemptsKnown
<1>1. ASSUME NEW d \in Calls PROVE CallTold(d)'
  <2>1. CASE d = c
    BY <1>0, <2>1 DEF CallTold, WorkKnown, RefundKnown, CopyKnown, Cancelling
  <2>2. CASE d # c
    <3>1. ASSUME pc[d] \in Cancelling PROVE Respects(d)
      <4>1. Of(d) \in Attempts /\ row[Of(d)].status \in Kept
        BY <1>0, <3>1 DEF StepKnown, AttemptKnown
      <4>2. row'[Of(d)] = row[Of(d)]
        BY <4>1 DEF Booking
      <4>3. PICK k \in Attempts : k = Of(d)
        BY <4>1
      <4>4. Covered(k)' = Covered(k)
        BY DEF Covered
      <4>5. Covered(Of(d))' = Covered(Of(d))
        <5>1. Of(d)' = Of(d)
          BY <1>0, <2>2 DEF Bystanders, Of
        <5> QED
          BY <4>3, <4>4, <5>1 DEF Covered
      <4>6. /\ ticket[k].state \in TakenBack => ticket'[k] = ticket[k]
            /\ ticket[k].gone \subseteq ticket'[k].gone
            /\ k \in refused => k \in refused'
            /\ cancels' = cancels
        BY <4>3 DEF Booking
      <4> QED
        BY <4>2, <4>3, <4>5, <4>6 DEF Respects
    <3> QED
      BY <1>0, <2>2, <3>1, BystanderTold
  <2> QED
    BY <2>1, <2>2
<1>2. CallsApart'
  BY <1>0, ApartKept DEF CancelInv, Cancelling
<1>3. ASSUME NEW k \in Attempts PROVE AttemptTold(k)'
  <2>1. /\ AttemptTold(k) /\ cancels'[k] = cancels[k] /\ settled'[k] = settled[k]
        /\ ticket'[k].gone = ticket[k].gone
        /\ row[k].status \in Kept => row'[k] = row[k]
        /\ k \notin torn' => k \notin torn
        /\ k \notin refused' => k \notin refused
        /\ k \notin unverified' => k \notin unverified
    BY DEF Booking, CancelInv
  <2>2. \A d \in Calls :
          \/ /\ d # c /\ pc'[d] = pc[d] /\ Of(d)' = Of(d)
             /\ call'[d].seats = call[d].seats /\ call'[d].operator = call[d].operator
             /\ call'[d].amount = call[d].amount /\ call'[d].outcome = call[d].outcome
          \/ d = c /\ pc[d] \notin Cancelling /\ pc'[d] \notin Cancelling
    BY <1>0 DEF Bystanders, Of
  <2>3. OperatorRow(k)' = OperatorRow(k)
    BY <2>1 DEF OperatorRow
  <2>4. CancelsKnown(k)'
    BY <2>1, <2>3 DEF AttemptTold, CancelsKnown, Booking
  <2>5. ASSUME k \notin torn' PROVE PolledOnce(k)'
    <3>1. PolledOnce(k) /\ (row[k].status = "OPERATOR_CANCELLED" => row'[k] = row[k])
      BY <2>1, <2>5 DEF AttemptTold, Kept, RowStatuses
    <3>2. \A d \in Calls : Of(d) = k /\ call[d].operator /\ pc[d] \in Written =>
                            Of(d)' = k /\ call'[d].operator /\ pc'[d] \in Written
      BY <2>2 DEF Written, Cancelling
    <3>3. \A d \in Calls : Of(d)' = k /\ call'[d].operator /\ pc'[d] \in {"fetch", "createRow"} =>
                            Of(d) = k /\ call[d].operator /\ pc[d] \in {"fetch", "createRow"}
      BY <2>2 DEF Cancelling
    <3> QED
      BY <2>3, <3>1, <3>2, <3>3 DEF PolledOnce
  <2>6. ASSUME k \notin torn' PROVE RefundsFit(k)'
    <3>0. Returned(k)' \subseteq Seats
      <4>1. ticket[k].gone \subseteq Seats
        BY DEF Typed, TypeOK, BusTypeOK
      <4> QED
        BY <2>1, <4>1 DEF Returned, AgentsReturned
    <3>1. CASE row[k].status \in Kept
      <4>1. RefundsFit(k) /\ row'[k] = row[k]
        BY <2>1, <2>6, <3>1 DEF AttemptTold
      <4>3. Due(k)' = Due(k) /\ \A d \in Due(k) : call'[d].seats = call[d].seats
        BY <2>2 DEF Due, Cancelling
      <4>4. OperatorDone(k)' = OperatorDone(k)
        BY <2>2, <2>3 DEF OperatorDone, Cancelling
      <4>5. UNION {call'[d].seats : d \in Due(k)'} = UNION {call[d].seats : d \in Due(k)}
        BY <4>3
      <4>6. AgentsReturned(k)' = AgentsReturned(k)
        BY <2>1, <4>5 DEF AgentsReturned
      <4>7. Returned(k)' = Returned(k)
        BY <2>1, <4>4, <4>6 DEF Returned
      <4>8. Overpaid(k) => Overpaid(k)'
        <5>1. Overpaid(k) => OperatorDone(k)'
          BY <4>4 DEF Overpaid
        <5> QED
          BY <2>1, <4>1, <4>6, <5>1, OverpaidKept
      <4> QED
        BY <2>1, <3>0, <4>1, <4>7, <4>8, RefundsKept
    <3>2. CASE row[k].status \notin Kept
      <4>1. settled'[k] = 0
        BY <2>1, <3>2 DEF AttemptTold, CancelsKnown
      <4>2. PICK n \in Nat : n = Cardinality(Returned(k)')
        BY <3>0, SeatsCounted
      <4>3. row'[k].total \in Nat
        BY DEF Typed, TypeOK, BusTypeOK
      <4>4. n * row'[k].total \in Nat
        BY <4>2, <4>3
      <4>5. (n * row'[k].total) \div Total >= 0
        BY <4>4, SeatsThere
      <4> QED
        BY <4>1, <4>2, <4>5 DEF RefundsFit, FareOf
    <3> QED
      BY <3>1, <3>2
  <2>7. ASSUME k \notin torn' PROVE CreditsTold(k)'
    <3>1. CreditsTold(k)
      BY <2>1, <2>7 DEF AttemptTold
    <3>2. CreditedRows(k)' = CreditedRows(k)
      BY <2>1 DEF CreditedRows
    <3>3. Crediting(k)' = Crediting(k) /\ \A d \in Crediting(k) : call'[d].amount = call[d].amount
      BY <2>2 DEF Crediting, Cancelling
    <3> QED
      BY <2>1, <3>1, <3>2, <3>3, CreditsKept
  <2>8. ASSUME k \notin torn' \cup refused', ticket'[k].state = "booked" PROVE SeatsTold(k)'
    <3>1. Covered(k)' = Covered(k)
      BY <2>1 DEF Covered
    <3>2. Unwritten(k)' = Unwritten(k)
      BY <2>2 DEF Unwritten, Cancelling
    <3>3. (ticket[k].gone = Covered(k) \cup Unwritten(k))'
      <4>1. CASE ticket[k].state = "booked"
        BY <2>1, <2>8, <3>1, <3>2, <4>1 DEF AttemptTold, SeatsTold
      <4>2. CASE ticket[k].state # "booked"
        <5>1. row[k].status \notin Kept
          BY <2>8, <4>2 DEF Booking
        <5>2. cancels[k] = <<>> /\ ticket[k].gone = {}
          BY <2>1, <5>1 DEF AttemptTold, CancelsKnown
        <5>3. Covered(k) = {}
          BY <5>2 DEF Covered, Range
        <5>4. Unwritten(k) = {}
          BY <1>0, <5>1 DEF Unwritten, AttemptKnown, Cancelling
        <5> QED
          BY <2>1, <3>1, <3>2, <5>2, <5>3, <5>4
      <4> QED
        BY <4>1, <4>2
    <3>4. ASSUME k \notin unverified'
          PROVE  \/ \E d \in Calls : Of(d)' = k /\ pc'[d] \in {"save", "check"} \cup Answered
                 \/ Shown(k)'
      <4>1. CASE Of(c)' = k /\ pc'[c] \in {"save", "check"}
        BY <4>1
      <4>2. CASE row[k].status \notin Kept /\ row'[k].status = "BOOKED"
        <5>1. ticket'[k].gone = {}
          BY <2>1, <4>2 DEF AttemptTold, CancelsKnown
        <5> QED
          BY <4>2, <5>1, BusAssumption DEF Shown
      <4>3. CASE ticket[k] = ticket'[k] /\ row'[k] = row[k] /\ (Of(c) = k => pc[c] \notin {"save", "check"})
        <5>1. SeatsTold(k) /\ k \notin unverified
          BY <2>1, <2>8, <3>4, <4>3 DEF AttemptTold
        <5>2. \/ \E d \in Calls : Of(d) = k /\ pc[d] \in {"save", "check"} \cup Answered
              \/ Shown(k)
          BY <5>1 DEF SeatsTold
        <5>3. \A d \in Calls : Of(d) = k /\ pc[d] \in {"save", "check"} \cup Answered =>
                                Of(d)' = k /\ pc'[d] \in {"save", "check"} \cup Answered
          BY <2>2, <4>3 DEF Cancelling, Answered
        <5>4. Shown(k)' = Shown(k)
          BY <4>3 DEF Shown
        <5> QED
          BY <5>2, <5>3, <5>4
      <4> QED
        BY <2>8, <3>4, <4>1, <4>2, <4>3 DEF Booking
    <3> QED
      BY <3>3, <3>4 DEF SeatsTold
  <2> QED
    BY <2>4, <2>5, <2>6, <2>7, <2>8 DEF AttemptTold
<1> QED
  BY <1>1, <1>2, <1>3 DEF CancelInv

-----------------------------------------------------------------------------
(* A step and the cancellations beside it *)

\* A step of c on k: what it does to the other calls on k and to k is enough.
LEMMA OthersTold ==
    ASSUME Typed, AttemptsKnown, CancelInv, NEW c \in Calls, NEW k \in Attempts, Bystanders({c}),
           Of(c) \in {k, None}, Of(c)' \in {k, None},
           \A l \in Attempts \ {k} : /\ row'[l] = row[l] /\ ticket'[l] = ticket[l]
                                     /\ cancels'[l] = cancels[l] /\ settled'[l] = settled[l],
           torn \subseteq torn', refused \subseteq refused', unverified \subseteq unverified',
           \A d \in Calls \ {c} : Of(d) = k /\ pc[d] \in Cancelling => Respects(d),
           CallTold(c)', CallsApart', AttemptTold(k)'
    PROVE  CancelInv'
<1>1. ASSUME NEW l \in Attempts \ {k} PROVE AttemptTold(l)'
  <2>1. Elsewhere({c}, l)
    BY <1>1, BusAssumption DEF Elsewhere
  <2> QED
    BY <1>1, <2>1, ElsewhereTold
<1>2. ASSUME NEW d \in Calls \ {c} PROVE CallTold(d)'
  <2>1. ASSUME pc[d] \in Cancelling, Of(d) # k PROVE Respects(d)
    <3>1. PICK l \in Attempts \ {k} : l = Of(d)
      BY <2>1 DEF AttemptsKnown, StepKnown
    <3>2. Of(d)' = l
      BY <3>1 DEF Bystanders, Of
    <3>3. /\ row'[l] = row[l] /\ ticket'[l] = ticket[l] /\ cancels'[l] = cancels[l]
          /\ l \in refused => l \in refused'
      BY <3>1
    <3>4. Covered(Of(d))' = Covered(Of(d))
      BY <3>1, <3>2, <3>3 DEF Covered
    <3> QED
      BY <3>1, <3>3, <3>4 DEF Respects
  <2> QED
    BY <2>1, BystanderTold DEF CancelInv
<1> QED
  BY <1>1, <1>2 DEF CancelInv

LEMMA EndTold ==
    ASSUME CancelInv, NEW c \in Calls, Bystanders({c}), pc'[c] \notin Cancelling, call'[c].operator = FALSE
    PROVE  CallTold(c)' /\ CallsApart'
<1>1. CallTold(c)'
  BY DEF CallTold, WorkKnown, RefundKnown, CopyKnown, Cancelling
<1>2. CallsApart'
  BY ApartKept DEF CancelInv, Cancelling
<1> QED
  BY <1>1, <1>2

LEMMA PolledKept ==
    ASSUME NEW c \in Calls, NEW k, Bystanders({c}), PolledOnce(k),
           row'[k].status = row[k].status, OperatorRow(k)' = OperatorRow(k),
           Of(c) = k /\ call[c].operator /\ pc[c] \in Written =>
             Of(c)' = k /\ call'[c].operator /\ pc'[c] \in Written,
           Of(c)' = k /\ call'[c].operator /\ pc'[c] \in {"fetch", "createRow"} => ~OperatorRow(k)
    PROVE  PolledOnce(k)'
<1>1. \A d \in Calls \ {c} : pc'[d] = pc[d] /\ Of(d)' = Of(d) /\ call'[d].operator = call[d].operator
  BY DEF Bystanders, Of
<1>2. \A d \in Calls : Of(d) = k /\ call[d].operator /\ pc[d] \in Written =>
                         Of(d)' = k /\ call'[d].operator /\ pc'[d] \in Written
  BY <1>1
<1>3. \A d \in Calls : Of(d)' = k /\ call'[d].operator /\ pc'[d] \in {"fetch", "createRow"} => ~OperatorRow(k)
  BY <1>1 DEF PolledOnce
<1> QED
  BY <1>2, <1>3 DEF PolledOnce

\* A step of c that leaves k as it is, for which nothing was cancelled at the supplier.
LEMMA NothingDone ==
    ASSUME Typed, CancelInv, NEW c \in Calls, NEW k \in Attempts, Bystanders({c}),
           row'[k] = row[k], ticket'[k] = ticket[k], cancels'[k] = cancels[k], settled'[k] = settled[k],
           k \in torn => k \in torn', k \in refused => k \in refused', k \in unverified => k \in unverified',
           Of(c) = k => pc[c] \notin {"save", "check"} \cup Answered,
           Of(c)' = k => \/ pc'[c] \notin {"save", "check"} \cup Answered
                         \/ call'[c].operator /\ pc'[c] = "createRow" /\ ticket[k].state \in TakenBack,
           Of(c)' = k /\ call'[c].operator /\ pc'[c] \in {"fetch", "createRow"} => ~OperatorRow(k) \/ k \in torn'
    PROVE  AttemptTold(k)'
<1>0. AttemptTold(k)
  BY DEF CancelInv
<1>1. OperatorRow(k)' = OperatorRow(k)
  BY DEF OperatorRow
<1>2. CancelsKnown(k)'
  BY <1>0, <1>1 DEF AttemptTold, CancelsKnown
<1>3. \A d \in Calls \ {c} :
        /\ pc'[d] = pc[d] /\ Of(d)' = Of(d)
        /\ call'[d].seats = call[d].seats /\ call'[d].operator = call[d].operator
        /\ call'[d].amount = call[d].amount /\ call'[d].outcome = call[d].outcome
  BY DEF Bystanders, Of
<1>4. ASSUME k \notin torn' PROVE PolledOnce(k)'
  <2>1. PolledOnce(k)
    BY <1>0, <1>4 DEF AttemptTold
  <2> QED
    BY <1>1, <1>4, <2>1, PolledKept DEF Written, Answered
<1>5. ASSUME k \notin torn' PROVE RefundsFit(k)'
  <2>1. RefundsFit(k)
    BY <1>0, <1>5 DEF AttemptTold
  <2>3. Due(k)' = Due(k) /\ \A d \in Due(k) : call'[d].seats = call[d].seats
    BY <1>3 DEF Due, Answered
  <2>4. OperatorDone(k)' = OperatorDone(k)
    BY <1>1, <1>3 DEF OperatorDone, Answered
  <2>5. UNION {call'[d].seats : d \in Due(k)'} = UNION {call[d].seats : d \in Due(k)}
    BY <2>3
  <2>6. AgentsReturned(k)' = AgentsReturned(k)
    BY <2>5 DEF AgentsReturned
  <2>7. Returned(k)' = Returned(k)
    BY <2>4, <2>6 DEF Returned
  <2>8. Overpaid(k) => Overpaid(k)'
    <3>1. Overpaid(k) => OperatorDone(k)'
      BY <2>4 DEF Overpaid
    <3> QED
      BY <2>6, <3>1, OverpaidKept
  <2> QED
    BY <2>1, <2>7, <2>8, RefundsKept, ReturnedTyped
<1>6. ASSUME k \notin torn' PROVE CreditsTold(k)'
  <2>1. CreditsTold(k)
    BY <1>0, <1>6 DEF AttemptTold
  <2>2. CreditedRows(k)' = CreditedRows(k)
    BY DEF CreditedRows
  <2>3. Crediting(k)' = Crediting(k) /\ \A d \in Crediting(k) : call'[d].amount = call[d].amount
    BY <1>3 DEF Crediting, Answered
  <2> QED
    BY <2>1, <2>2, <2>3, CreditsKept
<1>7. ASSUME k \notin torn' \cup refused', ticket'[k].state = "booked" PROVE SeatsTold(k)'
  <2>1. SeatsTold(k)
    BY <1>0, <1>7 DEF AttemptTold
  <2>2. Covered(k)' = Covered(k)
    BY DEF Covered
  <2>3. Of(c)' = k => pc'[c] \notin {"save", "check"} \cup Answered
    BY <1>7 DEF TakenBack
  <2>4. Unwritten(k)' = Unwritten(k)
    BY <1>3, <2>3 DEF Unwritten, Answered
  <2>5. Shown(k)' = Shown(k)
    BY DEF Shown
  <2>6. \A d \in Calls : Of(d) = k /\ pc[d] \in {"save", "check"} \cup Answered =>
                          Of(d)' = k /\ pc'[d] \in {"save", "check"} \cup Answered
    BY <1>3
  <2> QED
    BY <2>1, <2>2, <2>4, <2>5, <2>6 DEF SeatsTold
<1> QED
  BY <1>2, <1>4, <1>5, <1>6, <1>7 DEF AttemptTold

-----------------------------------------------------------------------------
(* Steps that cancel nothing at the supplier *)

LEMMA EnvironmentTold ==
    ASSUME Typed, AttemptsKnown, CancelInv,
           (BusEnvironment /\ UNCHANGED cancelVars) \/ UNCHANGED vars
    PROVE  CancelInv'
<1> USE DEF approvalVars, money, marks, cancelVars, vars, busVars
<1>1. /\ UNCHANGED <<row, torn, refused, unverified, pc, call, cancels, settled>>
      /\ \A k \in Attempts : \/ ticket'[k] = ticket[k]
                             \/ /\ ticket[k].state = "blocked" /\ ticket'[k].state = "lapsed"
                                /\ ticket'[k].gone = ticket[k].gone
  <2>1. CASE \E k \in Attempts : BlockLapses(k)
    BY <2>1 DEF BlockLapses, Typed, TypeOK, BusTypeOK
  <2> QED
    BY <2>1 DEF BusEnvironment, ExpiryPasses, SweepExpired, LockExpires
<1>2. Bystanders({})
  BY <1>1 DEF Bystanders
<1>3. ASSUME NEW c \in Calls PROVE CallTold(c)'
  <2>1. ASSUME pc[c] \in Cancelling PROVE Respects(c)
    <3>1. PICK k \in Attempts : k = Of(c)
      BY <2>1 DEF AttemptsKnown, StepKnown
    <3>2. Of(c)' = k /\ Covered(Of(c))' = Covered(Of(c))
      BY <1>1, <3>1 DEF Of, Covered
    <3> QED
      BY <1>1, <3>1, <3>2 DEF Respects, TakenBack
  <2> QED
    BY <1>2, <2>1, BystanderTold DEF CancelInv
<1>4. CallsApart'
  BY <1>1 DEF CancelInv, CallsApart, Of
<1>5. ASSUME NEW k \in Attempts PROVE AttemptTold(k)'
  <2>1. CASE ticket'[k] = ticket[k]
    <3>1. Elsewhere({}, k)
      BY <1>1, <2>1 DEF Elsewhere
    <3> QED
      BY <1>2, <3>1, ElsewhereTold
  <2>2. CASE /\ ticket[k].state = "blocked" /\ ticket'[k].state = "lapsed"
             /\ ticket'[k].gone = ticket[k].gone
    <3>1. AttemptTold(k)
      BY DEF CancelInv
    <3>2. /\ PolledOnce(k)' = PolledOnce(k) /\ CreditsTold(k)' = CreditsTold(k)
          /\ OperatorRow(k)' = OperatorRow(k) /\ OperatorDone(k)' = OperatorDone(k)
      BY <1>1 DEF PolledOnce, OperatorRow, OperatorDone, CreditsTold, RowAmount, CreditedRows, Amount, Crediting, Of
    <3>3. AgentsReturned(k)' = AgentsReturned(k) /\ Returned(k)' = Returned(k)
      BY <1>1, <2>2, <3>2 DEF Returned, AgentsReturned, Due, Of
    <3>4. RefundsFit(k)' = RefundsFit(k)
      BY <1>1, <2>2, <3>2, <3>3 DEF RefundsFit, Overpaid, FareOf
    <3>5. CancelsKnown(k)'
      BY <1>1, <2>2, <3>1, <3>2 DEF AttemptTold, CancelsKnown, TakenBack
    <3> QED
      BY <1>1, <2>2, <3>1, <3>2, <3>4, <3>5 DEF AttemptTold
  <2> QED
    BY <1>1, <2>1, <2>2
<1> QED
  BY <1>3, <1>4, <1>5 DEF CancelInv

LEMMA OperatorCancelsTold ==
    ASSUME Typed, AttemptsKnown, CancelInv, NEW k \in Attempts, OperatorCancels(k) \/ WindowPasses(k)
    PROVE  CancelInv'
<1> USE DEF approvalVars, money, marks, cancelVars
<1>1. /\ UNCHANGED <<row, torn, refused, unverified, pc, call, cancels, settled>>
      /\ ticket'[k].state \in TakenBack /\ ticket'[k].state # "booked"
      /\ ticket'[k].gone = ticket[k].gone
      /\ \A l \in Attempts \ {k} : ticket'[l] = ticket[l]
  BY DEF OperatorCancels, WindowPasses, TakenBack, Typed, TypeOK, BusTypeOK
<1>2. Bystanders({})
  BY <1>1 DEF Bystanders
<1>3. ASSUME NEW c \in Calls PROVE CallTold(c)'
  <2>1. ASSUME pc[c] \in Cancelling PROVE Respects(c)
    <3>1. PICK l \in Attempts : l = Of(c)
      BY <2>1 DEF AttemptsKnown, StepKnown
    <3>2. Of(c)' = l /\ Covered(Of(c))' = Covered(Of(c))
      BY <1>1, <3>1 DEF Of, Covered
    <3>3. /\ ticket[l].state \in TakenBack => ticket'[l].state \in TakenBack
          /\ ticket'[l].gone = ticket[l].gone
      BY <1>1
    <3> QED
      BY <1>1, <3>1, <3>2, <3>3 DEF Respects
  <2> QED
    BY <1>2, <2>1, BystanderTold DEF CancelInv
<1>4. CallsApart'
  BY <1>1 DEF CancelInv, CallsApart, Of
<1>5. ASSUME NEW l \in Attempts \ {k} PROVE AttemptTold(l)'
  <2>1. Elsewhere({}, l)
    BY <1>1 DEF Elsewhere
  <2> QED
    BY <1>2, <2>1, ElsewhereTold
<1>6. AttemptTold(k)'
  <2>1. AttemptTold(k)
    BY DEF CancelInv
  <2>2. /\ PolledOnce(k)' = PolledOnce(k) /\ CreditsTold(k)' = CreditsTold(k)
        /\ OperatorRow(k)' = OperatorRow(k) /\ OperatorDone(k)' = OperatorDone(k)
    BY <1>1 DEF PolledOnce, OperatorRow, OperatorDone, CreditsTold, RowAmount, CreditedRows, Amount, Crediting, Of
  <2>3. AgentsReturned(k)' = AgentsReturned(k) /\ Returned(k)' = Returned(k)
    BY <1>1, <2>2 DEF Returned, AgentsReturned, Due, Of
  <2>4. RefundsFit(k)' = RefundsFit(k)
    BY <1>1, <2>2, <2>3 DEF RefundsFit, Overpaid, FareOf
  <2>5. CancelsKnown(k)'
    BY <1>1, <2>1, <2>2 DEF AttemptTold, CancelsKnown
  <2> QED
    BY <1>1, <2>1, <2>2, <2>4, <2>5 DEF AttemptTold
<1> QED
  BY <1>3, <1>4, <1>5, <1>6 DEF CancelInv

LEMMA StartTold ==
    ASSUME Typed, AttemptsKnown, CancelInv, NEW c \in Calls, BusStart(c), UNCHANGED cancelVars, Typed'
    PROVE  CancelInv'
<1> USE DEF approvalVars, money, marks
<1>1. PICK memory, step :
        /\ step \in {"decide", "load"}
        /\ call' = [call EXCEPT ![c] = memory] /\ Goto(c, step) /\ memory.operator = FALSE
  <2>1. CASE ReadToDecide(c)
    <3>1. PICK decision \in {"approved", "rejected"} :
            call' = [call EXCEPT ![c] = [NoCall EXCEPT !.decision = decision]]
      BY <2>1 DEF ReadToDecide
    <3>2. PICK memory : memory = [NoCall EXCEPT !.decision = decision]
      OBVIOUS
    <3>3. memory.operator = FALSE
      BY <3>2 DEF NoCall
    <3>4. call' = [call EXCEPT ![c] = memory] /\ Goto(c, "decide")
      BY <2>1, <3>1, <3>2 DEF ReadToDecide
    <3> QED
      BY <3>3, <3>4
  <2>2. CASE Acquire(c)
    <3>1. PICK memory : memory = [NoCall EXCEPT !.locked = TRUE]
      OBVIOUS
    <3>2. memory.operator = FALSE
      BY <3>1 DEF NoCall
    <3>3. call' = [call EXCEPT ![c] = memory] /\ Goto(c, "load")
      BY <2>2, <3>1 DEF Acquire
    <3> QED
      BY <3>2, <3>3
  <2> QED
    BY <2>1, <2>2 DEF BusStart
<1>2. Bystanders({c}) /\ pc'[c] = step /\ call'[c] = memory
  BY <1>1, OneCallDoes
<1>3. pc[c] = "idle" /\ UNCHANGED <<row, ticket, torn, refused, unverified>>
  BY DEF BusStart, ReadToDecide, Acquire
<1>4. Booking(c)
  BY <1>1, <1>2, <1>3, QuietIsBooking DEF Cancelling
<1> QED
  BY <1>4, BookingTold

\* A call ends: at the supplier it has done nothing, or the attempt is torn.
LEMMA CallEndsTold ==
    ASSUME Typed, AttemptsKnown, CancelInv, NEW c \in Calls, Bystanders({c}),
           UNCHANGED <<row, ticket, refused, unverified, cancels, settled>>, torn \subseteq torn',
           pc'[c] \notin Cancelling, Of(c)' = None, call'[c].operator = FALSE,
           pc[c] \in {"save", "check"} \cup Answered => Of(c) \in torn'
    PROVE  CancelInv'
<1>1. CallTold(c)' /\ CallsApart'
  BY EndTold
<1>2. ASSUME NEW k \in Attempts PROVE AttemptTold(k)'
  <2>1. row'[k] = row[k] /\ ticket'[k] = ticket[k] /\ cancels'[k] = cancels[k] /\ settled'[k] = settled[k]
    OBVIOUS
  <2>2. CASE k \in torn'
    <3>1. OperatorRow(k)' = OperatorRow(k)
      BY <2>1 DEF OperatorRow
    <3>2. CancelsKnown(k)
      BY DEF CancelInv, AttemptTold
    <3>3. CancelsKnown(k)'
      BY <2>1, <3>1, <3>2 DEF CancelsKnown
    <3> QED
      BY <2>2, <3>3 DEF AttemptTold
  <2>3. CASE k \notin torn'
    <3>1. Of(c) = k => pc[c] \notin {"save", "check"} \cup Answered
      BY <2>3
    <3>2. Of(c)' # k
      BY BusAssumption
    <3> QED
      BY <2>1, <3>1, <3>2, NothingDone
  <2> QED
    BY <2>2, <2>3
<1>3. ASSUME NEW d \in Calls \ {c} PROVE CallTold(d)'
  <2>1. ASSUME pc[d] \in Cancelling PROVE Respects(d)
    <3>1. PICK k \in Attempts : k = Of(d)
      BY <2>1 DEF AttemptsKnown, StepKnown
    <3>2. Of(d)' = k
      BY <3>1 DEF Bystanders, Of
    <3>3. Covered(Of(d))' = Covered(Of(d))
      BY <3>1, <3>2 DEF Covered
    <3> QED
      BY <3>1, <3>3 DEF Respects
  <2> QED
    BY <2>1, BystanderTold DEF CancelInv
<1> QED
  BY <1>1, <1>2, <1>3 DEF CancelInv

LEMMA CrashTold ==
    ASSUME Typed, AttemptsKnown, CancelInv, NEW c \in Calls, Crash(c)
    PROVE  CancelInv'
<1> USE DEF approvalVars, money, marks, cancelVars
<1>1. /\ UNCHANGED <<row, ticket, refused, unverified, cancels, settled>>
      /\ Goto(c, "idle") /\ call' = [call EXCEPT ![c] = NoCall]
      /\ pc[c] \in Untold \cup {"createRow", "credit", "saveRow", "transition"} => Of(c) \in torn'
      /\ torn \subseteq torn'
  BY DEF Crash, CrashAt
<1>2. Bystanders({c}) /\ pc'[c] = "idle" /\ call'[c] = NoCall
  BY <1>1, OneCallDoes
<1>3. Of(c)' = None /\ call'[c].operator = FALSE
  BY <1>2 DEF Of, NoCall
<1>4. pc[c] \in {"save", "check"} \cup Answered => Of(c) \in torn'
  BY <1>1 DEF Untold, Answered
<1> QED
  BY <1>1, <1>2, <1>3, <1>4, CallEndsTold DEF Cancelling

\* What a call that changes no document of its attempt owes to the others on it.
LEMMA DocumentsKept ==
    ASSUME NEW c \in Calls, NEW k, Bystanders({c}),
           row'[k] = row[k], ticket'[k] = ticket[k], cancels'[k] = cancels[k], k \in refused => k \in refused'
    PROVE  \A d \in Calls \ {c} : Of(d) = k => Respects(d)
<1> SUFFICES ASSUME NEW d \in Calls \ {c}, Of(d) = k PROVE Respects(d)
  OBVIOUS
<1>1. Of(d)' = k
  BY DEF Bystanders, Of
<1>2. Covered(Of(d))' = Covered(Of(d))
  BY <1>1 DEF Covered
<1> QED
  BY <1>2 DEF Respects

LEMMA CancelStartTold ==
    ASSUME Typed, AttemptsKnown, CancelInv, NEW c \in Calls, NEW k \in Attempts,
           ReadForCancel(c, k) \/ PollOperator(c, k)
    PROVE  CancelInv'
<1> USE DEF approvalVars, money, marks, cancelVars
<1>1. /\ UNCHANGED <<row, ticket, torn, refused, unverified, cancels, settled>>
      /\ pc[c] = "idle" /\ Of(c) = None
  BY DEF ReadForCancel, PollOperator, AttemptsKnown, StepKnown, Unattached
<1>2. PICK memory, step :
        /\ step \in {"seats", "fetch"}
        /\ call' = [call EXCEPT ![c] = memory] /\ Goto(c, step)
        /\ memory.attempt = k /\ memory.read = row[k].status
        /\ memory.read # "OPERATOR_CANCELLED"
        /\ \/ step = "seats" /\ ~memory.operator
           \/ /\ step = "fetch" /\ memory.operator /\ memory.seats # {}
              /\ ticket[k].state \in TakenBack /\ (\A d \in Calls : ~call[d].operator)
  <2>1. CASE ReadForCancel(c, k)
    <3>1. PICK memory : memory = [NoCall EXCEPT !.attempt = k, !.read = row[k].status]
      OBVIOUS
    <3>2. memory.attempt = k /\ memory.read = row[k].status /\ memory.operator = FALSE
      BY <3>1 DEF NoCall
    <3>3. call' = [call EXCEPT ![c] = memory] /\ Goto(c, "seats")
      BY <2>1, <3>1 DEF ReadForCancel
    <3>4. memory.read # "OPERATOR_CANCELLED"
      BY <2>1, <3>2 DEF ReadForCancel, Cancellable
    <3> QED
      BY <3>2, <3>3, <3>4
  <2>2. CASE PollOperator(c, k)
    <3>1. PICK memory : memory = [NoCall EXCEPT
                  !.attempt = k, !.operator = TRUE, !.seats = Seats, !.read = row[k].status]
      OBVIOUS
    <3>2. /\ memory.attempt = k /\ memory.read = row[k].status /\ memory.seats = Seats
          /\ memory.operator = TRUE
      BY <3>1 DEF NoCall
    <3>3. call' = [call EXCEPT ![c] = memory] /\ Goto(c, "fetch")
      BY <2>2, <3>1 DEF PollOperator
    <3>4. memory.read # "OPERATOR_CANCELLED" /\ memory.seats # {}
      BY <2>2, <3>2, BusAssumption DEF PollOperator, Skipped
    <3>5. ticket[k].state \in TakenBack /\ (\A d \in Calls : ~call[d].operator)
      BY <2>2 DEF PollOperator, TakenBack
    <3> QED
      BY <3>2, <3>3, <3>4, <3>5
  <2> QED
    BY <2>1, <2>2
<1>3. Bystanders({c}) /\ pc'[c] = step /\ call'[c] = memory /\ Of(c)' = k
  BY <1>2, OneCallDoes DEF Of
<1>4. CallTold(c)'
  <2>1. WorkKnown(c)'
    BY <1>1, <1>2, <1>3 DEF WorkKnown, Cancelling
  <2>2. RefundKnown(c)'
    BY <1>2, <1>3 DEF RefundKnown
  <2>3. CopyKnown(c)'
    BY <1>1, <1>2, <1>3 DEF CopyKnown
  <2> QED
    BY <2>1, <2>2, <2>3 DEF CallTold
<1>5. CallsApart'
  BY <1>2, <1>3, ApartKept DEF CancelInv
<1>6. AttemptTold(k)'
  <2>1. call'[c].operator => ~OperatorRow(k) \/ k \in torn'
    <3> SUFFICES ASSUME call'[c].operator, k \notin torn, OperatorRow(k) PROVE FALSE
      BY <1>1
    <3>1. PolledOnce(k)
      BY DEF CancelInv, AttemptTold
    <3> QED
      BY <1>2, <1>3, <3>1 DEF PolledOnce
  <2>2. pc[c] \notin {"save", "check"} \cup Answered /\ pc'[c] \notin {"save", "check"} \cup Answered
    BY <1>1, <1>2, <1>3 DEF Answered
  <2> QED
    BY <1>1, <1>3, <2>1, <2>2, NothingDone
<1>7. \A d \in Calls \ {c} : Of(d) = k => Respects(d)
  BY <1>1, <1>3, DocumentsKept
<1> QED
  BY <1>1, <1>3, <1>4, <1>5, <1>6, <1>7, OthersTold

-----------------------------------------------------------------------------
(* What a cancellation does *)

\* A call at work on a cancellation, and what the documents say of it.
LEMMA AtWork ==
    ASSUME Typed, AttemptsKnown, CancelInv, NEW c \in Calls, pc[c] \in Cancelling
    PROVE  /\ Of(c) \in Attempts /\ Of(c) # None /\ row[Of(c)].status \in Kept
           /\ call[c] \in Call /\ call[c].seats \in SUBSET Seats
           /\ pc[c] # "seats" => call[c].seats # {}
           /\ call[c].operator \in BOOLEAN /\ call[c].amount \in Nat
           /\ CallTold(c) /\ CallKnown(c) /\ AttemptTold(Of(c))
<1>1. CallTold(c) /\ StepKnown(c) /\ AttemptKnown(c) /\ CallKnown(c) /\ call[c] \in Call
  BY DEF Typed, TypeOK, BusTypeOK, AttemptsKnown, CancelInv
<1>2. Of(c) \in Attempts /\ Of(c) # None
  BY <1>1, BusAssumption DEF StepKnown
<1>3. row[Of(c)].status \in Kept
  BY <1>1 DEF AttemptKnown
<1>4. AttemptTold(Of(c))
  BY <1>2 DEF CancelInv
<1>5. call[c].seats \in SUBSET Seats /\ call[c].operator \in BOOLEAN
  BY <1>1 DEF Call
<1>6. (pc[c] # "seats" => call[c].seats # {}) /\ call[c].amount \in Nat
  BY <1>1 DEF CallTold, WorkKnown, CallKnown
<1> QED
  BY <1>1, <1>2, <1>3, <1>4, <1>5, <1>6

LEMMA FetchTicketTold ==
    ASSUME Typed, AttemptsKnown, CancelInv, NEW c \in Calls, FetchTicket(c)
    PROVE  CancelInv'
<1> USE DEF approvalVars, money, marks, cancelVars
<1>1. PICK k \in Attempts : k = Of(c) /\ k # None
  BY AtWork DEF FetchTicket, Cancelling
<1>2. UNCHANGED <<row, ticket, torn, refused, unverified, cancels, settled>> /\ pc[c] = "fetch"
  BY DEF FetchTicket
<1>3. call[c] \in Call /\ CallTold(c) /\ AttemptTold(k)
  BY <1>1, <1>2, AtWork DEF Cancelling
<1>4. PICK amount \in {FareOf(k, Seats \ ticket[k].gone), row[k].total} :
        call' = [call EXCEPT ![c].amount = amount]
  BY <1>1 DEF FetchTicket
<1>5. PICK memory : memory = [call[c] EXCEPT !.amount = amount]
  OBVIOUS
<1>6. /\ memory.attempt = k /\ memory.read = call[c].read /\ memory.seats = call[c].seats
      /\ memory.operator = call[c].operator /\ memory.amount = amount /\ memory.stale = call[c].stale
  BY <1>1, <1>3, <1>5 DEF Call, Of
<1>7. Bystanders({c}) /\ pc'[c] = "createRow" /\ call'[c] = memory
  BY <1>4, <1>5, OneCallDoes DEF FetchTicket
<1>8. Of(c)' = k /\ call[c].operator /\ ticket[k].state \in TakenBack
  BY <1>1, <1>2, <1>3, <1>6, <1>7 DEF Of, CallTold, WorkKnown
<1>9. CallTold(c)'
  <2>1. WorkKnown(c)'
    BY <1>2, <1>3, <1>6, <1>7, <1>8 DEF CallTold, WorkKnown, Cancelling
  <2>2. row'[k].total = row[k].total /\ (Seats \ ticket[k].gone)' = Seats \ ticket[k].gone
    BY <1>2
  <2>3. FareOf(k, Seats \ ticket[k].gone)' = FareOf(k, Seats \ ticket[k].gone)
    BY <1>2 DEF FareOf
  <2>4. row[k].total \in Nat /\ FareOf(k, Seats \ ticket[k].gone) \in Nat
    <3>1. PICK S \in SUBSET Seats : S = Seats \ ticket[k].gone
      OBVIOUS
    <3> QED
      BY <3>1, FareIsNat DEF Typed, TypeOK, BusTypeOK
  <2>5. amount <= FareOf(k, Seats \ ticket[k].gone) \/ amount = row[k].total
    BY <1>4, <2>4
  <2>6. RefundKnown(c)'
    BY <1>6, <1>7, <1>8, <2>2, <2>3, <2>5 DEF RefundKnown
  <2>7. CopyKnown(c)'
    BY <1>1, <1>2, <1>3, <1>6, <1>7, <1>8 DEF CallTold, CopyKnown, Cancelling
  <2> QED
    BY <2>1, <2>6, <2>7 DEF CallTold
<1>10. CallsApart'
  BY <1>6, <1>7, <1>8, ApartKept DEF CancelInv
<1>11. AttemptTold(k)'
  <2>1. k \notin torn => ~OperatorRow(k)
    BY <1>1, <1>2, <1>3, <1>8 DEF AttemptTold, PolledOnce
  <2>2. Of(c)' = k => \/ pc'[c] \notin {"save", "check"} \cup Answered
                      \/ call'[c].operator /\ pc'[c] = "createRow" /\ ticket[k].state \in TakenBack
    BY <1>6, <1>7, <1>8
  <2> QED
    BY <1>2, <1>7, <2>1, <2>2, NothingDone DEF Answered
<1>12. \A d \in Calls \ {c} : Of(d) = k => Respects(d)
  BY <1>2, <1>7, DocumentsKept
<1> QED
  BY <1>1, <1>2, <1>7, <1>8, <1>9, <1>10, <1>11, <1>12, OthersTold

\* A call leaves before the supplier has answered it.
LEMMA FetchFailsTold ==
    ASSUME Typed, AttemptsKnown, CancelInv, NEW c \in Calls,
           pc[c] \in {"seats", "cancelTicket", "fetch"}, Leave(c),
           UNCHANGED <<row, ticket, torn, refused, unverified, cancels, settled>>
    PROVE  CancelInv'
<1>1. Bystanders({c}) /\ pc'[c] \in {"unlock", "idle"} /\ Of(c)' = None /\ call'[c].operator = FALSE
  BY LeaveDoes
<1> QED
  BY <1>1, CallEndsTold DEF Cancelling, Answered

LEMMA ReadSeatsTold ==
    ASSUME Typed, AttemptsKnown, CancelInv, NEW c \in Calls, ReadSeats(c)
    PROVE  CancelInv'
<1> USE DEF approvalVars, money, marks, cancelVars
<1>1. PICK k \in Attempts : k = Of(c) /\ k # None
  BY AtWork DEF ReadSeats, Cancelling
<1>2. UNCHANGED <<row, ticket, torn, refused, unverified, cancels, settled>> /\ pc[c] = "seats"
  BY DEF ReadSeats
<1>3. call[c] \in Call /\ CallTold(c) /\ ~call[c].operator
  BY <1>1, <1>2, AtWork DEF Cancelling, CallTold, WorkKnown
<1>4. CASE Leave(c)
  BY <1>2, <1>4, FetchFailsTold
<1>5. ASSUME NEW seats \in (SUBSET Seats) \ {{}}, Goto(c, "cancelTicket"),
             call' = [call EXCEPT ![c] = [@ EXCEPT !.seats = seats, !.covered = Covered(k)]]
      PROVE  CancelInv'
  <2>1. PICK covered : covered = Covered(k)
    OBVIOUS
  <2>2. PICK memory : memory = [call[c] EXCEPT !.seats = seats, !.covered = covered]
    OBVIOUS
  <2>3. /\ memory.attempt = k /\ memory.read = call[c].read /\ memory.seats = seats
        /\ memory.covered = covered /\ memory.operator = call[c].operator /\ memory.stale = call[c].stale
    BY <1>1, <1>3, <2>2 DEF Call, Of
  <2>4. Bystanders({c}) /\ pc'[c] = "cancelTicket" /\ call'[c] = memory
    <3>1. call' = [call EXCEPT ![c] = memory]
      BY <1>3, <1>5, <2>1, <2>2
    <3> QED
      BY <1>5, <3>1, OneCallDoes
  <2>5. Of(c)' = k /\ ~call'[c].operator
    BY <1>3, <2>3, <2>4 DEF Of
  <2>6. CallTold(c)'
    <3>0. call'[c].seats # {} /\ call'[c].read # "OPERATOR_CANCELLED"
      <4>1. seats # {}
        BY <1>5
      <4>2. call[c].read # "OPERATOR_CANCELLED"
        BY <1>2, <1>3 DEF CallTold, WorkKnown, Cancelling
      <4> QED
        BY <2>3, <2>4, <4>1, <4>2
    <3>1. WorkKnown(c)'
      BY <2>4, <2>5, <3>0 DEF WorkKnown, Cancelling
    <3>2. RefundKnown(c)'
      BY <2>4 DEF RefundKnown
    <3>3. Covered(Of(c))' = covered
      BY <1>2, <2>1, <2>5 DEF Covered
    <3>4. CopyKnown(c)'
      BY <1>1, <1>2, <1>3, <2>3, <2>4, <2>5, <3>3 DEF CallTold, CopyKnown, Cancelling, Written
    <3> QED
      BY <3>1, <3>2, <3>4 DEF CallTold
  <2>7. CallsApart'
    BY <2>4, <2>5, ApartKept DEF CancelInv
  <2>8. AttemptTold(k)'
    BY <1>2, <2>4, <2>5, NothingDone DEF Answered
  <2>9. \A d \in Calls \ {c} : Of(d) = k => Respects(d)
    BY <1>2, <2>4, DocumentsKept
  <2> QED
    BY <1>1, <1>2, <2>4, <2>5, <2>6, <2>7, <2>8, <2>9, OthersTold
<1> QED
  BY <1>1, <1>4, <1>5 DEF ReadSeats

LEMMA CancelTicketTold ==
    ASSUME Typed, AttemptsKnown, CancelInv, NEW c \in Calls, CancelTicket(c)
    PROVE  CancelInv'
<1> USE DEF approvalVars, money, marks, cancelVars
<1>1. PICK k \in Attempts : k = Of(c) /\ k # None
  BY AtWork DEF CancelTicket, Cancelling
<1>2. PICK S \in SUBSET Seats : S = call[c].seats
  BY AtWork DEF CancelTicket, Cancelling
<1>3. UNCHANGED <<row, refused, unverified, cancels, settled>> /\ pc[c] = "cancelTicket"
  BY DEF CancelTicket
<1>4. /\ call[c] \in Call /\ CallTold(c) /\ AttemptTold(k) /\ row[k].status \in Kept
      /\ ~call[c].operator
  BY <1>1, <1>3, AtWork DEF Cancelling, CallTold, WorkKnown, CancelTicket
<1>5. CASE Leave(c) /\ UNCHANGED <<ticket, torn>>
  BY <1>3, <1>5, FetchFailsTold
<1>6. CASE /\ ticket[k].state = "booked" /\ S \cap ticket[k].gone = {}
           /\ ticket' = [ticket EXCEPT ![k].gone = @ \cup S]
           /\ \/ /\ \E amount \in {0, FareOf(k, S)} : call' = [call EXCEPT ![c].amount = amount]
                 /\ Goto(c, "createRow")
                 /\ UNCHANGED torn
              \/ Leave(c) /\ torn' = torn \cup {k}
  <2>1. /\ ticket'[k].gone = ticket[k].gone \cup S /\ ticket'[k].state = "booked"
        /\ \A l \in Attempts \ {k} : ticket'[l] = ticket[l]
        /\ ticket[k].gone \in SUBSET Seats
    BY <1>6 DEF Typed, TypeOK, BusTypeOK
  <2>2. OperatorRow(k)' = OperatorRow(k)
    BY <1>3 DEF OperatorRow
  <2>3. CancelsKnown(k)'
    BY <1>3, <1>4, <1>6, <2>1, <2>2 DEF AttemptTold, CancelsKnown
  <2>4. ASSUME NEW d \in Calls \ {c}, Bystanders({c}), Of(d) = k PROVE Respects(d)
    <3>1. Of(d)' = k
      BY <2>4 DEF Bystanders, Of
    <3>2. Covered(Of(d))' = Covered(Of(d))
      BY <1>3, <2>4, <3>1 DEF Covered
    <3> QED
      BY <1>3, <1>6, <2>1, <2>4, <3>2 DEF Respects, TakenBack
  <2>5. CASE Leave(c) /\ torn' = torn \cup {k}
    <3>1. Bystanders({c}) /\ pc'[c] \in {"unlock", "idle"} /\ Of(c)' = None /\ call'[c].operator = FALSE
      BY <2>5, LeaveDoes
    <3>2. CallTold(c)' /\ CallsApart'
      BY <3>1, EndTold DEF Cancelling
    <3>3. AttemptTold(k)'
      BY <2>3, <2>5 DEF AttemptTold
    <3> QED
      BY <1>1, <1>3, <2>1, <2>4, <2>5, <3>1, <3>2, <3>3, OthersTold
  <2>6. CASE /\ \E amount \in {0, FareOf(k, S)} : call' = [call EXCEPT ![c].amount = amount]
             /\ Goto(c, "createRow") /\ UNCHANGED torn
    <3>1. PICK amount \in {0, FareOf(k, S)} : call' = [call EXCEPT ![c].amount = amount]
      BY <2>6
    <3>2. PICK memory : memory = [call[c] EXCEPT !.amount = amount]
      OBVIOUS
    <3>3. /\ memory.attempt = k /\ memory.read = call[c].read /\ memory.seats = S
          /\ memory.covered = call[c].covered
          /\ memory.operator = call[c].operator /\ memory.amount = amount /\ memory.stale = call[c].stale
      BY <1>1, <1>2, <1>4, <3>2 DEF Call, Of
    <3>4. Bystanders({c}) /\ pc'[c] = "createRow" /\ call'[c] = memory /\ Of(c)' = k
      <4>1. call' = [call EXCEPT ![c] = memory] /\ Goto(c, "createRow")
        BY <2>6, <3>1, <3>2
      <4>2. Bystanders({c}) /\ pc'[c] = "createRow" /\ call'[c] = memory
        BY <4>1, OneCallDoes
      <4> QED
        BY <3>3, <4>2 DEF Of
    <3>5. \A d \in Calls \ {c} :
            /\ pc'[d] = pc[d] /\ Of(d)' = Of(d)
            /\ call'[d].seats = call[d].seats /\ call'[d].operator = call[d].operator
            /\ call'[d].amount = call[d].amount /\ call'[d].outcome = call[d].outcome
      BY <3>4 DEF Bystanders, Of
    <3>6. CallTold(c)'
      <4>1. WorkKnown(c)'
        BY <1>2, <1>3, <1>4, <3>3, <3>4 DEF CallTold, WorkKnown, Cancelling
      <4>2. FareOf(k, S)' = FareOf(k, S) /\ FareOf(k, S) \in Nat
        BY <1>3, FareIsNat DEF FareOf
      <4>3. amount <= FareOf(k, S)
        BY <3>1, <4>2
      <4>4. call'[c].amount <= FareOf(k, call[c].seats)'
        BY <1>3, <3>3, <3>4, <4>3 DEF FareOf
      <4>5. RefundKnown(c)'
        BY <1>4, <2>1, <3>3, <3>4, <4>4 DEF RefundKnown
      <4>6. Covered(Of(c))' = Covered(Of(c))
        BY <1>1, <1>3, <3>4 DEF Covered
      <4>7. CopyKnown(c)'
        BY <1>1, <1>3, <1>4, <3>3, <3>4, <4>6 DEF CallTold, CopyKnown, Cancelling, Written
      <4> QED
        BY <4>1, <4>5, <4>7 DEF CallTold
    <3>7. CallsApart'
      <4>1. ASSUME NEW d \in Calls \ {c}, Of(d) = k, pc[d] \in {"createRow", "credit"}, ~call[d].operator
            PROVE  S \cap call[d].seats = {}
        <5>1. call[d].seats \subseteq ticket[k].gone
          BY <4>1 DEF CancelInv, CallTold, RefundKnown
        <5> QED
          BY <1>6, <5>1
      <4>2. \A d \in Calls \ {c} : call'[d].index = call[d].index
        BY <3>4 DEF Bystanders
      <4>3. CallsApart
        BY DEF CancelInv
      <4> QED
        BY <1>4, <3>3, <3>4, <3>5, <4>1, <4>2, <4>3 DEF CallsApart
    <3>8. ASSUME k \notin torn PROVE PolledOnce(k)'
      <4>1. PolledOnce(k)
        BY <1>4, <3>8 DEF AttemptTold
      <4> QED
        BY <1>3, <1>4, <2>2, <3>3, <3>4, <4>1, PolledKept DEF Written
    <3>9. ASSUME k \notin torn PROVE RefundsFit(k)'
      <4>1. RefundsFit(k) /\ ~OperatorRow(k)
        BY <1>4, <1>6, <3>9 DEF AttemptTold, CancelsKnown, TakenBack
      <4>2. ~Overpaid(k)
        BY <4>1 DEF Overpaid, OperatorDone
      <4>3. ~OperatorDone(k) /\ ~OperatorDone(k)'
        BY <2>2, <4>1 DEF OperatorDone
      <4>4. Due(k)' = Due(k) \cup {c} /\ c \notin Due(k)
        BY <1>3, <1>4, <3>3, <3>4, <3>5 DEF Due
      <4>5. UNION {call'[d].seats : d \in Due(k)'} = S \cup UNION {call[d].seats : d \in Due(k)}
        <5>1. Due(k) \subseteq Calls \ {c}
          BY <4>4 DEF Due
        <5>2. \A d \in Due(k) : call'[d].seats = call[d].seats
          BY <3>5, <5>1
        <5> QED
          BY <3>3, <3>4, <4>4, <5>2
      <4>6. Returned(k) = ticket[k].gone \ UNION {call[d].seats : d \in Due(k)}
        BY <4>3 DEF Returned, AgentsReturned
      <4>7. Returned(k)' = ticket'[k].gone \ UNION {call'[d].seats : d \in Due(k)'}
        BY <4>3 DEF Returned, AgentsReturned
      <4>8. Returned(k) \subseteq Returned(k)' /\ Returned(k)' \subseteq Seats
        BY <1>6, <2>1, <4>5, <4>6, <4>7
      <4> QED
        BY <1>3, <4>1, <4>2, <4>8, RefundsKept
    <3>10. ASSUME k \notin torn PROVE CreditsTold(k)'
      <4>1. CreditsTold(k)
        BY <1>4, <3>10 DEF AttemptTold
      <4>2. CreditedRows(k)' = CreditedRows(k)
        BY <1>3 DEF CreditedRows
      <4>3. Crediting(k)' = Crediting(k) /\ \A d \in Crediting(k) : call'[d].amount = call[d].amount
        BY <1>3, <3>4, <3>5 DEF Crediting
      <4> QED
        BY <1>3, <4>1, <4>2, <4>3, CreditsKept
    <3>11. ASSUME k \notin torn \cup refused PROVE SeatsTold(k)'
      <4>1. SeatsTold(k)
        BY <1>4, <1>6, <3>11 DEF AttemptTold
      <4>2. Covered(k)' = Covered(k)
        BY <1>3 DEF Covered
      <4>3. Unwritten(k)' = Unwritten(k) \cup S
        <5>1. PICK D : D = {d \in Calls : Of(d) = k /\ pc[d] = "createRow"}
          OBVIOUS
        <5>2. {d \in Calls : Of(d) = k /\ pc[d] = "createRow"}' = D \cup {c}
          BY <3>4, <3>5, <5>1
        <5>3. \A d \in D : call'[d].seats = call[d].seats
          BY <1>3, <3>5, <5>1
        <5> QED
          BY <3>3, <3>4, <5>1, <5>2, <5>3 DEF Unwritten
      <4> QED
        BY <2>1, <3>4, <4>1, <4>2, <4>3 DEF SeatsTold, Answered
    <3>12. AttemptTold(k)'
      BY <1>3, <2>3, <2>6, <3>8, <3>9, <3>10, <3>11 DEF AttemptTold
    <3> QED
      BY <1>1, <1>3, <2>1, <2>4, <2>6, <3>4, <3>6, <3>7, <3>12, OthersTold
  <2> QED
    BY <1>6, <2>5, <2>6
<1> QED
  BY <1>1, <1>2, <1>5, <1>6 DEF CancelTicket

LEMMA CreateCancellationTold ==
    ASSUME Typed, AttemptsKnown, CancelInv, NEW c \in Calls, CreateCancellation(c)
    PROVE  CancelInv'
<1> USE DEF approvalVars, money, marks, cancelVars
<1>1. PICK k \in Attempts : k = Of(c) /\ k # None
  BY AtWork DEF CreateCancellation, Cancelling
<1>2. PICK S \in SUBSET Seats : S = call[c].seats
  BY AtWork DEF CreateCancellation, Cancelling
<1>3. UNCHANGED <<row, ticket, torn, refused, unverified, settled>> /\ pc[c] = "createRow"
  BY DEF CreateCancellation
<1>4. /\ call[c] \in Call /\ CallTold(c) /\ AttemptTold(k) /\ row[k].status \in Kept
      /\ call[c].operator \in BOOLEAN /\ call[c].amount \in Nat
      /\ cancels[k] \in Seq(Cancellation)
  BY <1>1, <1>3, AtWork DEF Cancelling, Typed, TypeOK
<1>5. PICK n \in Nat : n = Len(cancels[k]) /\ DOMAIN cancels[k] = 1 .. n
  BY <1>4, LenProperties
<1>6. PICK r : r = [seats |-> S, operator |-> call[c].operator,
                    amount |-> call[c].amount, status |-> "INITIATED"]
  OBVIOUS
<1>7. /\ r \in Cancellation /\ r.seats = S /\ r.operator = call[c].operator
      /\ r.amount = call[c].amount /\ r.status = "INITIATED"
  BY <1>4, <1>6 DEF Cancellation
<1>8. /\ cancels'[k] = Append(cancels[k], r)
      /\ \A l \in Attempts \ {k} : cancels'[l] = cancels[l]
  BY <1>1, <1>2, <1>6 DEF CreateCancellation, Typed, TypeOK
<1>9. /\ DOMAIN cancels'[k] = 1 .. n + 1 /\ cancels'[k][n + 1] = r
      /\ \A i \in 1 .. n : cancels'[k][i] = cancels[k][i]
  BY <1>4, <1>5, <1>7, <1>8, AppendProperties
<1>10. PICK memory : memory = [call[c] EXCEPT !.index = Len(cancels[k]) + 1]
  OBVIOUS
<1>11. /\ memory.attempt = k /\ memory.read = call[c].read /\ memory.seats = S
       /\ memory.covered = call[c].covered /\ memory.outcome = call[c].outcome
       /\ memory.operator = call[c].operator /\ memory.amount = call[c].amount
       /\ memory.stale = call[c].stale /\ memory.index = n + 1
  BY <1>1, <1>2, <1>4, <1>5, <1>10 DEF Call, Of
<1>12. /\ Bystanders({c}) /\ pc'[c] = "credit" /\ call'[c] = memory /\ Of(c)' = k
       /\ \A d \in Calls \ {c} : Of(d) = k => call'[d].stale
  <2>1. call' = Outdated(c, k, memory) /\ Goto(c, "credit")
    BY <1>1, <1>10 DEF CreateCancellation
  <2>2. /\ Bystanders({c}) /\ pc'[c] = "credit" /\ call'[c] = memory
        /\ \A d \in Calls \ {c} : Of(d) = k => call'[d].stale
    BY <2>1, OutdatedDoes
  <2> QED
    BY <1>11, <2>2 DEF Of
<1>13. \A d \in Calls \ {c} :
         /\ pc'[d] = pc[d] /\ Of(d)' = Of(d) /\ call'[d].index = call[d].index
         /\ call'[d].seats = call[d].seats /\ call'[d].operator = call[d].operator
         /\ call'[d].amount = call[d].amount /\ call'[d].outcome = call[d].outcome
  BY <1>12 DEF Bystanders, Of
<1>14. Covered(k)' = Covered(k) \cup S
  <2>1. Range(cancels'[k]) = Range(cancels[k]) \cup {r}
    BY <1>5, <1>9 DEF Range
  <2>2. {t \in Range(cancels'[k]) : t.status \in {"INITIATED", "COMPLETED"}}
          = {t \in Range(cancels[k]) : t.status \in {"INITIATED", "COMPLETED"}} \cup {r}
    BY <1>7, <2>1
  <2> QED
    BY <1>7, <2>2 DEF Covered
<1>15. ASSUME NEW d \in Calls \ {c}, Of(d) = k, pc[d] \in {"credit", "saveRow"}
       PROVE  call[d].index \in 1 .. n
  BY <1>5, <1>15 DEF Typed, CallKnown
<1>16. \A d \in Calls \ {c} : Of(d) = k /\ pc[d] \in Cancelling => Respects(d)
  <2> SUFFICES ASSUME NEW d \in Calls \ {c}, Of(d) = k PROVE Respects(d)
    OBVIOUS
  <2> QED
    BY <1>3, <1>9, <1>12, <1>15 DEF Respects
<1>17. CallTold(c)'
  <2>1. WorkKnown(c)'
    BY <1>1, <1>2, <1>3, <1>4, <1>11, <1>12 DEF CallTold, WorkKnown, Cancelling
  <2>2. FareOf(k, call[c].seats)' = FareOf(k, S)
    BY <1>3, <1>11, <1>12 DEF FareOf
  <2>3. FareOf(k, Seats \ ticket[k].gone)' = FareOf(k, Seats \ ticket[k].gone)
    BY <1>3 DEF FareOf
  <2>4. RefundKnown(c)'
    BY <1>1, <1>2, <1>3, <1>4, <1>7, <1>9, <1>11, <1>12, <2>2, <2>3 DEF CallTold, RefundKnown
  <2>5. Covered(Of(c))' = Covered(k) \cup S
    BY <1>12, <1>14 DEF Covered
  <2>6. CopyKnown(c)'
    BY <1>1, <1>2, <1>3, <1>4, <1>11, <1>12, <2>5 DEF CallTold, CopyKnown, Cancelling, Written
  <2> QED
    BY <2>1, <2>4, <2>6 DEF CallTold
<1>18. CallsApart'
  <2>1. CallsApart
    BY DEF CancelInv
  <2>2. \A d \in Calls \ {c} : Of(d) = k /\ pc[d] \in {"credit", "saveRow"} => call[d].index # n + 1
    BY <1>15
  <2> QED
    BY <1>1, <1>2, <1>3, <1>11, <1>12, <1>13, <2>1, <2>2 DEF CallsApart
<1>19. OperatorRow(k)' <=> OperatorRow(k) \/ call[c].operator
  <2>1. \A i \in 1 .. n : cancels'[k][i].operator = cancels[k][i].operator
    BY <1>9
  <2>2. cancels'[k][n + 1].operator = call[c].operator /\ n + 1 \in 1 .. n + 1
    BY <1>7, <1>9
  <2>3. OperatorRow(k)' => OperatorRow(k) \/ call[c].operator
    <3> SUFFICES ASSUME NEW i \in 1 .. n + 1, cancels'[k][i].operator
                 PROVE  OperatorRow(k) \/ call[c].operator
      BY <1>9 DEF OperatorRow
    <3>1. CASE i = n + 1
      BY <2>2, <3>1
    <3>2. CASE i # n + 1
      <4>1. i \in 1 .. n
        BY <3>2
      <4> QED
        BY <1>5, <2>1, <4>1 DEF OperatorRow
    <3> QED
      BY <3>1, <3>2
  <2>4. OperatorRow(k) => OperatorRow(k)'
    <3> SUFFICES ASSUME NEW i \in 1 .. n, cancels[k][i].operator PROVE OperatorRow(k)'
      BY <1>5 DEF OperatorRow
    <3>1. i \in 1 .. n + 1 /\ cancels'[k][i].operator
      BY <2>1
    <3> QED
      BY <1>9, <3>1 DEF OperatorRow
  <2>5. call[c].operator => OperatorRow(k)'
    BY <1>9, <2>2 DEF OperatorRow
  <2> QED
    BY <2>3, <2>4, <2>5
<1>20. CancelsKnown(k)'
  BY <1>1, <1>3, <1>4, <1>19 DEF AttemptTold, CancelsKnown, CallTold, WorkKnown
<1>21. ASSUME k \notin torn PROVE PolledOnce(k)'
  <2>1. PolledOnce(k)
    BY <1>4, <1>21 DEF AttemptTold
  <2>2. CASE call[c].operator
    <3>1. \A d \in Calls \ {c} : ~call'[d].operator
      BY <1>13, <2>2 DEF CancelInv, CallsApart
    <3> QED
      BY <1>11, <1>12, <2>2, <3>1 DEF PolledOnce, Written
  <2>3. CASE ~call[c].operator
    <3>1. OperatorRow(k)' = OperatorRow(k)
      BY <1>19, <2>3 DEF OperatorRow
    <3> QED
      BY <1>3, <1>11, <1>12, <2>1, <2>3, <3>1, PolledKept
  <2> QED
    BY <2>2, <2>3
<1>22. ASSUME k \notin torn PROVE RefundsFit(k)'
  <2>1. RefundsFit(k) /\ PolledOnce(k)
    BY <1>4, <1>22 DEF AttemptTold
  <2>3. Due(k)' = Due(k)
    BY <1>1, <1>3, <1>11, <1>12, <1>13 DEF Due
  <2>4. \A d \in Due(k) : call'[d].seats = call[d].seats
    BY <1>2, <1>11, <1>12, <1>13 DEF Due
  <2>5. UNION {call'[d].seats : d \in Due(k)'} = UNION {call[d].seats : d \in Due(k)}
    BY <2>3, <2>4
  <2>6. OperatorDone(k)' <=> OperatorDone(k)
    <3>1. CASE call[c].operator
      <4>1. ~OperatorRow(k)
        BY <1>1, <1>3, <2>1, <3>1 DEF PolledOnce
      <4>2. ~OperatorDone(k)'
        BY <1>11, <1>12, <3>1 DEF OperatorDone
      <4> QED
        BY <4>1, <4>2 DEF OperatorDone
    <3>2. CASE ~call[c].operator
      BY <1>11, <1>12, <1>13, <1>19, <3>2 DEF OperatorDone
    <3> QED
      BY <3>1, <3>2
  <2>7. AgentsReturned(k)' = AgentsReturned(k)
    BY <1>3, <2>5 DEF AgentsReturned
  <2>8. Returned(k)' = Returned(k)
    BY <1>3, <2>6, <2>7 DEF Returned
  <2>9. Overpaid(k) => Overpaid(k)'
    <3>1. Overpaid(k) => OperatorDone(k)'
      BY <2>6 DEF Overpaid
    <3>2. DOMAIN cancels[k] \subseteq DOMAIN cancels'[k]
      BY <1>5, <1>9
    <3> QED
      BY <1>3, <1>5, <1>9, <2>7, <3>1, <3>2, OverpaidKept
  <2> QED
    BY <1>3, <2>1, <2>8, <2>9, RefundsKept, ReturnedTyped
<1>23. ASSUME k \notin torn PROVE CreditsTold(k)'
  <2>1. CreditsTold(k)
    BY <1>4, <1>23 DEF AttemptTold
  <2>2. CreditedRows(k)' = CreditedRows(k)
    BY <1>5, <1>7, <1>9 DEF CreditedRows, Credited
  <2>3. \A i \in CreditedRows(k) : cancels'[k][i].amount = cancels[k][i].amount
    BY <1>5, <1>9 DEF CreditedRows
  <2>4. Crediting(k)' = Crediting(k) /\ \A d \in Crediting(k) : call'[d].amount = call[d].amount
    BY <1>3, <1>12, <1>13 DEF Crediting
  <2> QED
    BY <1>3, <2>1, <2>2, <2>3, <2>4, CreditsKept
<1>24. ASSUME k \notin torn \cup refused, ticket[k].state = "booked" PROVE SeatsTold(k)'
  <2>1. SeatsTold(k)
    BY <1>4, <1>24 DEF AttemptTold
  <2>2. Unwritten(k) = Unwritten(k)' \cup S
    <3>1. PICK D : D = {d \in Calls : Of(d) = k /\ pc[d] = "createRow"}
      OBVIOUS
    <3>2. PICK E : E = {d \in Calls : Of(d) = k /\ pc[d] = "createRow"}'
      OBVIOUS
    <3>3. D = E \cup {c} /\ \A d \in E : call'[d].seats = call[d].seats
      BY <1>1, <1>3, <1>12, <1>13, <3>1, <3>2
    <3> QED
      BY <1>2, <3>1, <3>2, <3>3 DEF Unwritten
  <2> QED
    BY <1>3, <1>12, <1>14, <2>1, <2>2 DEF SeatsTold, Answered
<1>25. AttemptTold(k)'
  BY <1>3, <1>20, <1>21, <1>22, <1>23, <1>24 DEF AttemptTold
<1> QED
  BY <1>1, <1>3, <1>8, <1>12, <1>16, <1>17, <1>18, <1>25, OthersTold

LEMMA TransitionTold ==
    ASSUME Typed, AttemptsKnown, CancelInv, NEW c \in Calls, Transition(c)
    PROVE  CancelInv'
<1> USE DEF approvalVars, money, marks, cancelVars
<1>1. PICK k \in Attempts : k = Of(c) /\ k # None
  BY AtWork DEF Transition, Cancelling
<1>2. PICK S \in SUBSET Seats : S = call[c].seats /\ S # {}
  BY AtWork DEF Transition, Cancelling
<1>3. UNCHANGED <<ticket, refused, unverified, cancels, settled>> /\ pc[c] = "transition"
  BY DEF Transition
<1>4. /\ call[c] \in Call /\ CallTold(c) /\ AttemptTold(k) /\ row[k].status \in Kept
  BY <1>1, <1>3, AtWork DEF Cancelling
<1>5. PICK status : status = NewStatus(c)
  OBVIOUS
<1>6. /\ status \in {"OPERATOR_CANCELLED", "CANCELLED", "PARTIALLY_CANCELLED"}
      /\ call[c].operator => status = "OPERATOR_CANCELLED"
      /\ ~call[c].operator => status = IF S \cup call[c].covered = Seats THEN "CANCELLED" ELSE "PARTIALLY_CANCELLED"
  BY <1>2, <1>5 DEF NewStatus
<1>7. /\ row'[k].total = row[k].total
      /\ \A l \in Attempts \ {k} : row'[l] = row[l]
      /\ row'[k].status = IF status = call[c].read THEN row[k].status ELSE status
  BY <1>1, <1>5 DEF Transition, Typed, TypeOK, BusTypeOK
<1>8. torn \subseteq torn' /\ (k \notin torn' => k \notin torn /\ ~call[c].stale)
  BY <1>1, <1>4 DEF Transition, Call
<1>9. /\ Bystanders({c}) /\ pc'[c] = "idle" /\ call'[c] = NoCall
      /\ \A d \in Calls \ {c} : Of(d) = k => call'[d].stale
  BY <1>1, OutdatedDoes DEF Transition
<1>10. Of(c)' = None /\ call'[c].operator = FALSE
  BY <1>9 DEF Of, NoCall
<1>11. CallTold(c)' /\ CallsApart'
  BY <1>9, <1>10, EndTold DEF Cancelling
<1>12. \A d \in Calls \ {c} :
         /\ pc'[d] = pc[d] /\ Of(d)' = Of(d)
         /\ call'[d].seats = call[d].seats /\ call'[d].operator = call[d].operator
         /\ call'[d].amount = call[d].amount /\ call'[d].outcome = call[d].outcome
  BY <1>9 DEF Bystanders, Of
<1>13. \A d \in Calls \ {c} : Of(d) = k /\ pc[d] \in Cancelling => Respects(d)
  BY <1>3, <1>7, <1>9 DEF Respects
<1>14. OperatorRow(k)' = OperatorRow(k)
  BY <1>3 DEF OperatorRow
<1>15. CancelsKnown(k)'
  BY <1>3, <1>4, <1>6, <1>7, <1>14 DEF AttemptTold, CancelsKnown, Kept, RowStatuses
<1>16. ASSUME k \notin torn' PROVE PolledOnce(k)'
  <2>1. PolledOnce(k)
    BY <1>4, <1>8, <1>16 DEF AttemptTold
  <2>2. row[k].status # "OPERATOR_CANCELLED"
    BY <1>1, <1>3, <1>4, <1>8, <1>16 DEF CallTold, CopyKnown, Cancelling
  <2>3. call[c].operator => row'[k].status = "OPERATOR_CANCELLED"
    BY <1>3, <1>4, <1>6, <1>7 DEF CallTold, WorkKnown, Cancelling
  <2>4. OperatorRow(k) => \E d \in Calls : Of(d) = k /\ call[d].operator /\ pc[d] \in Written
    BY <2>1, <2>2 DEF PolledOnce
  <2>5. OperatorRow(k) => \/ row'[k].status = "OPERATOR_CANCELLED"
                          \/ \E d \in Calls : Of(d)' = k /\ call'[d].operator /\ pc'[d] \in Written
    BY <1>12, <2>3, <2>4
  <2>6. \A d \in Calls : Of(d)' = k /\ call'[d].operator /\ pc'[d] \in {"fetch", "createRow"} => ~OperatorRow(k)
    BY <1>10, <1>12, <2>1 DEF PolledOnce
  <2> QED
    BY <1>14, <2>5, <2>6 DEF PolledOnce
<1>17. ASSUME k \notin torn' PROVE RefundsFit(k)'
  <2>1. RefundsFit(k)
    BY <1>4, <1>8, <1>17 DEF AttemptTold
  <2>3. Due(k)' = Due(k) /\ \A d \in Due(k) : call'[d].seats = call[d].seats
    BY <1>3, <1>9, <1>12 DEF Due
  <2>4. OperatorDone(k)' = OperatorDone(k)
    BY <1>3, <1>9, <1>12, <1>14 DEF OperatorDone
  <2>5. UNION {call'[d].seats : d \in Due(k)'} = UNION {call[d].seats : d \in Due(k)}
    BY <2>3
  <2>6. AgentsReturned(k)' = AgentsReturned(k)
    BY <1>3, <2>5 DEF AgentsReturned
  <2>7. Returned(k)' = Returned(k)
    BY <1>3, <2>4, <2>6 DEF Returned
  <2>8. Overpaid(k) => Overpaid(k)'
    <3>1. Overpaid(k) => OperatorDone(k)'
      BY <2>4 DEF Overpaid
    <3> QED
      BY <1>3, <1>7, <2>6, <3>1, OverpaidKept
  <2> QED
    BY <1>3, <1>7, <2>1, <2>7, <2>8, RefundsKept, ReturnedTyped
<1>18. ASSUME k \notin torn' PROVE CreditsTold(k)'
  <2>1. CreditsTold(k)
    BY <1>4, <1>8, <1>18 DEF AttemptTold
  <2>2. CreditedRows(k)' = CreditedRows(k)
    BY <1>3 DEF CreditedRows
  <2>3. Crediting(k)' = Crediting(k) /\ \A d \in Crediting(k) : call'[d].amount = call[d].amount
    BY <1>3, <1>9, <1>12 DEF Crediting
  <2> QED
    BY <1>3, <2>1, <2>2, <2>3, CreditsKept
<1>19. ASSUME k \notin torn' \cup refused, ticket[k].state = "booked" PROVE SeatsTold(k)'
  <2>1. SeatsTold(k) /\ ~call[c].stale /\ k \notin refused
    BY <1>4, <1>8, <1>19 DEF AttemptTold
  <2>2. ~call[c].operator
    BY <1>1, <1>4, <1>19 DEF CallTold, WorkKnown, TakenBack
  <2>3. Covered(k)' = Covered(k)
    BY <1>3 DEF Covered
  <2>4. Unwritten(k)' = Unwritten(k)
    BY <1>3, <1>9, <1>12 DEF Unwritten
  <2>5. CASE \E d \in Calls \ {c} : Of(d) = k /\ pc[d] \in {"save", "check"} \cup Answered
    <3>1. \E d \in Calls : Of(d)' = k /\ pc'[d] \in {"save", "check"} \cup Answered
      BY <1>12, <2>5
    <3> QED
      BY <1>3, <2>1, <2>3, <2>4, <3>1 DEF SeatsTold
  <2>6. CASE ~\E d \in Calls \ {c} : Of(d) = k /\ pc[d] \in {"save", "check"} \cup Answered
    <3>1. Unwritten(k) = {}
      BY <1>3, <2>6 DEF Unwritten, Answered
    <3>2. call[c].read = row[k].status /\ Covered(k) = call[c].covered \cup S
      BY <1>1, <1>2, <1>3, <1>4, <2>1, <2>2 DEF CallTold, CopyKnown, Cancelling, Written
    <3>3. ticket[k].gone = call[c].covered \cup S
      BY <2>1, <3>1, <3>2 DEF SeatsTold
    <3>4. row'[k].status = IF ticket[k].gone = Seats THEN "CANCELLED" ELSE "PARTIALLY_CANCELLED"
      <4>1. row'[k].status = status
        BY <1>7, <3>2
      <4>2. S \cup call[c].covered = ticket[k].gone
        BY <3>3
      <4> QED
        BY <1>6, <2>2, <4>1, <4>2
    <3>5. ticket[k].gone # {}
      BY <1>2, <3>3
    <3>6. Shown(k)'
      BY <1>3, <3>4, <3>5 DEF Shown
    <3> QED
      BY <1>3, <2>1, <2>3, <2>4, <3>6 DEF SeatsTold
  <2> QED
    BY <2>5, <2>6
<1>20. AttemptTold(k)'
  BY <1>3, <1>15, <1>16, <1>17, <1>18, <1>19 DEF AttemptTold
<1> QED
  BY <1>1, <1>3, <1>7, <1>8, <1>9, <1>10, <1>11, <1>13, <1>20, OthersTold

\* The sums of CreditsTold are sums of amounts.
LEMMA CreditsTyped ==
    ASSUME Typed, NEW k \in Attempts
    PROVE  /\ IsFiniteSet(CreditedRows(k)) /\ CreditedRows(k) \subseteq DOMAIN cancels[k]
           /\ IsFiniteSet(Crediting(k)) /\ Crediting(k) \subseteq Calls
           /\ \A i \in DOMAIN cancels[k] : cancels[k][i] \in Cancellation /\ RowAmount(k)[i] \in Int
           /\ \A c \in Calls : Amount[c] = call[c].amount /\ Amount[c] \in Int
<1>1. cancels[k] \in Seq(Cancellation)
  BY DEF Typed, TypeOK
<1>2. DOMAIN cancels[k] = 1 .. Len(cancels[k]) /\ Len(cancels[k]) \in Nat
  BY <1>1, LenProperties
<1>3. IsFiniteSet(DOMAIN cancels[k])
  BY <1>2, FS_Interval
<1>4. CreditedRows(k) \subseteq DOMAIN cancels[k]
  BY DEF CreditedRows
<1>5. \A i \in DOMAIN cancels[k] : cancels[k][i] \in Cancellation
  BY <1>1, <1>2, ElementOfSeq
<1>6. \A i \in DOMAIN cancels[k] : RowAmount(k)[i] \in Int
  BY <1>5 DEF RowAmount, Cancellation
<1>7. \A c \in Calls : Amount[c] = call[c].amount /\ Amount[c] \in Int
  BY DEF Amount, Typed, CallKnown
<1>8. Crediting(k) \subseteq Calls
  BY DEF Crediting
<1> QED
  BY <1>3, <1>4, <1>5, <1>6, <1>7, <1>8, BusAssumption, FS_Subset

LEMMA CreditRefundTold ==
    ASSUME Typed, AttemptsKnown, CancelInv, NEW c \in Calls, CreditRefund(c)
    PROVE  CancelInv'
<1> USE DEF approvalVars, money, marks, cancelVars
<1>1. PICK k \in Attempts : k = Of(c) /\ k # None
  BY AtWork DEF CreditRefund, Cancelling
<1>2. PICK S \in SUBSET Seats : S = call[c].seats
  BY AtWork DEF CreditRefund, Cancelling
<1>3. PICK a \in Nat : a = call[c].amount
  BY AtWork DEF CreditRefund, Cancelling
<1>4. UNCHANGED <<row, ticket, torn, unverified, cancels>> /\ pc[c] = "credit" /\ refused \subseteq refused'
  BY DEF CreditRefund
<1>5. /\ call[c] \in Call /\ CallTold(c) /\ AttemptTold(k) /\ row[k].status \in Kept
      /\ call[c].operator \in BOOLEAN /\ settled[k] \in Nat
  BY <1>1, <1>4, AtWork DEF Cancelling, Typed, TypeOK
<1>6. PICK outcome :
        /\ outcome \in {"COMPLETED", "FAILED"}
        /\ call' = [call EXCEPT ![c].outcome = outcome]
        /\ outcome = "COMPLETED" => settled' = [settled EXCEPT ![k] = @ + a] /\ refused' = refused
        /\ outcome = "FAILED" => settled' = settled /\ refused' = refused \cup {k}
  BY <1>1, <1>3 DEF CreditRefund
<1>7. PICK memory : memory = [call[c] EXCEPT !.outcome = outcome]
  OBVIOUS
<1>8. /\ memory.attempt = k /\ memory.read = call[c].read /\ memory.seats = S
      /\ memory.covered = call[c].covered /\ memory.outcome = outcome
      /\ memory.operator = call[c].operator /\ memory.amount = a
      /\ memory.stale = call[c].stale /\ memory.index = call[c].index
  BY <1>1, <1>2, <1>3, <1>5, <1>7 DEF Call, Of
<1>9. Bystanders({c}) /\ pc'[c] = "saveRow" /\ call'[c] = memory /\ Of(c)' = k
  <2>1. call' = [call EXCEPT ![c] = memory] /\ Goto(c, "saveRow")
    BY <1>6, <1>7 DEF CreditRefund
  <2>2. Bystanders({c}) /\ pc'[c] = "saveRow" /\ call'[c] = memory
    BY <2>1, OneCallDoes
  <2> QED
    BY <1>8, <2>2 DEF Of
<1>10. \A d \in Calls \ {c} :
         /\ pc'[d] = pc[d] /\ Of(d)' = Of(d)
         /\ call'[d].seats = call[d].seats /\ call'[d].operator = call[d].operator
         /\ call'[d].amount = call[d].amount /\ call'[d].outcome = call[d].outcome
  BY <1>9 DEF Bystanders, Of
<1>11. /\ settled'[k] = IF outcome = "COMPLETED" THEN settled[k] + a ELSE settled[k]
       /\ \A l \in Attempts \ {k} : settled'[l] = settled[l]
  BY <1>6 DEF Typed, TypeOK
<1>12. \A d \in Calls \ {c} : Of(d) = k => Respects(d)
  BY <1>4, <1>9, DocumentsKept
<1>13. CallTold(c)'
  <2>1. WorkKnown(c)'
    BY <1>1, <1>2, <1>4, <1>5, <1>8, <1>9 DEF CallTold, WorkKnown, Cancelling
  <2>2. RefundKnown(c)'
    BY <1>1, <1>2, <1>3, <1>4, <1>5, <1>6, <1>8, <1>9 DEF CallTold, RefundKnown
  <2>3. Covered(Of(c))' = Covered(k)
    BY <1>4, <1>9 DEF Covered
  <2>4. CopyKnown(c)'
    BY <1>1, <1>2, <1>4, <1>5, <1>8, <1>9, <2>3 DEF CallTold, CopyKnown, Cancelling, Written
  <2> QED
    BY <2>1, <2>2, <2>4 DEF CallTold
<1>14. CallsApart'
  BY <1>1, <1>4, <1>8, <1>9, ApartKept DEF CancelInv
<1>15. OperatorRow(k)' = OperatorRow(k)
  BY <1>4 DEF OperatorRow
<1>16. CancelsKnown(k)'
  BY <1>4, <1>5, <1>15 DEF AttemptTold, CancelsKnown
<1>17. ASSUME k \notin torn PROVE PolledOnce(k)'
  <2>1. PolledOnce(k)
    BY <1>5, <1>17 DEF AttemptTold
  <2> QED
    BY <1>4, <1>8, <1>9, <1>15, <2>1, PolledKept DEF Written
<1>18. ASSUME k \notin torn PROVE RefundsFit(k)'
  <2>1. RefundsFit(k)
    BY <1>5, <1>18 DEF AttemptTold
  <2>2. PICK G \in SUBSET Seats : G = ticket[k].gone
    BY DEF Typed, TypeOK, BusTypeOK
  <2>3. PICK D : D = UNION {call[d].seats : d \in Due(k)}
    OBVIOUS
  <2>4. PICK E : E = UNION {call'[d].seats : d \in Due(k)'}
    OBVIOUS
  <2>5. PICK A \in SUBSET Seats : A = AgentsReturned(k) /\ A = G \ D
    BY <2>2, <2>3 DEF AgentsReturned
  <2>6. PICK B \in SUBSET Seats : B = AgentsReturned(k)' /\ B = G \ E
    BY <1>4, <2>2, <2>4 DEF AgentsReturned
  <2>7. Due(k)' = Due(k) \ {c}
    BY <1>4, <1>9, <1>10 DEF Due
  <2>8. \A d \in Due(k) \ {c} : d \in Calls /\ call'[d].seats = call[d].seats
    BY <1>10 DEF Due
  <2>9. A \subseteq B
    <3>1. E \subseteq D
      BY <2>3, <2>4, <2>7, <2>8
    <3> QED
      BY <2>5, <2>6, <3>1
  <2>10. PICK R \in SUBSET Seats : R = Returned(k) /\ R = A \cup (IF OperatorDone(k) THEN Seats \ G ELSE {})
    BY <2>2, <2>5 DEF Returned
  <2>11. PICK T \in SUBSET Seats :
           T = Returned(k)' /\ T = B \cup (IF OperatorDone(k)' THEN Seats \ G ELSE {})
    BY <1>4, <2>2, <2>6 DEF Returned
  <2>12. OperatorDone(k) => OperatorDone(k)'
    BY <1>9, <1>10, <1>15 DEF OperatorDone
  <2>13. R \subseteq T
    BY <2>9, <2>10, <2>11, <2>12
  <2>14. /\ FareOf(k, A) <= FareOf(k, B) /\ FareOf(k, A) \in Nat /\ FareOf(k, B) \in Nat
         /\ settled'[k] \in Nat
    BY <1>3, <1>5, <1>11, <2>9, FareGrows, FareIsNat
  <2>15. ASSUME Overpaid(k), settled'[k] + FareOf(k, A) <= settled[k] + FareOf(k, B)
         PROVE  Overpaid(k)'
    <3>1. OperatorDone(k)'
      BY <2>12, <2>15 DEF Overpaid
    <3> QED
      BY <1>4, <2>5, <2>6, <2>14, <2>15, <3>1, OverpaidGrows
  <2>16. CASE outcome = "FAILED"
    <3>1. Overpaid(k) => Overpaid(k)'
      BY <1>5, <1>11, <2>14, <2>15, <2>16
    <3> QED
      BY <1>4, <1>11, <2>1, <2>10, <2>11, <2>13, <2>16, <3>1, RefundsKept
  <2>17. CASE outcome = "COMPLETED"
    <3>0. settled'[k] = settled[k] + a
      BY <1>11, <2>17
    <3>1. ASSUME NEW N \in SUBSET Seats, N \cap R = {}, N \subseteq T, a <= FareOf(k, N), ~Overpaid(k)
          PROVE  RefundsFit(k)'
      <4>1. settled[k] <= FareOf(k, R)
        BY <2>1, <2>10, <3>1 DEF RefundsFit
      <4>2. FareOf(k, R) + FareOf(k, N) <= FareOf(k, R \cup N)
        BY <3>1, FareJoins
      <4>3. FareOf(k, R \cup N) <= FareOf(k, T)
        BY <2>13, <3>1, FareGrows
      <4>4. /\ FareOf(k, R) \in Nat /\ FareOf(k, N) \in Nat
            /\ FareOf(k, R \cup N) \in Nat /\ FareOf(k, T) \in Nat
        BY <3>1, FareIsNat
      <4>5. settled'[k] <= FareOf(k, T)
        BY <1>5, <3>0, <3>1, <4>1, <4>2, <4>3, <4>4
      <4>6. FareOf(k, Returned(k))' = FareOf(k, T)
        BY <1>4, <2>11 DEF FareOf
      <4> QED
        BY <4>5, <4>6 DEF RefundsFit
    <3>2. CASE ~call[c].operator
      <4>1. S \subseteq G /\ a <= FareOf(k, S)
        BY <1>1, <1>2, <1>3, <1>4, <1>5, <2>2, <3>2 DEF CallTold, RefundKnown
      <4>2. c \in Due(k)
        BY <1>1, <1>4, <3>2 DEF Due
      <4>3. S \subseteq D
        BY <1>2, <2>3, <4>2
      <4>4. S \cap A = {} /\ S \cap R = {}
        BY <2>5, <2>10, <4>1, <4>3
      <4>5. S \cap E = {}
        <5>1. ASSUME NEW d \in Due(k) \ {c} PROVE S \cap call'[d].seats = {}
          <6>1. d \in Calls /\ Of(d) = k /\ pc[d] \in {"createRow", "credit"} /\ ~call[d].operator
            BY <5>1 DEF Due
          <6>2. S \cap call[d].seats = {}
            BY <1>1, <1>2, <1>4, <3>2, <5>1, <6>1 DEF CancelInv, CallsApart
          <6> QED
            BY <2>8, <5>1, <6>2
        <5> QED
          BY <2>4, <2>7, <5>1
      <4>6. S \subseteq B /\ S \subseteq T
        BY <2>6, <2>11, <4>1, <4>5
      <4>7. CASE ~Overpaid(k)
        BY <3>1, <4>1, <4>4, <4>6, <4>7
      <4>8. CASE Overpaid(k)
        <5>1. FareOf(k, A) + FareOf(k, S) <= FareOf(k, A \cup S)
          BY <4>4, FareJoins
        <5>2. FareOf(k, A \cup S) <= FareOf(k, B)
          BY <2>9, <4>6, FareGrows
        <5>3. FareOf(k, S) \in Nat /\ FareOf(k, A \cup S) \in Nat
          BY FareIsNat
        <5>4. settled'[k] + FareOf(k, A) <= settled[k] + FareOf(k, B)
          BY <1>5, <2>14, <3>0, <4>1, <5>1, <5>2, <5>3
        <5> QED
          BY <2>15, <4>8, <5>4 DEF RefundsFit
      <4> QED
        BY <4>7, <4>8
    <3>3. CASE call[c].operator
      <4>1. LET r == cancels[k][call[c].index]
            IN  r.operator /\ r.amount = a
        BY <1>1, <1>3, <1>4, <1>5, <3>3 DEF CallTold, RefundKnown
      <4>2. call[c].index \in DOMAIN cancels[k]
        BY <1>1, <1>4 DEF Typed, CallKnown
      <4>3. OperatorRow(k)
        BY <4>1, <4>2 DEF OperatorRow
      <4>4. ~OperatorDone(k)
        BY <1>1, <1>4, <3>3 DEF OperatorDone
      <4>5. OperatorDone(k)'
        <5>1. \A d \in Calls \ {c} : ~call'[d].operator
          BY <1>10, <3>3 DEF CancelInv, CallsApart
        <5> QED
          BY <1>9, <1>15, <4>3, <5>1 DEF OperatorDone
      <4>6. ~Overpaid(k) /\ R = A
        BY <2>10, <4>4 DEF Overpaid
      <4>7. PICK N \in SUBSET Seats : N = Seats \ G
        OBVIOUS
      <4>8. CASE a <= FareOf(k, N)
        <5>1. N \cap R = {} /\ N \subseteq T
          BY <2>5, <2>11, <4>5, <4>6, <4>7
        <5> QED
          BY <3>1, <4>6, <4>8, <5>1
      <4>9. CASE ~(a <= FareOf(k, N))
        <5>1. a = row[k].total
          BY <1>1, <1>3, <1>4, <1>5, <2>2, <3>3, <4>7, <4>9 DEF CallTold, RefundKnown
        <5>2. settled[k] <= FareOf(k, A)
          BY <2>1, <2>10, <4>6 DEF RefundsFit
        <5>3. row[k].total > FareOf(k, N) /\ settled'[k] <= row[k].total + FareOf(k, B)
          <6>1. FareOf(k, N) \in Nat
            BY FareIsNat
          <6> QED
            BY <1>3, <1>5, <2>14, <3>0, <4>9, <5>1, <5>2, <6>1
        <5>4. FareOf(k, Seats \ ticket[k].gone)' = FareOf(k, N)
          BY <1>4, <2>2, <4>7 DEF FareOf
        <5>5. FareOf(k, AgentsReturned(k))' = FareOf(k, B)
          BY <1>4, <2>6 DEF FareOf
        <5>6. \E i \in DOMAIN cancels'[k] : cancels'[k][i].operator /\ cancels'[k][i].amount = row'[k].total
          BY <1>4, <4>1, <4>2, <5>1
        <5>7. row'[k].total = row[k].total
          BY <1>4
        <5> QED
          BY <4>5, <5>3, <5>4, <5>5, <5>6, <5>7 DEF Overpaid, RefundsFit
      <4> QED
        BY <4>8, <4>9
    <3> QED
      BY <1>5, <3>2, <3>3
  <2> QED
    BY <1>6, <2>16, <2>17
<1>19. ASSUME k \notin torn PROVE CreditsTold(k)'
  <2>1. CreditsTold(k)
    BY <1>5, <1>19 DEF AttemptTold
  <2>2. CreditedRows(k)' = CreditedRows(k) /\ RowAmount(k)' = RowAmount(k)
    BY <1>4 DEF CreditedRows, RowAmount
  <2>3. \A d \in Crediting(k) : d \in Calls \ {c} /\ call'[d].amount = call[d].amount
    BY <1>4, <1>10 DEF Crediting
  <2>4. CASE outcome = "FAILED"
    <3>1. Crediting(k)' = Crediting(k)
      BY <1>4, <1>8, <1>9, <1>10, <2>4 DEF Crediting
    <3> QED
      BY <1>4, <1>11, <2>1, <2>2, <2>3, <2>4, <3>1, CreditsKept
  <2>5. CASE outcome = "COMPLETED"
    <3>1. PICK C : C = Crediting(k)
      OBVIOUS
    <3>2. Crediting(k)' = C \cup {c} /\ c \notin C
      BY <1>4, <1>8, <1>9, <1>10, <2>3, <2>5, <3>1 DEF Crediting
    <3>3. PICK x : x = Amount
      OBVIOUS
    <3>4. PICK y : y = Amount'
      OBVIOUS
    <3>5. /\ IsFiniteSet(C) /\ C \subseteq Calls
          /\ \A d \in Calls : x[d] = call[d].amount /\ x[d] \in Int
      BY <3>1, <3>3, CreditsTyped
    <3>6. y[c] = a /\ \A d \in C : y[d] = x[d]
      BY <1>8, <1>9, <2>3, <3>1, <3>4, <3>5 DEF Amount
    <3>7. SumOf(y, C \cup {c}) = a + SumOf(y, C)
      BY <3>2, <3>5, <3>6, SumAdd
    <3>8. SumOf(y, C) = SumOf(x, C) /\ SumOf(x, C) \in Int
      BY <3>5, <3>6, SumSame, SumType
    <3>9. PICK s : s = SumOf(RowAmount(k), CreditedRows(k))
      OBVIOUS
    <3>10. s \in Int
      BY <3>9, CreditsTyped, SumType
    <3>11. settled[k] = s + SumOf(x, C)
      BY <2>1, <3>1, <3>3, <3>9 DEF CreditsTold
    <3>12. settled'[k] = s + SumOf(y, C \cup {c})
      BY <1>5, <1>11, <2>5, <3>7, <3>8, <3>10, <3>11
    <3> QED
      BY <2>2, <3>2, <3>4, <3>9, <3>12 DEF CreditsTold
  <2> QED
    BY <1>6, <2>4, <2>5
<1>20. ASSUME k \notin torn \cup refused', ticket[k].state = "booked" PROVE SeatsTold(k)'
  <2>1. SeatsTold(k)
    BY <1>4, <1>5, <1>20 DEF AttemptTold
  <2>2. Covered(k)' = Covered(k)
    BY <1>4 DEF Covered
  <2>3. Unwritten(k)' = Unwritten(k)
    BY <1>4, <1>9, <1>10 DEF Unwritten
  <2> QED
    BY <1>4, <1>9, <2>1, <2>2, <2>3 DEF SeatsTold, Answered
<1>21. AttemptTold(k)'
  BY <1>4, <1>16, <1>17, <1>18, <1>19, <1>20 DEF AttemptTold
<1> QED
  BY <1>1, <1>4, <1>9, <1>11, <1>12, <1>13, <1>14, <1>21, OthersTold

LEMMA SaveCancellationTold ==
    ASSUME Typed, AttemptsKnown, CancelInv, NEW c \in Calls, SaveCancellation(c)
    PROVE  CancelInv'
<1> USE DEF approvalVars, money, marks, cancelVars
<1>1. PICK k \in Attempts : k = Of(c) /\ k # None
  BY AtWork DEF SaveCancellation, Cancelling
<1>2. UNCHANGED <<row, ticket, torn, refused, unverified, settled, call>> /\ pc[c] = "saveRow"
  BY DEF SaveCancellation
<1>3. /\ call[c] \in Call /\ CallTold(c) /\ AttemptTold(k) /\ row[k].status \in Kept
      /\ call[c].operator \in BOOLEAN /\ cancels[k] \in Seq(Cancellation)
  BY <1>1, <1>2, AtWork DEF Cancelling, Typed, TypeOK
<1>4. PICK i \in DOMAIN cancels[k] : i = call[c].index
  BY <1>1, <1>2 DEF Typed, CallKnown
<1>5. PICK outcome \in {"COMPLETED", "FAILED", "MISFILED"} : outcome = call[c].outcome
  BY <1>2 DEF Typed, CallKnown
<1>6. PICK r \in Cancellation : r = cancels[k][i]
  BY CreditsTyped
<1>7. /\ r.operator = call[c].operator /\ r.amount = call[c].amount
      /\ r.status = "INITIATED" /\ (outcome # "COMPLETED" => k \in refused)
  BY <1>1, <1>2, <1>3, <1>4, <1>5, <1>6 DEF CallTold, RefundKnown
<1>8. PICK q : q = [r EXCEPT !.status = outcome]
  OBVIOUS
<1>9. q.operator = r.operator /\ q.amount = r.amount /\ q.seats = r.seats /\ q.status = outcome
  BY <1>8 DEF Cancellation
<1>10. /\ DOMAIN cancels'[k] = DOMAIN cancels[k] /\ cancels'[k][i] = q
       /\ \A j \in DOMAIN cancels[k] \ {i} : cancels'[k][j] = cancels[k][j]
       /\ \A l \in Attempts \ {k} : cancels'[l] = cancels[l]
  <2>1. cancels' = [cancels EXCEPT ![k] = [@ EXCEPT ![i].status = outcome]]
    BY <1>1, <1>4, <1>5 DEF SaveCancellation
  <2>2. cancels'[k] = [cancels[k] EXCEPT ![i] = q]
    BY <1>6, <1>8, <2>1 DEF Typed, TypeOK
  <2>3. \A l \in Attempts \ {k} : cancels'[l] = cancels[l]
    BY <2>1 DEF Typed, TypeOK
  <2> QED
    BY <1>3, <2>2, <2>3
<1>11. /\ Bystanders({c}) /\ pc'[c] = "transition"
       /\ call' = call /\ Of(c)' = k
  BY <1>1, <1>2, GotoDoes DEF SaveCancellation, Of
<1>12. \A d \in Calls \ {c} : pc'[d] = pc[d] /\ Of(d)' = Of(d)
  BY <1>11 DEF Bystanders, Of
<1>13. k \notin refused => outcome = "COMPLETED"
  BY <1>7
<1>14. outcome = "COMPLETED" => Covered(k)' = Covered(k)
  <2> SUFFICES ASSUME outcome = "COMPLETED" PROVE Covered(k)' = Covered(k)
    OBVIOUS
  <2> DEFINE Filed(t) == t.status \in {"INITIATED", "COMPLETED"}
  <2>1. {t.seats : t \in {u \in Range(cancels'[k]) : Filed(u)}}
          = {t.seats : t \in {u \in Range(cancels[k]) : Filed(u)}}
    <3>1. ASSUME NEW t \in Range(cancels'[k]), Filed(t)
          PROVE  \E u \in Range(cancels[k]) : Filed(u) /\ u.seats = t.seats
      <4>1. PICK j \in DOMAIN cancels'[k] : t = cancels'[k][j]
        BY <3>1 DEF Range
      <4>2. CASE j = i
        <5>1. r \in Range(cancels[k])
          BY <1>4, <1>6 DEF Range
        <5> QED
          BY <1>7, <1>9, <1>10, <4>1, <4>2, <5>1
      <4>3. CASE j # i
        <5>1. t \in Range(cancels[k])
          BY <1>10, <4>1, <4>3 DEF Range
        <5> QED
          BY <3>1, <5>1
      <4> QED
        BY <4>2, <4>3
    <3>2. ASSUME NEW t \in Range(cancels[k]), Filed(t)
          PROVE  \E u \in Range(cancels'[k]) : Filed(u) /\ u.seats = t.seats
      <4>1. PICK j \in DOMAIN cancels[k] : t = cancels[k][j]
        BY <3>2 DEF Range
      <4>2. CASE j = i
        <5>1. q \in Range(cancels'[k]) /\ q.status = "COMPLETED" /\ q.seats = t.seats
          BY <1>6, <1>9, <1>10, <4>1, <4>2 DEF Range
        <5> QED
          BY <5>1
      <4>3. CASE j # i
        <5>1. t \in Range(cancels'[k])
          BY <1>10, <4>1, <4>3 DEF Range
        <5> QED
          BY <3>2, <5>1
      <4> QED
        BY <4>2, <4>3
    <3> QED
      BY <3>1, <3>2
  <2> QED
    BY <2>1 DEF Covered
<1>15. ASSUME NEW d \in Calls \ {c}, Of(d) = k, pc[d] \in Cancelling PROVE Respects(d)
  <2>1. pc[d] \in {"credit", "saveRow"} => cancels'[k][call[d].index] = cancels[k][call[d].index]
    <3> SUFFICES ASSUME pc[d] \in {"credit", "saveRow"}
                 PROVE  cancels'[k][call[d].index] = cancels[k][call[d].index]
      OBVIOUS
    <3>1. call[d].index \in DOMAIN cancels[k]
      BY <1>15 DEF Typed, CallKnown
    <3>2. call[d].index # i
      BY <1>1, <1>2, <1>4, <1>15 DEF CancelInv, CallsApart
    <3> QED
      BY <1>10, <3>1, <3>2
  <2>2. Covered(Of(d))' = Covered(Of(d)) \/ k \in refused'
    <3>1. Of(d)' = k
      BY <1>12, <1>15
    <3>2. Covered(Of(d))' = Covered(k)'
      BY <3>1 DEF Covered
    <3> QED
      BY <1>2, <1>13, <1>14, <1>15, <3>2
  <2> QED
    BY <1>2, <1>15, <2>1, <2>2 DEF Respects
<1>16. CallTold(c)'
  <2>1. WorkKnown(c)'
    BY <1>1, <1>2, <1>3, <1>11 DEF CallTold, WorkKnown, Cancelling
  <2>2. RefundKnown(c)'
    BY <1>11 DEF RefundKnown
  <2>3. Covered(Of(c))' = Covered(k)'
    BY <1>11 DEF Covered
  <2>4. CopyKnown(c)'
    BY <1>1, <1>2, <1>3, <1>11, <1>13, <1>14, <2>3 DEF CallTold, CopyKnown, Cancelling, Written
  <2> QED
    BY <2>1, <2>2, <2>4 DEF CallTold
<1>17. CallsApart'
  BY <1>1, <1>11, ApartKept DEF CancelInv
<1>18. OperatorRow(k)' = OperatorRow(k)
  <2>1. \A j \in DOMAIN cancels[k] : cancels'[k][j].operator = cancels[k][j].operator
    BY <1>6, <1>9, <1>10
  <2> QED
    BY <1>10, <2>1 DEF OperatorRow
<1>19. CancelsKnown(k)'
  BY <1>2, <1>3, <1>18 DEF AttemptTold, CancelsKnown
<1>20. ASSUME k \notin torn PROVE PolledOnce(k)'
  <2>1. PolledOnce(k)
    BY <1>3, <1>20 DEF AttemptTold
  <2> QED
    BY <1>2, <1>11, <1>18, <2>1, PolledKept DEF Written
<1>21. ASSUME k \notin torn PROVE RefundsFit(k)'
  <2>1. RefundsFit(k)
    BY <1>3, <1>21 DEF AttemptTold
  <2>2. \A j \in DOMAIN cancels[k] : /\ cancels'[k][j].operator = cancels[k][j].operator
                                     /\ cancels'[k][j].amount = cancels[k][j].amount
    BY <1>6, <1>9, <1>10
  <2>3. Due(k)' = Due(k)
    BY <1>2, <1>11, <1>12 DEF Due
  <2>4. OperatorDone(k)' = OperatorDone(k)
    BY <1>2, <1>11, <1>12, <1>18 DEF OperatorDone
  <2>5. UNION {call'[d].seats : d \in Due(k)'} = UNION {call[d].seats : d \in Due(k)}
    BY <1>11, <2>3
  <2>6. AgentsReturned(k)' = AgentsReturned(k)
    BY <1>2, <2>5 DEF AgentsReturned
  <2>7. Returned(k)' = Returned(k)
    BY <1>2, <2>4, <2>6 DEF Returned
  <2>8. Overpaid(k) => Overpaid(k)'
    <3>1. Overpaid(k) => OperatorDone(k)'
      BY <2>4 DEF Overpaid
    <3> QED
      BY <1>2, <1>10, <2>2, <2>6, <3>1, OverpaidKept
  <2> QED
    BY <1>2, <2>1, <2>7, <2>8, RefundsKept, ReturnedTyped
<1>22. ASSUME k \notin torn PROVE CreditsTold(k)'
  <2>1. CreditsTold(k)
    BY <1>3, <1>22 DEF AttemptTold
  <2>2. RowAmount(k)' = RowAmount(k)
    <3>1. \A j \in DOMAIN cancels[k] : cancels'[k][j].amount = cancels[k][j].amount
      BY <1>6, <1>9, <1>10
    <3> QED
      BY <1>10, <3>1 DEF RowAmount
  <2>3. \A j \in DOMAIN cancels[k] \ {i} : cancels'[k][j] = cancels[k][j]
    BY <1>10
  <2>4. CASE outcome = "FAILED"
    <3>1. CreditedRows(k)' = CreditedRows(k)
      BY <1>6, <1>7, <1>9, <1>10, <2>4 DEF CreditedRows, Credited
    <3>2. Crediting(k)' = Crediting(k)
      BY <1>2, <1>5, <1>11, <1>12, <2>4 DEF Crediting
    <3>3. \A j \in CreditedRows(k) : cancels'[k][j].amount = cancels[k][j].amount
      BY <1>6, <1>9, <1>10 DEF CreditedRows
    <3> QED
      BY <1>2, <1>11, <2>1, <3>1, <3>2, <3>3, CreditsKept
  <2>5. CASE outcome # "FAILED"
    <3>1. PICK C : C = Crediting(k)
      OBVIOUS
    <3>2. Crediting(k)' = C \ {c} /\ c \in C
      BY <1>1, <1>2, <1>5, <1>11, <1>12, <2>5, <3>1 DEF Crediting
    <3>3. PICK B : B = CreditedRows(k)
      OBVIOUS
    <3>4. CreditedRows(k)' = B \cup {i} /\ i \notin B
      BY <1>4, <1>6, <1>7, <1>9, <1>10, <2>5, <3>3 DEF CreditedRows, Credited
    <3>5. PICK x : x = Amount
      OBVIOUS
    <3>6. PICK v : v = RowAmount(k)
      OBVIOUS
    <3>7. /\ IsFiniteSet(C) /\ \A d \in C : x[d] \in Int
          /\ IsFiniteSet(B) /\ \A j \in B \cup {i} : v[j] \in Int
      BY <1>4, <3>1, <3>3, <3>5, <3>6, CreditsTyped
    <3>8. SumOf(x, C) = x[c] + SumOf(x, C \ {c})
      BY <3>2, <3>7, SumRemove
    <3>9. SumOf(v, B \cup {i}) = v[i] + SumOf(v, B)
      BY <3>4, <3>7, SumAdd
    <3>10. v[i] = x[c]
      BY <1>4, <1>6, <1>7, <3>5, <3>6 DEF RowAmount, Amount
    <3>11. IsFiniteSet(C \ {c}) /\ SumOf(x, C \ {c}) \in Int /\ SumOf(v, B) \in Int /\ x[c] \in Int
      BY <3>2, <3>7, FS_Subset, SumType
    <3>12. settled[k] = SumOf(v, B) + SumOf(x, C)
      BY <2>1, <3>1, <3>3, <3>5, <3>6 DEF CreditsTold
    <3>13. settled[k] = SumOf(v, B \cup {i}) + SumOf(x, C \ {c})
      BY <3>8, <3>9, <3>10, <3>11, <3>12
    <3>14. Amount' = x
      BY <1>11, <3>5 DEF Amount
    <3> QED
      BY <1>2, <2>2, <3>2, <3>4, <3>6, <3>13, <3>14 DEF CreditsTold
  <2> QED
    BY <2>4, <2>5
<1>23. ASSUME k \notin torn \cup refused, ticket[k].state = "booked" PROVE SeatsTold(k)'
  <2>1. SeatsTold(k)
    BY <1>3, <1>23 DEF AttemptTold
  <2>2. Covered(k)' = Covered(k)
    BY <1>13, <1>14, <1>23
  <2>3. Unwritten(k)' = Unwritten(k)
    BY <1>2, <1>11, <1>12 DEF Unwritten
  <2> QED
    BY <1>2, <1>11, <2>1, <2>2, <2>3 DEF SeatsTold, Answered
<1>24. AttemptTold(k)'
  BY <1>2, <1>19, <1>20, <1>21, <1>22, <1>23 DEF AttemptTold
<1> QED
  BY <1>1, <1>2, <1>10, <1>11, <1>15, <1>16, <1>17, <1>24, OthersTold

\* A save that throws: the row of a posted credit is filed as FAILED next, or left.
LEMMA SaveFailsTold ==
    ASSUME Typed, AttemptsKnown, CancelInv, NEW c \in Calls, SaveCancellationFails(c)
    PROVE  CancelInv'
<1> USE DEF approvalVars, money, marks, cancelVars
<1>1. PICK k \in Attempts : k = Of(c) /\ k # None
  BY AtWork DEF SaveCancellationFails, Cancelling
<1>2. UNCHANGED <<row, ticket, unverified, cancels, settled>> /\ pc[c] = "saveRow"
  BY DEF SaveCancellationFails
<1>3. CASE Leave(c) /\ torn' = torn \cup {k} /\ UNCHANGED refused
  <2>1. Bystanders({c}) /\ pc'[c] \in {"unlock", "idle"} /\ Of(c)' = None /\ call'[c].operator = FALSE
    BY <1>3, LeaveDoes
  <2> QED
    BY <1>1, <1>2, <1>3, <2>1, CallEndsTold DEF Cancelling
<1>4. CASE /\ call[c].outcome = "COMPLETED" /\ call' = [call EXCEPT ![c].outcome = "MISFILED"]
           /\ refused' = refused \cup {k} /\ UNCHANGED <<pc, torn>>
  <2>1. call[c] \in Call /\ CallTold(c) /\ AttemptTold(k)
    BY <1>1, <1>2, AtWork DEF Cancelling
  <2>2. PICK memory : memory = [call[c] EXCEPT !.outcome = "MISFILED"]
    OBVIOUS
  <2>3. /\ memory.attempt = k /\ memory.read = call[c].read /\ memory.seats = call[c].seats
        /\ memory.covered = call[c].covered /\ memory.outcome = "MISFILED"
        /\ memory.operator = call[c].operator /\ memory.amount = call[c].amount
        /\ memory.stale = call[c].stale /\ memory.index = call[c].index
    BY <1>1, <2>1, <2>2 DEF Call, Of
  <2>4. call'[c] = memory /\ \A d \in Calls \ {c} : call'[d] = call[d]
    BY <1>4, <2>2 DEF Typed, TypeOK, BusTypeOK
  <2>5. Bystanders({c}) /\ pc' = pc /\ Of(c)' = k
    BY <1>4, <2>3, <2>4 DEF Bystanders, Of
  <2>6. \A d \in Calls : /\ pc'[d] = pc[d] /\ Of(d)' = Of(d) /\ call'[d].seats = call[d].seats
                         /\ call'[d].operator = call[d].operator /\ call'[d].amount = call[d].amount
    BY <1>1, <2>3, <2>4, <2>5 DEF Of
  <2>7. CallTold(c)'
    <3>1. WorkKnown(c)'
      BY <1>1, <1>2, <2>1, <2>3, <2>4, <2>5 DEF CallTold, WorkKnown, Cancelling
    <3>2. RefundKnown(c)'
      BY <1>1, <1>2, <1>4, <2>1, <2>3, <2>4, <2>5 DEF CallTold, RefundKnown
    <3>3. CopyKnown(c)'
      BY <1>1, <1>2, <1>4, <2>1, <2>3, <2>4, <2>5 DEF CallTold, CopyKnown, Cancelling
    <3> QED
      BY <3>1, <3>2, <3>3 DEF CallTold
  <2>8. CallsApart'
    BY <1>1, <1>2, <2>3, <2>4, <2>5, ApartKept DEF CancelInv
  <2>9. \A d \in Calls \ {c} : Of(d) = k => Respects(d)
    BY <1>2, <1>4, <2>5, DocumentsKept
  <2>10. OperatorRow(k)' = OperatorRow(k)
    BY <1>2 DEF OperatorRow
  <2>11. CancelsKnown(k)'
    BY <1>2, <2>1, <2>10 DEF AttemptTold, CancelsKnown
  <2>12. ASSUME k \notin torn PROVE PolledOnce(k)'
    <3>1. PolledOnce(k)
      BY <2>1, <2>12 DEF AttemptTold
    <3> QED
      BY <1>1, <1>2, <2>3, <2>4, <2>5, <2>10, <3>1, PolledKept DEF Written
  <2>13. ASSUME k \notin torn PROVE RefundsFit(k)'
    <3>1. RefundsFit(k)
      BY <2>1, <2>13 DEF AttemptTold
    <3>2. Due(k)' = Due(k) /\ \A d \in Due(k) : call'[d].seats = call[d].seats
      BY <2>6 DEF Due
    <3>3. OperatorDone(k)' = OperatorDone(k)
      BY <2>6, <2>10 DEF OperatorDone
    <3>4. UNION {call'[d].seats : d \in Due(k)'} = UNION {call[d].seats : d \in Due(k)}
      BY <3>2
    <3>5. AgentsReturned(k)' = AgentsReturned(k)
      BY <1>2, <3>4 DEF AgentsReturned
    <3>6. Returned(k)' = Returned(k)
      BY <1>2, <3>3, <3>5 DEF Returned
    <3>7. Overpaid(k) => Overpaid(k)'
      <4>1. Overpaid(k) => OperatorDone(k)'
        BY <3>3 DEF Overpaid
      <4> QED
        BY <1>2, <3>5, <4>1, OverpaidKept
    <3> QED
      BY <1>2, <3>1, <3>6, <3>7, RefundsKept, ReturnedTyped
  <2>14. ASSUME k \notin torn PROVE CreditsTold(k)'
    <3>1. CreditsTold(k)
      BY <2>1, <2>14 DEF AttemptTold
    <3>2. CreditedRows(k)' = CreditedRows(k)
      BY <1>2 DEF CreditedRows
    <3>3. Crediting(k)' = Crediting(k)
      BY <1>1, <1>2, <1>4, <2>3, <2>4, <2>6 DEF Crediting
    <3>4. \A d \in Crediting(k) : call'[d].amount = call[d].amount
      BY <2>6 DEF Crediting
    <3> QED
      BY <1>2, <3>1, <3>2, <3>3, <3>4, CreditsKept
  <2>15. AttemptTold(k)'
    BY <1>4, <2>11, <2>12, <2>13, <2>14 DEF AttemptTold
  <2> QED
    BY <1>1, <1>2, <1>4, <2>5, <2>7, <2>8, <2>9, <2>15, OthersTold
<1> QED
  BY <1>1, <1>3, <1>4 DEF SaveCancellationFails

-----------------------------------------------------------------------------
(* CancelInv is inductive, and says what the property says *)

LEMMA InitTold == Init => IInv /\ CancelInv
<1> SUFFICES ASSUME Init PROVE CancelInv
  BY InitKnown
<1>1. /\ \A c \in Calls : pc[c] = "idle" /\ call[c] = NoCall
      /\ \A k \in Attempts : /\ cancels[k] = <<>> /\ settled[k] = 0
                             /\ ticket[k] = [state |-> "none", gone |-> {}]
                             /\ row[k] = [status |-> "none", total |-> 0]
  BY DEF Init, BusInit
<1>2. ASSUME NEW c \in Calls PROVE CallTold(c) /\ ~call[c].operator
  BY <1>1 DEF CallTold, WorkKnown, RefundKnown, CopyKnown, Cancelling, NoCall
<1>3. CallsApart
  BY <1>1, <1>2 DEF CallsApart
<1>4. ASSUME NEW k \in Attempts PROVE AttemptTold(k)
  <2>1. ~OperatorRow(k)
    BY <1>1 DEF OperatorRow
  <2>2. CancelsKnown(k)
    BY <1>1, <2>1 DEF CancelsKnown
  <2>3. PolledOnce(k)
    BY <2>1 DEF PolledOnce
  <2>4. RefundsFit(k)
    <3>1. PICK R : R = Returned(k)
      OBVIOUS
    <3>2. R \in SUBSET Seats
      BY <3>1, InitKnown, ReturnedTyped DEF IInv
    <3>3. FareOf(k, R) \in Nat
      BY <3>2, InitKnown, FareIsNat DEF IInv
    <3> QED
      BY <1>1, <3>1, <3>3 DEF RefundsFit
  <2>5. CreditsTold(k)
    <3>1. CreditedRows(k) = {} /\ Crediting(k) = {}
      BY <1>1 DEF CreditedRows, Crediting
    <3>2. PICK v : v = RowAmount(k)
      OBVIOUS
    <3>3. PICK x : x = Amount
      OBVIOUS
    <3>4. SumOf(v, {}) = 0 /\ SumOf(x, {}) = 0
      BY SumEmpty
    <3> QED
      BY <1>1, <3>1, <3>2, <3>3, <3>4 DEF CreditsTold
  <2>6. ticket[k].state # "booked"
    BY <1>1
  <2> QED
    BY <2>2, <2>3, <2>4, <2>5, <2>6 DEF AttemptTold
<1> QED
  BY <1>2, <1>3, <1>4 DEF CancelInv

LEMMA ToldStep == IInv /\ CancelInv /\ [Next]_vars => (IInv /\ CancelInv)'
<1> SUFFICES ASSUME IInv, CancelInv, [Next]_vars PROVE CancelInv'
  BY InvStep
<1> USE DEF IInv
<1>1. IInv'
  BY InvStep
<1>2. ASSUME NEW c \in Calls, Proceed(c) PROVE CancelInv'
  <2>1. CASE BusProceed(c) /\ UNCHANGED cancelVars
    <3>1. Booking(c)
      BY <2>1, BookingDoes
    <3> QED
      BY <1>1, <2>1, <3>1, BookingTold
  <2>2. CASE CancelTicket(c)
    BY <2>2, CancelTicketTold
  <2>3. CASE CreateCancellation(c)
    BY <2>3, CreateCancellationTold
  <2>4. CASE CreditRefund(c)
    BY <2>4, CreditRefundTold
  <2>5. CASE SaveCancellation(c)
    BY <2>5, SaveCancellationTold
  <2>6. CASE Transition(c)
    BY <2>6, TransitionTold
  <2>7. CASE FetchTicket(c)
    BY <2>7, FetchTicketTold
  <2>8. CASE FetchFails(c)
    BY <2>8, FetchFailsTold DEF FetchFails, approvalVars, money, marks, cancelVars
  <2>9. CASE ReadSeats(c)
    BY <2>9, ReadSeatsTold
  <2>10. CASE SaveCancellationFails(c)
    BY <2>10, SaveFailsTold
  <2> QED
    BY <1>2, <2>1, <2>2, <2>3, <2>4, <2>5, <2>6, <2>7, <2>8, <2>9, <2>10 DEF Proceed
<1>3. ASSUME NEW c \in Calls, Crash(c) PROVE CancelInv'
  BY <1>3, CrashTold
<1>4. ASSUME NEW c \in Calls, BusStart(c), UNCHANGED cancelVars PROVE CancelInv'
  BY <1>1, <1>4, StartTold
<1>5. ASSUME NEW c \in Calls, NEW k \in Attempts, ReadForCancel(c, k) \/ PollOperator(c, k)
      PROVE  CancelInv'
  BY <1>5, CancelStartTold
<1>6. ASSUME NEW k \in Attempts, OperatorCancels(k) \/ WindowPasses(k) PROVE CancelInv'
  BY <1>6, OperatorCancelsTold
<1>7. CASE (BusEnvironment /\ UNCHANGED cancelVars) \/ UNCHANGED vars
  BY <1>7, EnvironmentTold
<1> QED
  BY <1>2, <1>3, <1>4, <1>5, <1>6, <1>7 DEF Next

LEMMA RefundsFitOnce == ASSUME Typed, CancelInv PROVE SeatsRefundedOnce
<1> SUFFICES ASSUME NEW k \in Attempts \ torn
             PROVE  \/ settled[k] <= row[k].total
                    \/ \E r \in Range(cancels[k]) :
                          /\ r.operator /\ r.amount = row[k].total
                          /\ r.amount > FareOf(k, Seats \ ticket[k].gone)
                          /\ settled[k] <= r.amount + FareOf(k, ticket[k].gone)
  BY DEF SeatsRefundedOnce
<1>1. RefundsFit(k)
  BY DEF CancelInv, AttemptTold
<1>2. row[k].total \in Nat /\ settled[k] \in Nat
  BY DEF Typed, TypeOK, BusTypeOK
<1>3. CASE Overpaid(k)
  <2>1. PICK i \in DOMAIN cancels[k] : cancels[k][i].operator /\ cancels[k][i].amount = row[k].total
    BY <1>3 DEF Overpaid
  <2>2. PICK G \in SUBSET Seats : G = ticket[k].gone
    BY DEF Typed, TypeOK, BusTypeOK
  <2>3. PICK A \in SUBSET G : A = AgentsReturned(k)
    BY <2>2 DEF AgentsReturned
  <2>4. FareOf(k, A) <= FareOf(k, G) /\ FareOf(k, A) \in Nat /\ FareOf(k, G) \in Nat
    BY FareGrows, FareIsNat
  <2>5. row[k].total > FareOf(k, Seats \ ticket[k].gone) /\ settled[k] <= row[k].total + FareOf(k, A)
    BY <1>3, <2>3 DEF Overpaid
  <2>6. settled[k] <= row[k].total + FareOf(k, ticket[k].gone)
    BY <1>2, <2>2, <2>4, <2>5
  <2>7. cancels[k][i] \in Range(cancels[k])
    BY DEF Range
  <2> QED
    BY <2>1, <2>5, <2>6, <2>7
<1>4. CASE settled[k] <= FareOf(k, Returned(k))
  <2>1. PICK R \in SUBSET Seats : R = Returned(k)
    BY ReturnedTyped
  <2>2. FareOf(k, R) <= FareOf(k, Seats) /\ FareOf(k, R) \in Nat
    BY FareGrows, FareIsNat
  <2>3. FareOf(k, Seats) = row[k].total
    BY FareOfAll
  <2> QED
    BY <1>2, <1>4, <2>1, <2>2, <2>3
<1> QED
  BY <1>1, <1>3, <1>4 DEF RefundsFit

\* The sums of the property are those of CreditsTold.
LEMMA CreditsInRows == ASSUME Typed, CancelInv PROVE RowsTellCredits
<1> SUFFICES ASSUME NEW k \in Attempts \ torn
             PROVE  settled[k] = MapThenSumSet(LAMBDA i : cancels[k][i].amount,
                         {i \in DOMAIN cancels[k] : Credited(cancels[k][i])})
                     + MapThenSumSet(LAMBDA c : call[c].amount,
                         {c \in Calls : /\ Of(c) = k /\ pc[c] = "saveRow"
                                        /\ call[c].outcome \in {"COMPLETED", "MISFILED"}})
  BY DEF RowsTellCredits
<1>0. CreditsTold(k)
  BY DEF CancelInv, AttemptTold
<1>1. PICK B : B = CreditedRows(k)
  OBVIOUS
<1>2. PICK C : C = Crediting(k)
  OBVIOUS
<1>3. /\ IsFiniteSet(B) /\ B \subseteq DOMAIN cancels[k] /\ \A i \in B : RowAmount(k)[i] \in Int
      /\ IsFiniteSet(C) /\ C \subseteq Calls /\ \A c \in C : Amount[c] \in Int
  BY <1>1, <1>2, CreditsTyped
<1>4. PICK g : Adds(RowAmount(k), B, g) /\ SumOf(RowAmount(k), B) = g[B]
  BY <1>3, SumIs
<1>5. PICK h : h = CHOOSE f : f = [s \in SUBSET B |->
                      IF s = {} THEN 0 ELSE cancels[k][First(s)].amount + f[s \ {First(s)}]]
  OBVIOUS
<1>6. \A f : Adds(RowAmount(k), B, f) <=>
             f = [s \in SUBSET B |->
                    IF s = {} THEN 0 ELSE cancels[k][First(s)].amount + f[s \ {First(s)}]]
  <2>1. \A s \in SUBSET B : s # {} => RowAmount(k)[First(s)] = cancels[k][First(s)].amount
    BY <1>3, FirstOf DEF RowAmount
  <2> QED
    BY <2>1 DEF Adds
<1>7. Adds(RowAmount(k), B, h)
  BY <1>4, <1>5, <1>6
<1>8. MapThenSumSet(LAMBDA i : cancels[k][i].amount, B) = h[B]
  BY <1>5 DEF MapThenSumSet, MapThenFoldSet, First
<1>9. h[B] = SumOf(RowAmount(k), B)
  BY <1>3, <1>4, <1>7, AddsDetermined
<1>14. PICK G : Adds(Amount, C, G) /\ SumOf(Amount, C) = G[C]
  BY <1>3, SumIs
<1>15. PICK H : H = CHOOSE f : f = [s \in SUBSET C |->
                      IF s = {} THEN 0 ELSE call[First(s)].amount + f[s \ {First(s)}]]
  OBVIOUS
<1>16. \A f : Adds(Amount, C, f) <=>
             f = [s \in SUBSET C |->
                    IF s = {} THEN 0 ELSE call[First(s)].amount + f[s \ {First(s)}]]
  <2>1. \A s \in SUBSET C : s # {} => Amount[First(s)] = call[First(s)].amount
    BY <1>3, FirstOf DEF Amount
  <2> QED
    BY <2>1 DEF Adds
<1>17. Adds(Amount, C, H)
  BY <1>14, <1>15, <1>16
<1>18. MapThenSumSet(LAMBDA c : call[c].amount, C) = H[C]
  BY <1>15 DEF MapThenSumSet, MapThenFoldSet, First
<1>19. H[C] = SumOf(Amount, C)
  BY <1>3, <1>14, <1>17, AddsDetermined
<1>20. /\ MapThenSumSet(LAMBDA i : cancels[k][i].amount, {i \in DOMAIN cancels[k] : Credited(cancels[k][i])})
            = MapThenSumSet(LAMBDA i : cancels[k][i].amount, B)
       /\ MapThenSumSet(LAMBDA c : call[c].amount,
                        {c \in Calls : /\ Of(c) = k /\ pc[c] = "saveRow"
                                       /\ call[c].outcome \in {"COMPLETED", "MISFILED"}})
            = MapThenSumSet(LAMBDA c : call[c].amount, C)
  BY <1>1, <1>2 DEF CreditedRows, Crediting
<1> QED
  BY <1>0, <1>1, <1>2, <1>8, <1>9, <1>18, <1>19, <1>20 DEF CreditsTold

LEMMA SeatsShown == ASSUME Typed, AttemptsKnown, CancelInv PROVE StatusShowsSeats
<1> SUFFICES ASSUME NEW k \in Attempts \ (torn \cup refused),
                    ticket[k].state = "booked", k \notin unverified, \A c \in Calls : Of(c) # k
             PROVE  Shown(k)
  BY DEF StatusShowsSeats, Shown
<1>1. SeatsTold(k)
  BY DEF CancelInv, AttemptTold
<1> QED
  BY <1>1 DEF SeatsTold

\* Supplier, cancellation rows, booking and wallet tell the same story of the seats
\* that any number of agents and the poller cancel side by side: refunded once,
\* credited as the rows say, and shown when nobody is at work.
THEOREM CancellationsAreTold == Spec => []CancellationsTellSeats
<1>1. Init => IInv /\ CancelInv
  BY InitTold
<1>2. IInv /\ CancelInv /\ [Next]_vars => (IInv /\ CancelInv)'
  BY ToldStep
<1>3. IInv /\ CancelInv => CancellationsTellSeats
  BY RefundsFitOnce, CreditsInRows, SeatsShown DEF IInv, CancellationsTellSeats
<1> QED
  BY <1>1, <1>2, <1>3, PTL DEF Spec
=============================================================================
