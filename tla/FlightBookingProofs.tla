------------------------ MODULE FlightBookingProofs ------------------------
(***************************************************************************)
(* Theorems about FlightBooking, for any number of bookings and calls, any *)
(* fares, fees, inventories and suppliers: a booking is debited and        *)
(* ticketed once, and the money follows it, in every interleaving of hold, *)
(* confirm, manual issue, cancel and expiry and with every call that dies. *)
(*                                                                         *)
(* The claim of confirmBooking carries the proofs.  One call at a time has *)
(* claimed a booking, it knows whether it has debited, and only one that   *)
(* has not gives the booking back.  Until a save clobbers the document,    *)
(* its status moreover says who is at work: the claimer, or the one call   *)
(* that cancels.                                                           *)
(***************************************************************************)
EXTENDS FlightBooking, TLAPS

-----------------------------------------------------------------------------
(* The inductive invariant *)

UnpaidSteps == {"lapsed", "debit", "undo"}
PaidSteps   == {"route", "ticket", "ticketed", "refundTicket", "failed"}
ClaimSteps  == UnpaidSteps \cup PaidSteps
CancelSteps == {"cancelSeats", "supplier", "refund", "fee", "cancelled"}

Unsold    == {"NONE", "HOLD"}
Confirmed == {"TICKETED", "PENDING_MANUAL"}

\* What a call remembers goes with its step.
CallMatches(step, k) ==
    /\ step = "idle" => k = NoCall
    /\ step = "edit" => k.booking = None /\ ~k.paid /\ k.supplierCancel = None
    /\ step \notin {"idle", "edit"} => k.booking \in Bookings
    /\ step \in ClaimSteps => k.seen = "TICKETING_IN_PROGRESS"
    /\ step \in CancelSteps => k.seen = "CANCEL_REQUESTED"
    /\ step = "issue" => k.seen = "PENDING_MANUAL"
    /\ step = "request" => /\ k.seen \in {"HOLD", "TICKETED", "PENDING_MANUAL"}
                           /\ k.seen = "HOLD" => ~k.paid
    /\ step = "refund" => k.paid /\ Price > k.fee

CallsMatch == \A c \in Calls : CallMatches(pc[c], call[c])

\* Whoever has claimed b is alone and knows whether it has debited; b is not on offer
\* until it gives it back.
Claimed(b) ==
    /\ \A c, d \in Calls : Of(c) = b /\ Of(d) = b =>
          /\ pc[c] \in ClaimSteps /\ pc[d] \in ClaimSteps => c = d
          /\ pc[c] = "create" => c = d
    /\ \A c \in Calls : Of(c) = b =>
          /\ pc[c] \in ClaimSteps => doc[b].status \notin Unsold
          /\ pc[c] \in UnpaidSteps => money[b].debit = 0
          /\ pc[c] \in PaidSteps => money[b].debit = Price
          /\ pc[c] = "create" <=> doc[b].status = "NONE"

\* The debit is that of one claim, and all that the agency is given back for.
DebitKnown(b) ==
    /\ money[b].debit \in {0, Price}
    /\ doc[b].status \in Unsold => money[b].debit = 0
    /\ doc[b].payment = "PAID" => money[b].debit = Price
    /\ \A c \in Calls : Of(c) = b /\ call[c].paid => money[b].debit = Price
    /\ money[b].refund > 0 => money[b].debit = Price /\ Price > 0

\* The ticket is that of one claim.
TicketKnown(b) ==
    SupplierOf[b] # "KAFILA" =>
        /\ issued[b] <= 1
        /\ issued[b] = 1 => money[b].debit = Price
        /\ doc[b].status \in Unsold => issued[b] = 0
        /\ \A c \in Calls : Of(c) = b /\ pc[c] \in UnpaidSteps \cup {"route", "ticket"} =>
              issued[b] = 0

\* A stored reference of a cancellation is that of one.
VoidKnown(b) ==
    SupplierOf[b] \in {"SERIES", "TBO"} =>
        /\ doc[b].supplierCancel = "DONE" => b \in voided
        /\ \A c \in Calls : Of(c) = b /\ call[c].supplierCancel = "DONE" => b \in voided

\* Who is at work on a document that was never clobbered is told by its status, and
\* the status by what they have done.
Repaid(b) == money[b].debit > 0 => money[b].refund > 0 \/ b \in refused \/ Fee = Price

Owned(b) ==
    /\ \A c, d \in Calls :
          Of(c) = b /\ Of(d) = b /\ pc[c] \in CancelSteps /\ pc[d] \in CancelSteps => c = d
    /\ \A c \in Calls : Of(c) = b =>
          /\ pc[c] \in ClaimSteps => doc[b].status = "TICKETING_IN_PROGRESS"
          /\ pc[c] \in ClaimSteps \ {"failed"} => money[b].refund = 0
          /\ pc[c] = "failed" => Repaid(b)
          /\ pc[c] = "request" => call[c].paid \/ call[c].seen = "HOLD"
          /\ pc[c] \in CancelSteps => /\ doc[b].status = "CANCEL_REQUESTED"
                                      /\ call[c].paid \/ money[b].debit = 0
          /\ pc[c] \in {"fee", "cancelled"} => Repaid(b)
          /\ pc[c] \in {"refund", "fee", "cancelled"} /\ SupplierOf[b] \in {"SERIES", "TBO"} =>
                b \in voided \/ call[c].supplierCancel = "FAILED"
    /\ doc[b].status \in Unsold \cup Confirmed => money[b].refund = 0
    /\ doc[b].status \in Confirmed => money[b].debit = Price /\ doc[b].payment = "PAID"
    /\ doc[b].status \in {"FAILED", "CANCELLED"} => Repaid(b)
    /\ doc[b].status = "CANCELLED" /\ SupplierOf[b] \in {"SERIES", "TBO"} =>
          b \in voided \/ doc[b].supplierCancel = "FAILED"

BookingInv(b) ==
    /\ Claimed(b) /\ DebitKnown(b) /\ TicketKnown(b) /\ VoidKnown(b)
    /\ b \notin clobbered => Owned(b)

IInv == TypeOK /\ CallsMatch /\ \A b \in Bookings : BookingInv(b)

-----------------------------------------------------------------------------
(* What a step does to the calls *)

Others(c) == \A d \in Calls \ {c} : pc'[d] = pc[d] /\ call'[d] = call[d]

CallTypes == pc' \in [Calls -> Steps] /\ call' \in [Calls -> Call]

Moves(c, step, memory) ==
    /\ CallTypes /\ CallsMatch' /\ Others(c)
    /\ pc'[c] = step /\ call'[c] = memory

LEMMA CallFacts ==
    ASSUME TypeOK, CallsMatch
    PROVE  /\ pc \in [Calls -> Steps] /\ call \in [Calls -> Call]
           /\ None \notin Bookings /\ Inventory \notin Bookings
           /\ Price \in Nat /\ Fee \in Nat /\ Fee <= Price
           /\ NoCall \in Call /\ NoCall.booking = None /\ ~NoCall.paid
           /\ NoCall.supplierCancel = None /\ NoCall.fee = 0
           /\ None \notin {"DONE", "FAILED"}
           /\ \A c \in Calls : /\ CallMatches(pc[c], call[c])
                               /\ pc[c] \notin {"idle", "edit"} => Of(c) \in Bookings
                               /\ pc[c] \in {"idle", "edit"} => Of(c) = None
BY BookingAssumption DEF TypeOK, CallsMatch, CallMatches, NoCall, Call, Statuses, Of

\* A call that moves to a step its memory goes with.
LEMMA MovesTo ==
    ASSUME TypeOK, CallsMatch, NEW c \in Calls, NEW step \in Steps, NEW memory \in Call,
           CallMatches(step, memory), Goto(c, step), call' = [call EXCEPT ![c] = memory]
    PROVE  Moves(c, step, memory)
<1>1. CallTypes /\ Others(c) /\ pc'[c] = step /\ call'[c] = memory
  BY CallFacts DEF Goto, CallTypes, Others
<1>2. CallsMatch'
  BY <1>1, CallFacts DEF CallsMatch, Others
<1> QED
  BY <1>1, <1>2 DEF Moves

\* It returns, throws or dies.
LEMMA LeaveMoves ==
    ASSUME TypeOK, CallsMatch, NEW c \in Calls, Leave(c)
    PROVE  Moves(c, "idle", NoCall)
<1>1. CallMatches("idle", NoCall) /\ "idle" \in Steps
  BY DEF CallMatches, NoCall, ClaimSteps, UnpaidSteps, PaidSteps, CancelSteps, Steps
<1> QED
  BY <1>1, CallFacts, MovesTo DEF Leave

\* It goes on with what it remembers.
LEMMA GotoMoves ==
    ASSUME TypeOK, CallsMatch, NEW c \in Calls, NEW step \in Steps, CallMatches(step, call[c]),
           Goto(c, step), UNCHANGED call
    PROVE  Moves(c, step, call[c])
<1>1. call' = [call EXCEPT ![c] = call[c]] /\ call[c] \in Call
  BY CallFacts
<1> QED
  BY <1>1, MovesTo

\* It begins, with the document of b before it.
LEMMA BeginMoves ==
    ASSUME TypeOK, CallsMatch, NEW c \in Calls, NEW b \in Bookings, NEW status \in Statuses,
           NEW step \in Steps, Begin(c, b, status, step),
           CallMatches(step, [NoCall EXCEPT !.booking = b, !.seen = status])
    PROVE  /\ Moves(c, step, [NoCall EXCEPT !.booking = b, !.seen = status])
           /\ pc[c] = "idle" /\ Of(c) = None
           /\ Of(c)' = b /\ ~call'[c].paid /\ call'[c].supplierCancel = None
           /\ call'[c].seen = status
<1>1. [NoCall EXCEPT !.booking = b, !.seen = status] \in Call
  BY DEF NoCall, Call
<1>2. Moves(c, step, [NoCall EXCEPT !.booking = b, !.seen = status])
  BY <1>1, MovesTo DEF Begin
<1> QED
  BY <1>2, CallFacts DEF Begin, Moves, Of, NoCall

-----------------------------------------------------------------------------
(* A step is about one booking *)

\* The documents, tickets and money of e stay as they are.
Untouched(e) ==
    /\ doc'[e] = doc[e] /\ money'[e] = money[e] /\ issued'[e] = issued[e]
    /\ e \in voided <=> e \in voided'
    /\ e \in refused <=> e \in refused'
    /\ e \in clobbered <=> e \in clobbered'

\* Bookings that a step of c is not about.
LEMMA Elsewhere ==
    ASSUME NEW c \in Calls, NEW e, BookingInv(e), Untouched(e), Others(c),
           Of(c) # e, Of(c)' # e
    PROVE  BookingInv(e)'
<1>1. \A d \in Calls : Of(d) = e \/ Of(d)' = e =>
         d # c /\ Of(d)' = Of(d) /\ pc'[d] = pc[d] /\ call'[d] = call[d]
  BY DEF Others, Of
<1>2. Claimed(e)' /\ DebitKnown(e)'
  BY <1>1 DEF BookingInv, Untouched, Claimed, DebitKnown
<1>3. TicketKnown(e)' /\ VoidKnown(e)'
  BY <1>1 DEF BookingInv, Untouched, TicketKnown, VoidKnown
<1>4. e \notin clobbered' => Owned(e)'
  <2>1. Repaid(e)' <=> Repaid(e)
    BY DEF Untouched, Repaid
  <2> QED
    BY <1>1, <2>1 DEF BookingInv, Untouched, Owned
<1> QED
  BY <1>2, <1>3, <1>4 DEF BookingInv

\* A call that leaves an untouched booking.
LEMMA LeaveKeeps ==
    ASSUME NEW c \in Calls, NEW e, BookingInv(e), Untouched(e), Others(c), Of(c)' # e
    PROVE  BookingInv(e)'
<1>1. \A d \in Calls : Of(d)' = e =>
         d # c /\ Of(d) = e /\ pc'[d] = pc[d] /\ call'[d] = call[d]
  BY DEF Others, Of
<1>2. Claimed(e)' /\ DebitKnown(e)'
  BY <1>1 DEF BookingInv, Untouched, Claimed, DebitKnown
<1>3. TicketKnown(e)' /\ VoidKnown(e)'
  BY <1>1 DEF BookingInv, Untouched, TicketKnown, VoidKnown
<1>4. e \notin clobbered' => Owned(e)'
  <2>1. Repaid(e)' <=> Repaid(e)
    BY DEF Untouched, Repaid
  <2> QED
    BY <1>1, <2>1 DEF BookingInv, Untouched, Owned
<1> QED
  BY <1>2, <1>3, <1>4 DEF BookingInv

BookTypes ==
    /\ inventory \in [total : Nat, seats : Nat]
    /\ doc \in [Bookings -> Document]
    /\ overdue \subseteq Bookings
    /\ issued \in [Bookings -> Nat]
    /\ voided \subseteq Bookings
    /\ money \in [Bookings -> [debit : Nat, refund : Nat, fee : Nat]]
    /\ refused \subseteq Bookings
    /\ clobbered \subseteq Bookings \cup {Inventory}

\* A step of a call about b, or about no booking.
LEMMA StepAbout ==
    ASSUME IInv, NEW c \in Calls, NEW b, NEW step, NEW memory, Moves(c, step, memory),
           Of(c) \in {b, None}, Of(c)' \in {b, None},
           BookTypes', \A e \in Bookings \ {b} : Untouched(e),
           b \in Bookings => BookingInv(b)'
    PROVE  IInv'
<1>1. TypeOK' /\ CallsMatch'
  BY DEF Moves, CallTypes, BookTypes, TypeOK
<1>2. ASSUME NEW e \in Bookings \ {b} PROVE BookingInv(e)'
  <2>1. e # None
    BY BookingAssumption
  <2> QED
    BY <1>2, <2>1, Elsewhere DEF IInv, Moves
<1> QED
  BY <1>1, <1>2 DEF IInv

\* The facts a step of a call about booking b starts from.
LEMMA BookingFacts ==
    ASSUME IInv
    PROVE  /\ TypeOK /\ CallsMatch /\ BookTypes
           /\ \A b \in Bookings :
                 /\ BookingInv(b) /\ b # None /\ b # Inventory
                 /\ doc[b] \in Document /\ issued[b] \in Nat
                 /\ money[b] \in [debit : Nat, refund : Nat, fee : Nat]
                 /\ money[b].debit \in Nat /\ money[b].refund \in Nat /\ money[b].fee \in Nat
BY CallFacts DEF IInv, TypeOK, BookTypes

-----------------------------------------------------------------------------
(* Steps that leave documents, tickets and money alone *)

LEMMA QuietSteps ==
    ASSUME IInv, NEW c \in Calls, NEW b, NEW step, NEW memory, Moves(c, step, memory),
           Of(c) \in {b, None}, Of(c)' \in {b, None},
           UNCHANGED <<doc, issued, voided, money, refused, overdue>>,
           inventory' \in [total : Nat, seats : Nat],
           clobbered' \in {clobbered, clobbered \cup {Inventory}},
           b \in Bookings => BookingInv(b)' \/ Of(c)' # b
    PROVE  IInv'
<1>1. \A e \in Bookings : Untouched(e)
  BY BookingFacts DEF Untouched
<1>2. BookTypes'
  BY BookingFacts DEF BookTypes
<1>3. b \in Bookings => BookingInv(b)'
  BY <1>1, LeaveKeeps, BookingFacts DEF Moves
<1> QED
  BY <1>1, <1>2, <1>3, StepAbout

\* Calls that end, and edits of the inventory.
LEMMA EndStep ==
    ASSUME IInv, NEW c \in Calls,
           \/ ReleaseSeats(c) \/ IssueConflict(c) \/ FeeRefused(c) \/ EditRefused(c) \/ Crash(c)
           \/ \E total \in NewTotals : SaveInventory(c, total)
    PROVE  IInv'
<1>1. Moves(c, "idle", NoCall)
  BY BookingFacts, LeaveMoves DEF ReleaseSeats, IssueConflict, FeeRefused, EditRefused, Crash,
     SaveInventory
<1>2. Of(c)' = None
  BY <1>1, BookingFacts, CallFacts DEF Moves, Of
<1>3. UNCHANGED <<doc, issued, voided, money, refused, overdue>>
      /\ clobbered' \in {clobbered, clobbered \cup {Inventory}}
  BY DEF ReleaseSeats, IssueConflict, FeeRefused, EditRefused, Crash, SaveInventory, supplier, books
<1>4. inventory' \in [total : Nat, seats : Nat]
  <2>1. CASE ReleaseSeats(c)
    <3>1. Of(c) \in Bookings
      BY <2>1, BookingFacts, CallFacts DEF ReleaseSeats
    <3> QED
      BY <2>1, <3>1, BookingFacts, BookingAssumption DEF ReleaseSeats, Release, BookTypes
  <2>2. CASE \E total \in NewTotals : SaveInventory(c, total)
    <3>1. call[c].total \in Nat /\ call[c].seats \in Nat
      BY BookingFacts, CallFacts DEF Call
    <3> QED
      BY <2>2, <3>1, BookingFacts, BookingAssumption DEF SaveInventory, BookTypes
  <2> QED
    BY <2>1, <2>2, BookingFacts DEF IssueConflict, FeeRefused, EditRefused, Crash, BookTypes
<1>5. PICK b : b = Of(c)
  OBVIOUS
<1>6. Of(c)' # b \/ b \notin Bookings
  BY <1>2, BookingFacts
<1> QED
  BY <1>1, <1>2, <1>3, <1>4, <1>5, <1>6, QuietSteps

LEMMA ReadInventoryStep ==
    ASSUME IInv, NEW c \in Calls, ReadInventory(c)
    PROVE  IInv'
<1> DEFINE memory == [NoCall EXCEPT !.total = inventory.total, !.seats = inventory.seats]
<1>1. memory \in Call /\ CallMatches("edit", memory) /\ "edit" \in Steps
  BY BookingFacts DEF BookTypes, Call, NoCall, CallMatches, ClaimSteps, UnpaidSteps, PaidSteps,
     CancelSteps, Steps, Statuses
<1>2. PICK m : m = memory
  OBVIOUS
<1>3. Moves(c, "edit", m)
  BY <1>1, <1>2, MovesTo, BookingFacts DEF ReadInventory
<1>4. Of(c) = None /\ Of(c)' = None
  BY <1>2, <1>3, BookingFacts, CallFacts DEF ReadInventory, Moves, Of, NoCall
<1> QED
  BY <1>3, <1>4, QuietSteps, BookingFacts DEF ReadInventory, supplier, books, BookTypes

\* Failures and routings of a confirm that nobody else sees yet.
LEMMA ConfirmGoesOn ==
    ASSUME IInv, NEW c \in Calls, DebitFails(c) \/ RouteToSupplier(c) \/ TicketFails(c)
    PROVE  IInv'
<1>1. PICK step \in {"undo", "ticket", "refundTicket"} :
         /\ Goto(c, step) /\ UNCHANGED call
         /\ \/ pc[c] = "debit" /\ step = "undo"
            \/ pc[c] = "route" /\ step = "ticket"
            \/ pc[c] \in {"ticket", "ticketed"} /\ step = "refundTicket"
         /\ UNCHANGED <<inventory, doc, overdue, issued, voided, money, refused, clobbered>>
  BY DEF DebitFails, RouteToSupplier, TicketFails, supplier, books
<1>2. PICK b \in Bookings : b = Of(c)
  BY <1>1, BookingFacts, CallFacts
<1>3. CallMatches(step, call[c]) /\ step \in Steps
  BY <1>1, BookingFacts, CallFacts
     DEF CallMatches, ClaimSteps, UnpaidSteps, PaidSteps, CancelSteps, Steps
<1>4. Moves(c, step, call[c])
  BY <1>1, <1>3, GotoMoves, BookingFacts
<1>5. pc'[c] = step /\ Of(c)' = b /\ call'[c] = call[c] /\ Others(c)
      /\ \A d \in Calls : Of(d)' = Of(d)
  BY <1>1, <1>2, <1>4 DEF Moves, Of
<1>6. BookingInv(b)'
  <2>1. Claimed(b)'
    BY <1>1, <1>2, <1>5, BookingFacts
       DEF BookingInv, Claimed, Others, ClaimSteps, UnpaidSteps, PaidSteps
  <2>2. DebitKnown(b)'
    BY <1>1, <1>2, <1>5, BookingFacts DEF BookingInv, DebitKnown, Others
  <2>3. TicketKnown(b)'
    BY <1>1, <1>2, <1>5, BookingFacts
       DEF BookingInv, TicketKnown, Others, UnpaidSteps
  <2>4. VoidKnown(b)'
    BY <1>1, <1>2, <1>5, BookingFacts DEF BookingInv, VoidKnown, Others
  <2>5. b \notin clobbered' => Owned(b)'
    BY <1>1, <1>2, <1>5, BookingFacts
       DEF BookingInv, Owned, Repaid, Others, ClaimSteps, UnpaidSteps, PaidSteps, CancelSteps
  <2> QED
    BY <2>1, <2>2, <2>3, <2>4, <2>5 DEF BookingInv
<1> QED
  BY <1>1, <1>2, <1>4, <1>5, <1>6, QuietSteps, BookingFacts DEF BookTypes

LEMMA ReadManualStep ==
    ASSUME IInv, NEW c \in Calls, NEW b \in Bookings, ReadManual(c, b)
    PROVE  IInv'
<1>1. PICK memory : memory = [NoCall EXCEPT !.booking = b, !.seen = "PENDING_MANUAL"]
  OBVIOUS
<1>2. CallMatches("issue", memory) /\ "issue" \in Steps /\ "PENDING_MANUAL" \in Statuses
  BY <1>1 DEF CallMatches, NoCall, ClaimSteps, UnpaidSteps, PaidSteps, CancelSteps, Steps, Statuses
<1>3. /\ Moves(c, "issue", memory) /\ Of(c) = None /\ Of(c)' = b
      /\ ~call'[c].paid /\ call'[c].supplierCancel = None
  BY <1>1, <1>2, BeginMoves, BookingFacts DEF ReadManual
<1>4. /\ doc[b].status = "PENDING_MANUAL"
      /\ UNCHANGED <<inventory, doc, overdue, issued, voided, money, refused, clobbered>>
      /\ pc'[c] = "issue" /\ Others(c) /\ \A d \in Calls \ {c} : Of(d)' = Of(d)
  BY <1>3 DEF ReadManual, Moves, Others, Of, supplier, books
<1>5. Claimed(b)'
  BY <1>3, <1>4, BookingFacts DEF BookingInv, Claimed, Others, ClaimSteps, UnpaidSteps, PaidSteps
<1>6. DebitKnown(b)'
  BY <1>3, <1>4, BookingFacts DEF BookingInv, DebitKnown, Others
<1>7. TicketKnown(b)' /\ VoidKnown(b)'
  BY <1>3, <1>4, BookingFacts, CallFacts DEF BookingInv, TicketKnown, VoidKnown, Others, UnpaidSteps
<1>8. b \notin clobbered' => Owned(b)'
  BY <1>3, <1>4, BookingFacts
     DEF BookingInv, Owned, Repaid, Others, ClaimSteps, UnpaidSteps, PaidSteps, CancelSteps
<1> QED
  BY <1>3, <1>4, <1>5, <1>6, <1>7, <1>8, QuietSteps, BookingFacts DEF BookTypes, BookingInv

\* cancelBooking reads whether the booking was paid, and keeps to that.
LEMMA ReadForCancelStep ==
    ASSUME IInv, NEW c \in Calls, NEW b \in Bookings, ReadForCancel(c, b)
    PROVE  IInv'
<1>0. doc[b] \in Document /\ BookingInv(b) /\ b # None
  BY BookingFacts
<1> DEFINE Read(fee) == [NoCall EXCEPT !.booking = b, !.seen = doc[b].status, !.paid = WasPaid(b),
                                      !.fee = fee, !.supplierCancel = doc[b].supplierCancel]
<1>1a. PICK fee \in IF WasPaid(b) /\ SeatsOf[b] > 0 THEN {0, Fee} ELSE {0} :
         call' = [call EXCEPT ![c] = Read(fee)]
  BY DEF ReadForCancel
<1>1. PICK memory : memory = Read(fee) /\ call' = [call EXCEPT ![c] = memory]
  BY <1>1a
<1>2. /\ memory.booking = b /\ memory.seen = doc[b].status /\ (memory.paid <=> WasPaid(b))
      /\ memory.supplierCancel = doc[b].supplierCancel
      /\ memory \in Call
  BY <1>0, <1>1, BookingAssumption DEF NoCall, Call, Document, WasPaid
<1>3. CallMatches("request", memory) /\ "request" \in Steps
  BY <1>2 DEF CallMatches, ClaimSteps, UnpaidSteps, PaidSteps, CancelSteps, Steps, WasPaid,
     ReadForCancel
<1>4. Moves(c, "request", memory) /\ Of(c) = None /\ Of(c)' = b
  BY <1>1, <1>2, <1>3, MovesTo, BookingFacts, CallFacts DEF ReadForCancel, Moves, Of
<1>5. /\ doc[b].status \in {"HOLD", "TICKETED", "PENDING_MANUAL"}
      /\ UNCHANGED <<inventory, doc, overdue, issued, voided, money, refused, clobbered>>
      /\ pc'[c] = "request" /\ call'[c] = memory
      /\ Others(c) /\ \A d \in Calls \ {c} : Of(d)' = Of(d)
  BY <1>4 DEF ReadForCancel, Moves, Others, Of, supplier, books
<1>6. Claimed(b)'
  BY <1>0, <1>4, <1>5 DEF BookingInv, Claimed, Others, ClaimSteps, UnpaidSteps, PaidSteps
<1>7. DebitKnown(b)'
  BY <1>0, <1>2, <1>4, <1>5 DEF BookingInv, DebitKnown, Others, WasPaid
<1>8. TicketKnown(b)' /\ VoidKnown(b)'
  BY <1>0, <1>2, <1>4, <1>5 DEF BookingInv, TicketKnown, VoidKnown, Others, UnpaidSteps
<1>9. b \notin clobbered' => Owned(b)'
  BY <1>0, <1>2, <1>4, <1>5
     DEF BookingInv, Owned, Repaid, Others, ClaimSteps, UnpaidSteps, PaidSteps, CancelSteps,
         Confirmed, WasPaid
<1> QED
  BY <1>4, <1>5, <1>6, <1>7, <1>8, <1>9, QuietSteps, BookingFacts DEF BookTypes, BookingInv

LEMMA CancelSeatsStep ==
    ASSUME IInv, NEW c \in Calls, CancelSeats(c)
    PROVE  IInv'
<1>1. /\ pc[c] = "cancelSeats" /\ Goto(c, "supplier") /\ UNCHANGED call
      /\ UNCHANGED <<doc, overdue, issued, voided, money, refused, clobbered>>
  BY DEF CancelSeats, supplier, books
<1>2. PICK b \in Bookings : b = Of(c)
  BY <1>1, BookingFacts, CallFacts
<1>3. CallMatches("supplier", call[c]) /\ "supplier" \in Steps
  BY <1>1, BookingFacts, CallFacts
     DEF CallMatches, ClaimSteps, UnpaidSteps, PaidSteps, CancelSteps, Steps
<1>4. Moves(c, "supplier", call[c])
  BY <1>1, <1>3, GotoMoves, BookingFacts
<1>5. pc'[c] = "supplier" /\ Others(c) /\ \A d \in Calls : Of(d)' = Of(d) /\ call'[d] = call[d]
  BY <1>1, <1>4 DEF Moves, Of
<1>6. inventory' \in [total : Nat, seats : Nat]
  BY <1>2, BookingFacts, BookingAssumption DEF CancelSeats, Release, BookTypes
<1>7. BookingInv(b)'
  <2>1. Claimed(b)' /\ DebitKnown(b)'
    BY <1>1, <1>2, <1>5, BookingFacts
       DEF BookingInv, Claimed, DebitKnown, Others, ClaimSteps, UnpaidSteps, PaidSteps
  <2>2. TicketKnown(b)' /\ VoidKnown(b)'
    BY <1>1, <1>2, <1>5, BookingFacts
       DEF BookingInv, TicketKnown, VoidKnown, Others, UnpaidSteps
  <2>3. b \notin clobbered' => Owned(b)'
    BY <1>1, <1>2, <1>5, BookingFacts
       DEF BookingInv, Owned, Repaid, Others, ClaimSteps, UnpaidSteps, PaidSteps, CancelSteps
  <2> QED
    BY <2>1, <2>2, <2>3 DEF BookingInv
<1> QED
  BY <1>1, <1>2, <1>4, <1>5, <1>6, <1>7, QuietSteps

\* Time passes.
LEMMA HoldLapsesStep ==
    ASSUME IInv, NEW b \in Bookings, HoldLapses(b)
    PROVE  IInv'
<1>1. UNCHANGED <<inventory, doc, issued, voided, money, refused, clobbered, pc, call>>
      /\ overdue' = overdue \cup {b}
  BY DEF HoldLapses, supplier, books
<1>2. TypeOK' /\ CallsMatch'
  BY <1>1, BookingFacts DEF TypeOK, CallsMatch
<1>3. \A e \in Bookings : BookingInv(e)'
  BY <1>1, BookingFacts DEF BookingInv, Claimed, DebitKnown, TicketKnown, VoidKnown, Owned, Repaid, Of
<1> QED
  BY <1>2, <1>3 DEF IInv

-----------------------------------------------------------------------------
(* Steps that write *)

\* A booking gets its hold: whoever holds it is alone with it.
LEMMA HoldSeatsStep ==
    ASSUME IInv, NEW c \in Calls, NEW b \in Bookings, HoldSeats(c, b)
    PROVE  IInv'
<1>0. BookingInv(b) /\ b # None /\ issued[b] \in Nat
  BY BookingFacts
<1>1. PICK memory : memory = [NoCall EXCEPT !.booking = b, !.seen = "NONE"]
  OBVIOUS
<1>2. CallMatches("create", memory) /\ "create" \in Steps /\ "NONE" \in Statuses
  BY <1>1 DEF CallMatches, NoCall, ClaimSteps, UnpaidSteps, PaidSteps, CancelSteps, Steps, Statuses
<1>3. /\ Moves(c, "create", memory) /\ Of(c) = None /\ Of(c)' = b
      /\ ~call'[c].paid /\ call'[c].supplierCancel = None
  BY <1>1, <1>2, BeginMoves, BookingFacts DEF HoldSeats
<1>4. /\ doc[b].status = "NONE" /\ \A d \in Calls : Of(d) # b
      /\ UNCHANGED <<doc, overdue, voided, money, refused, clobbered>>
      /\ pc'[c] = "create" /\ Others(c) /\ \A d \in Calls \ {c} : Of(d)' = Of(d)
  BY <1>3 DEF HoldSeats, Moves, Others, Of, books
<1>5. /\ issued' \in [Bookings -> Nat]
      /\ SupplierOf[b] # "KAFILA" => issued'[b] = issued[b]
      /\ \A e \in Bookings \ {b} : issued'[e] = issued[e]
  BY BookingFacts DEF HoldSeats, Issue, BookTypes
<1>6. inventory' \in [total : Nat, seats : Nat]
  <2>1. inventory.seats - SeatsOf[b] \in Nat
    BY BookingFacts, BookingAssumption DEF HoldSeats, SeatsLeft, BookTypes
  <2> QED
    BY <2>1, BookingFacts DEF HoldSeats, BookTypes
<1>7. Claimed(b)' /\ DebitKnown(b)'
  BY <1>0, <1>3, <1>4 DEF BookingInv, Claimed, DebitKnown, Others, ClaimSteps, UnpaidSteps, PaidSteps
<1>8. TicketKnown(b)' /\ VoidKnown(b)'
  BY <1>0, <1>3, <1>4, <1>5, BookingFacts, CallFacts DEF BookingInv, TicketKnown, VoidKnown, Others, UnpaidSteps
<1>9. b \notin clobbered' => Owned(b)'
  BY <1>0, <1>3, <1>4
     DEF BookingInv, Owned, Repaid, Others, ClaimSteps, UnpaidSteps, PaidSteps, CancelSteps
<1>10. BookTypes' /\ \A e \in Bookings \ {b} : Untouched(e)
  BY <1>4, <1>5, <1>6, BookingFacts DEF BookTypes, Untouched
<1> QED
  BY <1>3, <1>7, <1>8, <1>9, <1>10, StepAbout DEF BookingInv

\* What a save does to the document, and says when it clobbers nothing.
LEMMA SaveFacts ==
    ASSUME IInv, NEW c \in Calls, NEW b \in Bookings, Of(c) = b, NEW new \in Document, Save(c, new)
    PROVE  /\ doc' \in [Bookings -> Document] /\ clobbered' \subseteq Bookings \cup {Inventory}
           /\ doc'[b] = new
           /\ b \notin clobbered' => b \notin clobbered /\ doc[b].status = call[c].seen
           /\ \A e \in Bookings \ {b} :
                 doc'[e] = doc[e] /\ (e \in clobbered <=> e \in clobbered')
BY BookingFacts DEF Save, BookTypes

LEMMA CreateBookingStep ==
    ASSUME IInv, NEW c \in Calls, CreateBooking(c)
    PROVE  IInv'
<1>1. PICK b \in Bookings : b = Of(c) /\ pc[c] = "create"
  BY BookingFacts, CallFacts DEF CreateBooking
<1>2. Moves(c, "idle", NoCall)
  BY BookingFacts, LeaveMoves DEF CreateBooking
<1>3. /\ Of(c)' = None /\ Others(c) /\ \A d \in Calls \ {c} : Of(d)' = Of(d)
      /\ UNCHANGED <<inventory, overdue, issued, voided, money, refused, clobbered>>
  BY <1>2, BookingFacts, CallFacts DEF CreateBooking, Moves, Others, Of, supplier, books
<1>4. /\ doc' \in [Bookings -> Document] /\ doc'[b].status = "HOLD"
      /\ doc'[b].payment = doc[b].payment /\ doc'[b].supplierCancel = doc[b].supplierCancel
      /\ \A e \in Bookings \ {b} : doc'[e] = doc[e]
  BY <1>1, BookingFacts DEF CreateBooking, BookTypes, Document, Statuses
<1>5. /\ BookingInv(b) /\ b # None
      /\ doc[b].status = "NONE" /\ \A d \in Calls \ {c} : Of(d) # b
  BY <1>1, BookingFacts DEF BookingInv, Claimed
<1>6. \A d \in Calls : Of(d)' # b
  BY <1>3, <1>5
<1>7. Claimed(b)' /\ DebitKnown(b)'
  BY <1>3, <1>4, <1>5, <1>6 DEF BookingInv, Claimed, DebitKnown, Unsold
<1>8. TicketKnown(b)' /\ VoidKnown(b)'
  BY <1>3, <1>4, <1>5, <1>6 DEF BookingInv, TicketKnown, VoidKnown, Unsold
<1>9. b \notin clobbered' => Owned(b)'
  BY <1>3, <1>4, <1>5, <1>6 DEF BookingInv, Owned, Unsold, Confirmed
<1>10. BookTypes' /\ \A e \in Bookings \ {b} : Untouched(e)
  BY <1>3, <1>4, BookingFacts DEF BookTypes, Untouched
<1> QED
  BY <1>1, <1>2, <1>3, <1>7, <1>8, <1>9, <1>10, StepAbout DEF BookingInv

\* The sweep and the claim take a HOLD in one update: they find it as nobody had it.
LEMMA TakeHoldStep ==
    ASSUME IInv, NEW c \in Calls, NEW b \in Bookings, ExpireHold(c, b) \/ Claim(c, b)
    PROVE  IInv'
<1>0. BookingInv(b) /\ b # None /\ doc[b] \in Document /\ doc[b].status = "HOLD"
  BY BookingFacts DEF ExpireHold, StillHeld, Claim, Claimable
<1>1. PICK status \in {"EXPIRED", "TICKETING_IN_PROGRESS"}, step \in {"release", "lapsed", "debit"} :
         /\ doc' = [doc EXCEPT ![b].status = status]
         /\ Begin(c, b, status, step)
         /\ status = "EXPIRED" <=> step = "release"
  BY DEF ExpireHold, Claim
<1>2. PICK memory : memory = [NoCall EXCEPT !.booking = b, !.seen = status]
  OBVIOUS
<1>3. CallMatches(step, memory) /\ step \in Steps /\ status \in Statuses
  BY <1>1, <1>2 DEF CallMatches, NoCall, ClaimSteps, UnpaidSteps, PaidSteps, CancelSteps, Steps,
     Statuses
<1>4. /\ Moves(c, step, memory) /\ Of(c) = None /\ Of(c)' = b
      /\ ~call'[c].paid /\ call'[c].supplierCancel = None
  BY <1>1, <1>2, <1>3, BeginMoves, BookingFacts
<1>5. /\ UNCHANGED <<inventory, overdue, issued, voided, money, refused, clobbered>>
      /\ pc'[c] = step /\ Others(c) /\ \A d \in Calls \ {c} : Of(d)' = Of(d)
  BY <1>4 DEF ExpireHold, Claim, Moves, Others, Of, supplier, books
<1>6. /\ doc' \in [Bookings -> Document] /\ doc'[b].status = status
      /\ doc'[b].payment = doc[b].payment /\ doc'[b].supplierCancel = doc[b].supplierCancel
      /\ \A e \in Bookings \ {b} : doc'[e] = doc[e]
  BY <1>1, <1>3, BookingFacts DEF BookTypes, Document
<1>7. /\ \A d \in Calls : Of(d) = b => pc[d] \notin ClaimSteps /\ pc[d] # "create"
      /\ b \notin clobbered => \A d \in Calls : Of(d) = b => pc[d] \notin CancelSteps
      /\ b \notin clobbered => money[b].refund = 0
  BY <1>0 DEF BookingInv, Claimed, Owned, Unsold
<1>8. Claimed(b)'
  BY <1>0, <1>1, <1>4, <1>5, <1>6, <1>7
     DEF BookingInv, Claimed, DebitKnown, Others, ClaimSteps, UnpaidSteps, PaidSteps, Unsold
<1>9. DebitKnown(b)'
  BY <1>0, <1>1, <1>4, <1>5, <1>6 DEF BookingInv, DebitKnown, Others, Unsold
<1>10. TicketKnown(b)'
  BY <1>0, <1>1, <1>4, <1>5, <1>6, <1>7 DEF BookingInv, TicketKnown, Others, Unsold, UnpaidSteps
<1>11. VoidKnown(b)'
  BY <1>0, <1>4, <1>5, <1>6, BookingFacts, CallFacts DEF BookingInv, VoidKnown, Others
<1>12. b \notin clobbered' => Owned(b)'
  BY <1>0, <1>1, <1>4, <1>5, <1>6, <1>7
     DEF BookingInv, Owned, Repaid, DebitKnown, Others, ClaimSteps, UnpaidSteps, PaidSteps,
         CancelSteps, Confirmed, Unsold
<1>13. BookTypes' /\ \A e \in Bookings \ {b} : Untouched(e)
  BY <1>5, <1>6, BookingFacts DEF BookTypes, Untouched
<1> QED
  BY <1>4, <1>8, <1>9, <1>10, <1>11, <1>12, <1>13, StepAbout DEF BookingInv

\* The saves that end a call.
LEMMA SaveEndsStep ==
    ASSUME IInv, NEW c \in Calls,
           \/ BackToHold(c) \/ RouteToManual(c) \/ SaveTicketed(c) \/ SaveFailed(c)
           \/ IssueManually(c) \/ SaveCancelled(c)
    PROVE  IInv'
<1>1. PICK b \in Bookings : b = Of(c)
  BY BookingFacts, CallFacts DEF BackToHold, Undo, RouteToManual, SaveTicketed, SaveFailed,
     IssueManually, SaveCancelled
<1>0. BookingInv(b) /\ b # None /\ doc[b] \in Document /\ call[c] \in Call
  BY BookingFacts, CallFacts
<1>2. PICK new \in Document :
         /\ Save(c, new) /\ Leave(c)
         /\ \/ /\ pc[c] = "undo" /\ new.status = "HOLD"
               /\ new.payment = doc[b].payment /\ new.supplierCancel = doc[b].supplierCancel
            \/ /\ pc[c] = "route" /\ new.status = "PENDING_MANUAL"
               /\ new.payment = "PAID" /\ new.supplierCancel = doc[b].supplierCancel
            \/ /\ pc[c] = "ticketed" /\ new.status = "TICKETED"
               /\ new.payment = "PAID" /\ new.supplierCancel = doc[b].supplierCancel
            \/ /\ pc[c] = "failed" /\ new.status = "FAILED"
               /\ new.payment = "FAILED" /\ new.supplierCancel = doc[b].supplierCancel
            \/ /\ pc[c] = "issue" /\ new.status = "TICKETED"
               /\ new.payment = doc[b].payment /\ new.supplierCancel = doc[b].supplierCancel
            \/ /\ pc[c] = "cancelled" /\ new.status = "CANCELLED"
               /\ new.payment \in {doc[b].payment, "REFUNDED"}
               /\ new.supplierCancel = call[c].supplierCancel
  <2>1. CASE BackToHold(c)
    <3>1. [doc[b] EXCEPT !.status = "HOLD"] \in Document
      BY <1>0 DEF Document, Statuses
    <3> QED
      BY <1>0, <1>1, <2>1, <3>1 DEF BackToHold, Undo, Document
  <2>2. CASE RouteToManual(c)
    <3>1. [doc[b] EXCEPT !.status = "PENDING_MANUAL", !.payment = "PAID"] \in Document
      BY <1>0 DEF Document, Statuses
    <3> QED
      BY <1>0, <1>1, <2>2, <3>1 DEF RouteToManual, Document
  <2>3. CASE SaveTicketed(c)
    <3>1. [doc[b] EXCEPT !.status = "TICKETED", !.payment = "PAID", !.numbered = TRUE] \in Document
      BY <1>0 DEF Document, Statuses
    <3> QED
      BY <1>0, <1>1, <2>3, <3>1 DEF SaveTicketed, Document
  <2>4. CASE SaveFailed(c)
    <3>1. [doc[b] EXCEPT !.status = "FAILED", !.payment = "FAILED"] \in Document
      BY <1>0 DEF Document, Statuses
    <3> QED
      BY <1>0, <1>1, <2>4, <3>1 DEF SaveFailed, Document
  <2>5. CASE IssueManually(c)
    <3>1. [doc[b] EXCEPT !.status = "TICKETED", !.numbered = TRUE] \in Document
      BY <1>0 DEF Document, Statuses
    <3> QED
      BY <1>0, <1>1, <2>5, <3>1 DEF IssueManually, Document
  <2>6. CASE SaveCancelled(c)
    <3>1. PICK payment \in {doc[b].payment, "REFUNDED"} :
             Save(c, [doc[b] EXCEPT !.status = "CANCELLED", !.payment = payment,
                                    !.supplierCancel = call[c].supplierCancel])
      BY <1>0, <1>1, <2>6 DEF SaveCancelled
    <3>2. [doc[b] EXCEPT !.status = "CANCELLED", !.payment = payment,
                         !.supplierCancel = call[c].supplierCancel] \in Document
      BY <1>0 DEF Document, Statuses, Call
    <3> QED
      BY <1>0, <1>1, <2>6, <3>1, <3>2 DEF SaveCancelled, Document
  <2> QED
    BY <2>1, <2>2, <2>3, <2>4, <2>5, <2>6
<1>3. Moves(c, "idle", NoCall)
  BY <1>2, BookingFacts, LeaveMoves
<1>4. /\ Of(c)' = None /\ Others(c) /\ \A d \in Calls \ {c} : Of(d)' = Of(d)
      /\ UNCHANGED <<inventory, overdue, issued, voided, money, refused>>
  BY <1>3, BookingFacts, CallFacts DEF BackToHold, RouteToManual, SaveTicketed, SaveFailed,
     IssueManually, SaveCancelled, Moves, Others, Of, supplier, books
<1>5. /\ doc' \in [Bookings -> Document] /\ clobbered' \subseteq Bookings \cup {Inventory}
      /\ doc'[b] = new
      /\ b \notin clobbered' => b \notin clobbered /\ doc[b].status = call[c].seen
      /\ \A e \in Bookings \ {b} :
            doc'[e] = doc[e] /\ (e \in clobbered <=> e \in clobbered')
  BY <1>1, <1>2, SaveFacts
<1>6. CallMatches(pc[c], call[c])
  BY BookingFacts, CallFacts
<1>7. Claimed(b)'
  BY <1>0, <1>1, <1>2, <1>4, <1>5
     DEF BookingInv, Claimed, Others, ClaimSteps, UnpaidSteps, PaidSteps, Unsold
<1>8. DebitKnown(b)'
  BY <1>0, <1>1, <1>2, <1>4, <1>5
     DEF BookingInv, Claimed, DebitKnown, Others, UnpaidSteps, PaidSteps, Unsold
<1>9. TicketKnown(b)' /\ VoidKnown(b)'
  BY <1>0, <1>1, <1>2, <1>4, <1>5
     DEF BookingInv, TicketKnown, VoidKnown, Others, UnpaidSteps, Unsold
<1>10. b \notin clobbered' => Owned(b)'
  <2> SUFFICES ASSUME b \notin clobbered' PROVE Owned(b)'
    OBVIOUS
  <2>1. Owned(b) /\ doc[b].status = call[c].seen
    BY <1>0, <1>5 DEF BookingInv
  <2>2. \A d \in Calls \ {c} : Of(d) = b => pc[d] \notin ClaimSteps \cup CancelSteps
    BY <1>0, <1>1, <1>2, <1>6, <2>1
       DEF BookingInv, Claimed, Owned, CallMatches, ClaimSteps, UnpaidSteps, PaidSteps, CancelSteps
  <2>3. /\ new.status \in Unsold \cup Confirmed => money[b].refund = 0
        /\ new.status \in Confirmed => money[b].debit = Price /\ new.payment = "PAID"
        /\ new.status \in {"FAILED", "CANCELLED"} => Repaid(b)
    BY <1>0, <1>1, <1>2, <1>6, <2>1
       DEF BookingInv, Claimed, Owned, CallMatches, ClaimSteps, UnpaidSteps, PaidSteps,
           Unsold, Confirmed
  <2>4. new.status = "CANCELLED" /\ SupplierOf[b] \in {"SERIES", "TBO"} =>
           b \in voided \/ new.supplierCancel = "FAILED"
    BY <1>1, <1>2, <2>1 DEF Owned
  <2>5. Repaid(b)' <=> Repaid(b)
    BY <1>4 DEF Repaid
  <2> QED
    BY <1>0, <1>4, <1>5, <2>1, <2>2, <2>3, <2>4, <2>5
       DEF Owned, Others, ClaimSteps, UnpaidSteps, PaidSteps, CancelSteps
<1>11. BookTypes' /\ \A e \in Bookings \ {b} : Untouched(e)
  BY <1>4, <1>5, BookingFacts DEF BookTypes, Untouched
<1> QED
  BY <1>1, <1>3, <1>4, <1>7, <1>8, <1>9, <1>10, <1>11, StepAbout DEF BookingInv

\* The saves after which a call goes on: a confirm that finds its hold lapsed, and the
\* request of a cancellation.
LEMMA SaveGoesOnStep ==
    ASSUME IInv, NEW c \in Calls, Lapsed(c) \/ RequestCancel(c)
    PROVE  IInv'
<1>1. PICK b \in Bookings : b = Of(c)
  BY BookingFacts, CallFacts DEF Lapsed, RequestCancel
<1>0. BookingInv(b) /\ b # None /\ doc[b] \in Document /\ call[c] \in Call
      /\ CallMatches(pc[c], call[c])
  BY BookingFacts, CallFacts
<1>2. PICK new \in Document, step \in {"release", "cancelSeats"} :
         /\ SaveAndGo(c, new, step)
         /\ new.payment = doc[b].payment /\ new.supplierCancel = doc[b].supplierCancel
         /\ \/ pc[c] = "lapsed" /\ new.status = "EXPIRED" /\ step = "release"
            \/ pc[c] = "request" /\ new.status = "CANCEL_REQUESTED" /\ step = "cancelSeats"
  <2>1. CASE Lapsed(c)
    <3>1. [doc[b] EXCEPT !.status = "EXPIRED"] \in Document
      BY <1>0 DEF Document, Statuses
    <3> QED
      BY <1>0, <1>1, <2>1, <3>1 DEF Lapsed, Document
  <2>2. CASE RequestCancel(c)
    <3>1. [doc[b] EXCEPT !.status = "CANCEL_REQUESTED"] \in Document
      BY <1>0 DEF Document, Statuses
    <3> QED
      BY <1>0, <1>1, <2>2, <3>1 DEF RequestCancel, Document
  <2> QED
    BY <2>1, <2>2
<1>3. PICK memory : memory = [call[c] EXCEPT !.seen = new.status]
  OBVIOUS
<1>4. /\ memory \in Call /\ memory.booking = b /\ memory.seen = new.status
      /\ (memory.paid <=> call[c].paid) /\ memory.supplierCancel = call[c].supplierCancel
  BY <1>0, <1>1, <1>3 DEF Call, Document, Of
<1>5. CallMatches(step, memory) /\ step \in Steps
  BY <1>2, <1>4 DEF CallMatches, ClaimSteps, UnpaidSteps, PaidSteps, CancelSteps, Steps
<1>6. Moves(c, step, memory) /\ Of(c)' = b
  <2>1. call' = [call EXCEPT ![c] = memory]
    BY <1>2, <1>3, BookingFacts, CallFacts DEF SaveAndGo
  <2> QED
    BY <1>2, <1>4, <1>5, <2>1, MovesTo, BookingFacts DEF SaveAndGo, Moves, Of
<1>7. /\ pc'[c] = step /\ call'[c] = memory
      /\ Others(c) /\ \A d \in Calls : Of(d)' = Of(d)
      /\ UNCHANGED <<inventory, overdue, issued, voided, money, refused>>
  BY <1>1, <1>6 DEF Lapsed, RequestCancel, Moves, Others, Of, supplier, books
<1>8. /\ doc' \in [Bookings -> Document] /\ clobbered' \subseteq Bookings \cup {Inventory}
      /\ doc'[b] = new
      /\ b \notin clobbered' => b \notin clobbered /\ doc[b].status = call[c].seen
      /\ \A e \in Bookings \ {b} :
            doc'[e] = doc[e] /\ (e \in clobbered <=> e \in clobbered')
  BY <1>1, <1>2, SaveFacts DEF SaveAndGo
<1>9. Claimed(b)'
  BY <1>0, <1>1, <1>2, <1>7, <1>8
     DEF BookingInv, Claimed, Others, ClaimSteps, UnpaidSteps, PaidSteps, Unsold
<1>10. DebitKnown(b)'
  BY <1>0, <1>1, <1>2, <1>4, <1>7, <1>8 DEF BookingInv, DebitKnown, Others, Unsold
<1>11. TicketKnown(b)' /\ VoidKnown(b)'
  BY <1>0, <1>1, <1>2, <1>4, <1>7, <1>8
     DEF BookingInv, TicketKnown, VoidKnown, Others, UnpaidSteps, Unsold
<1>12. b \notin clobbered' => Owned(b)'
  <2> SUFFICES ASSUME b \notin clobbered' PROVE Owned(b)'
    OBVIOUS
  <2>1. Owned(b) /\ doc[b].status = call[c].seen
    BY <1>0, <1>8 DEF BookingInv
  <2>2. \A d \in Calls \ {c} : Of(d) = b => pc[d] \notin ClaimSteps \cup CancelSteps
    BY <1>0, <1>1, <1>2, <2>1
       DEF BookingInv, Claimed, Owned, CallMatches, ClaimSteps, UnpaidSteps, PaidSteps, CancelSteps
  <2>3. step = "cancelSeats" => call[c].paid \/ money[b].debit = 0
    BY <1>0, <1>1, <1>2, <2>1 DEF BookingInv, Owned, DebitKnown, Unsold
  <2> QED
    BY <1>1, <1>2, <1>4, <1>7, <1>8, <2>1, <2>2, <2>3
       DEF Owned, Others, ClaimSteps, UnpaidSteps, PaidSteps, CancelSteps, Unsold, Confirmed
<1>13. BookTypes' /\ \A e \in Bookings \ {b} : Untouched(e)
  BY <1>7, <1>8, BookingFacts DEF BookTypes, Untouched
<1> QED
  BY <1>1, <1>6, <1>9, <1>10, <1>11, <1>12, <1>13, StepAbout DEF BookingInv

-----------------------------------------------------------------------------
(* Steps that move money or reach the supplier *)

LEMMA DebitStep ==
    ASSUME IInv, NEW c \in Calls, Debit(c)
    PROVE  IInv'
<1>1. PICK b \in Bookings : b = Of(c) /\ pc[c] = "debit"
  BY BookingFacts, CallFacts DEF Debit
<1>0. BookingInv(b) /\ b # None /\ Price \in Nat
  BY BookingFacts, CallFacts
<1>2. CallMatches("route", call[c]) /\ "route" \in Steps
  BY <1>1, BookingFacts, CallFacts
     DEF CallMatches, ClaimSteps, UnpaidSteps, PaidSteps, CancelSteps, Steps
<1>3. Moves(c, "route", call[c])
  BY <1>2, GotoMoves, BookingFacts DEF Debit
<1>4. /\ pc'[c] = "route" /\ Others(c) /\ \A d \in Calls : Of(d)' = Of(d) /\ call'[d] = call[d]
      /\ UNCHANGED <<inventory, doc, overdue, issued, voided, refused, clobbered>>
  BY <1>3 DEF Debit, Moves, Of, supplier
<1>5. /\ money' \in [Bookings -> [debit : Nat, refund : Nat, fee : Nat]]
      /\ money'[b].debit = money[b].debit + Price /\ money'[b].refund = money[b].refund
      /\ \A e \in Bookings \ {b} : money'[e] = money[e]
  BY <1>0, <1>1, BookingFacts DEF Debit, Charge, BookTypes
<1>6. money[b].debit = 0 /\ money'[b].debit = Price
  BY <1>0, <1>1, <1>5 DEF BookingInv, Claimed, UnpaidSteps
<1>7. \A d \in Calls \ {c} : Of(d) = b => pc[d] \notin ClaimSteps
  BY <1>0, <1>1 DEF BookingInv, Claimed, ClaimSteps, UnpaidSteps
<1>8. doc[b].status \notin Unsold
  BY <1>0, <1>1 DEF BookingInv, Claimed, ClaimSteps, UnpaidSteps
<1>9. Claimed(b)'
  BY <1>0, <1>1, <1>4, <1>6, <1>7, <1>8
     DEF BookingInv, Claimed, Others, ClaimSteps, UnpaidSteps, PaidSteps
<1>10. DebitKnown(b)'
  BY <1>0, <1>1, <1>4, <1>5, <1>6, <1>8 DEF BookingInv, DebitKnown
<1>11. TicketKnown(b)' /\ VoidKnown(b)'
  BY <1>0, <1>1, <1>4, <1>6, <1>7, <1>8
     DEF BookingInv, TicketKnown, VoidKnown, Others, ClaimSteps, UnpaidSteps
<1>12. b \notin clobbered' => Owned(b)'
  BY <1>0, <1>1, <1>4, <1>5, <1>6, <1>7
     DEF BookingInv, Owned, Others, ClaimSteps, UnpaidSteps, PaidSteps, CancelSteps, Confirmed
<1>13. BookTypes' /\ \A e \in Bookings \ {b} : Untouched(e)
  BY <1>4, <1>5, BookingFacts DEF BookTypes, Untouched
<1> QED
  BY <1>1, <1>3, <1>4, <1>9, <1>10, <1>11, <1>12, <1>13, StepAbout DEF BookingInv

LEMMA TicketStep ==
    ASSUME IInv, NEW c \in Calls, Ticket(c)
    PROVE  IInv'
<1>1. PICK b \in Bookings : b = Of(c) /\ pc[c] = "ticket"
  BY BookingFacts, CallFacts DEF Ticket
<1>0. BookingInv(b) /\ b # None
  BY BookingFacts
<1>2. CallMatches("ticketed", call[c]) /\ "ticketed" \in Steps
  BY <1>1, BookingFacts, CallFacts
     DEF CallMatches, ClaimSteps, UnpaidSteps, PaidSteps, CancelSteps, Steps
<1>3. Moves(c, "ticketed", call[c])
  BY <1>2, GotoMoves, BookingFacts DEF Ticket
<1>4. /\ pc'[c] = "ticketed" /\ Others(c)
      /\ \A d \in Calls : Of(d)' = Of(d) /\ call'[d] = call[d]
      /\ UNCHANGED <<inventory, doc, overdue, voided, money, refused, clobbered>>
  BY <1>3 DEF Ticket, Moves, Of, books
<1>5. /\ issued' \in [Bookings -> Nat]
      /\ SupplierOf[b] # "KAFILA" => issued'[b] = issued[b] + 1
      /\ \A e \in Bookings \ {b} : issued'[e] = issued[e]
  BY <1>1, BookingFacts DEF Ticket, Issue, BookTypes
<1>6. \A d \in Calls \ {c} : Of(d) = b => pc[d] \notin ClaimSteps
  BY <1>0, <1>1 DEF BookingInv, Claimed, ClaimSteps, PaidSteps
<1>7. Claimed(b)' /\ DebitKnown(b)'
  BY <1>0, <1>1, <1>4
     DEF BookingInv, Claimed, DebitKnown, Others, ClaimSteps, UnpaidSteps, PaidSteps
<1>8. TicketKnown(b)' /\ VoidKnown(b)'
  BY <1>0, <1>1, <1>4, <1>5, <1>6
     DEF BookingInv, Claimed, TicketKnown, VoidKnown, Others, ClaimSteps, UnpaidSteps, PaidSteps
<1>9. b \notin clobbered' => Owned(b)'
  BY <1>0, <1>1, <1>4
     DEF BookingInv, Owned, Repaid, Others, ClaimSteps, UnpaidSteps, PaidSteps, CancelSteps
<1>10. BookTypes' /\ \A e \in Bookings \ {b} : Untouched(e)
  BY <1>4, <1>5, BookingFacts DEF BookTypes, Untouched
<1> QED
  BY <1>1, <1>3, <1>4, <1>7, <1>8, <1>9, <1>10, StepAbout DEF BookingInv

\* The auto-refund of a ticket that failed.
LEMMA RefundTicketStep ==
    ASSUME IInv, NEW c \in Calls, RefundTicket(c)
    PROVE  IInv'
<1>1. PICK b \in Bookings : b = Of(c) /\ pc[c] = "refundTicket"
  BY BookingFacts, CallFacts DEF RefundTicket
<1>0. BookingInv(b) /\ b # None /\ Price \in Nat
  BY BookingFacts, CallFacts
<1>2. CallMatches("failed", call[c]) /\ "failed" \in Steps
  BY <1>1, BookingFacts, CallFacts
     DEF CallMatches, ClaimSteps, UnpaidSteps, PaidSteps, CancelSteps, Steps
<1>3. Moves(c, "failed", call[c])
  BY <1>2, GotoMoves, BookingFacts DEF RefundTicket
<1>4. /\ pc'[c] = "failed" /\ Others(c) /\ \A d \in Calls : Of(d)' = Of(d) /\ call'[d] = call[d]
      /\ UNCHANGED <<inventory, doc, overdue, issued, voided, clobbered>>
  BY <1>3 DEF RefundTicket, Moves, Of, supplier
<1>5. /\ money' \in [Bookings -> [debit : Nat, refund : Nat, fee : Nat]]
      /\ money'[b].debit = money[b].debit
      /\ money'[b].refund \in {money[b].refund, money[b].refund + Price}
      /\ refused' \subseteq Bookings
      /\ b \in refused' \/ money'[b].refund = money[b].refund + Price
      /\ \A e \in Bookings \ {b} : money'[e] = money[e] /\ (e \in refused <=> e \in refused')
  <2>1. CASE AutoRefund(Of(c)) /\ UNCHANGED refused
    BY <1>0, <1>1, <2>1, BookingFacts DEF AutoRefund, Charge, BookTypes
  <2>2. CASE refused' = refused \cup {Of(c)} /\ UNCHANGED money
    BY <1>0, <1>1, <2>2, BookingFacts DEF BookTypes
  <2> QED
    BY <2>1, <2>2 DEF RefundTicket
<1>6. money[b].debit = Price /\ money[b].refund \in Nat
  BY <1>0, <1>1, BookingFacts DEF BookingInv, Claimed, PaidSteps
<1>7. \A d \in Calls \ {c} : Of(d) = b => pc[d] \notin ClaimSteps
  BY <1>0, <1>1 DEF BookingInv, Claimed, ClaimSteps, PaidSteps
<1>8. Claimed(b)'
  BY <1>0, <1>1, <1>4, <1>5
     DEF BookingInv, Claimed, Others, ClaimSteps, UnpaidSteps, PaidSteps
<1>9. DebitKnown(b)'
  BY <1>0, <1>1, <1>4, <1>5, <1>6 DEF BookingInv, DebitKnown
<1>10. TicketKnown(b)' /\ VoidKnown(b)'
  BY <1>0, <1>1, <1>4, <1>5 DEF BookingInv, TicketKnown, VoidKnown, Others, UnpaidSteps
<1>11. b \notin clobbered' => Owned(b)'
  <2>1. Repaid(b)'
    BY <1>0, <1>5, <1>6 DEF Repaid
  <2> QED
    BY <1>0, <1>1, <1>4, <1>7, <2>1
       DEF BookingInv, Owned, Others, ClaimSteps, UnpaidSteps, PaidSteps, CancelSteps,
           Unsold, Confirmed
<1>12. BookTypes' /\ \A e \in Bookings \ {b} : Untouched(e)
  BY <1>4, <1>5, BookingFacts DEF BookTypes, Untouched
<1> QED
  BY <1>1, <1>3, <1>4, <1>8, <1>9, <1>10, <1>11, <1>12, StepAbout DEF BookingInv

\* What the refund of a cancellation starts from.
LEMMA CancelAtSupplierStep ==
    ASSUME IInv, NEW c \in Calls, CancelAtSupplier(c)
    PROVE  IInv'
<1>1. PICK b \in Bookings : b = Of(c) /\ pc[c] = "supplier"
  BY BookingFacts, CallFacts DEF CancelAtSupplier
<1>0. /\ BookingInv(b) /\ b # None /\ call[c] \in Call /\ CallMatches(pc[c], call[c])
      /\ Price \in Nat /\ Fee \in Nat /\ Fee <= Price /\ voided \subseteq Bookings
      /\ call[c].fee \in {0, Fee} /\ None # "DONE"
  BY BookingFacts, CallFacts DEF BookTypes, Call
<1>2. PICK step \in {"refund", "cancelled"} :
         /\ Goto(c, step)
         /\ step = "refund" => call[c].paid /\ Price > call[c].fee
         /\ step = "cancelled" => ~call[c].paid \/ Price <= call[c].fee
  <2>1. CASE call[c].paid /\ Price > call[c].fee
    BY <2>1 DEF CancelAtSupplier
  <2>2. CASE ~(call[c].paid /\ Price > call[c].fee)
    BY <1>0, <2>2 DEF CancelAtSupplier
  <2> QED
    BY <2>1, <2>2
<1>3. PICK outcome \in {None, "DONE", "FAILED"} :
         /\ call' = [call EXCEPT ![c] = [call[c] EXCEPT !.supplierCancel = outcome]]
         /\ voided \subseteq voided' /\ voided' \subseteq voided \cup {b}
         /\ SupplierOf[b] \in {"SERIES", "TBO"} =>
               /\ outcome = "DONE" => b \in voided'
               /\ b \in voided' \/ outcome = "FAILED"
  <2>1. CASE /\ SupplierOf[Of(c)] \in {"SERIES", "TBO"}
             /\ voided' = voided \cup {Of(c)}
             /\ call' = [call EXCEPT ![c].supplierCancel = "DONE"]
    BY <1>1, <2>1
  <2>2. CASE /\ SupplierOf[Of(c)] \in {"SERIES", "TBO"}
             /\ call' = [call EXCEPT ![c].supplierCancel = CancelFailure]
             /\ UNCHANGED voided
    BY <1>1, <2>2 DEF CancelFailure
  <2>3. CASE /\ SupplierOf[Of(c)] = "LCC"
             /\ call' = [call EXCEPT ![c].supplierCancel = "DONE"]
             /\ UNCHANGED voided
    BY <1>1, <2>3
  <2>4. CASE /\ SupplierOf[Of(c)] = "KAFILA" \/ call[c].supplierCancel = "DONE"
             /\ UNCHANGED <<voided, call>>
    <3>1. [call[c] EXCEPT !.supplierCancel = call[c].supplierCancel] = call[c]
      BY <1>0 DEF Call
    <3>2. call' = [call EXCEPT ![c] = [call[c] EXCEPT !.supplierCancel = call[c].supplierCancel]]
      BY <2>4, <3>1, BookingFacts, CallFacts
    <3>3. call[c].supplierCancel \in {None, "DONE", "FAILED"}
      BY <1>0 DEF Call
    <3>4. SupplierOf[b] \in {"SERIES", "TBO"} =>
             call[c].supplierCancel = "DONE" /\ b \in voided
      BY <1>0, <1>1, <2>4 DEF BookingInv, VoidKnown
    <3> QED
      BY <2>4, <3>2, <3>3, <3>4
  <2> QED
    BY <2>1, <2>2, <2>3, <2>4 DEF CancelAtSupplier
<1>4. PICK memory : memory = [call[c] EXCEPT !.supplierCancel = outcome]
  OBVIOUS
<1>5. /\ memory \in Call /\ memory.booking = b /\ memory.seen = call[c].seen
      /\ (memory.paid <=> call[c].paid) /\ memory.supplierCancel = outcome
      /\ memory.fee = call[c].fee
  BY <1>0, <1>1, <1>4 DEF Call, Of
<1>6. CallMatches(step, memory) /\ step \in Steps
  BY <1>0, <1>1, <1>2, <1>5
     DEF CallMatches, ClaimSteps, UnpaidSteps, PaidSteps, CancelSteps, Steps
<1>7. Moves(c, step, memory) /\ Of(c)' = b
  BY <1>2, <1>3, <1>4, <1>5, <1>6, MovesTo, BookingFacts DEF Moves, Of
<1>8. /\ pc'[c] = step /\ call'[c] = memory
      /\ Others(c) /\ \A d \in Calls : Of(d)' = Of(d)
      /\ UNCHANGED <<inventory, doc, overdue, issued, money, refused, clobbered>>
  BY <1>1, <1>7 DEF CancelAtSupplier, Moves, Others, Of, books
<1>9. Claimed(b)'
  BY <1>0, <1>1, <1>2, <1>8 DEF BookingInv, Claimed, Others, ClaimSteps, UnpaidSteps, PaidSteps
<1>10. DebitKnown(b)'
  BY <1>0, <1>1, <1>5, <1>8 DEF BookingInv, DebitKnown, Others
<1>11. TicketKnown(b)'
  BY <1>0, <1>1, <1>2, <1>8 DEF BookingInv, TicketKnown, Others, UnpaidSteps
<1>12. VoidKnown(b)'
  BY <1>0, <1>1, <1>3, <1>5, <1>8 DEF BookingInv, VoidKnown, Others
<1>13. b \notin clobbered' => Owned(b)'
  <2> SUFFICES ASSUME b \notin clobbered' PROVE Owned(b)'
    OBVIOUS
  <2>1. Owned(b) /\ doc[b].status = "CANCEL_REQUESTED" /\ (call[c].paid \/ money[b].debit = 0)
    BY <1>0, <1>1, <1>8 DEF BookingInv, Owned, CancelSteps
  <2>2. \A d \in Calls \ {c} : Of(d) = b => pc[d] \notin ClaimSteps \cup CancelSteps
    BY <1>1, <2>1 DEF Owned, ClaimSteps, UnpaidSteps, PaidSteps, CancelSteps
  <2>3. step = "cancelled" => Repaid(b)'
    <3> SUFFICES ASSUME step = "cancelled", money[b].debit > 0 PROVE Fee = Price
      BY <1>8 DEF Repaid
    <3>1. Price > 0 /\ money[b].debit = Price
      BY <1>0 DEF BookingInv, DebitKnown
    <3>2. Price <= call[c].fee
      BY <1>2, <2>1, <3>1
    <3> QED
      BY <1>0, <3>1, <3>2
  <2> QED
    BY <1>1, <1>2, <1>3, <1>5, <1>8, <2>1, <2>2, <2>3
       DEF Owned, Others, ClaimSteps, UnpaidSteps, PaidSteps, CancelSteps, Unsold, Confirmed
<1>14. BookTypes' /\ \A e \in Bookings \ {b} : Untouched(e)
  BY <1>0, <1>3, <1>8, BookingFacts DEF BookTypes, Untouched
<1> QED
  BY <1>1, <1>7, <1>9, <1>10, <1>11, <1>12, <1>13, <1>14, StepAbout DEF BookingInv

LEMMA RefundCancelledStep ==
    ASSUME IInv, NEW c \in Calls, RefundCancelled(c)
    PROVE  IInv'
<1>1. PICK b \in Bookings : b = Of(c) /\ pc[c] = "refund"
  BY BookingFacts, CallFacts DEF RefundCancelled
<1>0. /\ BookingInv(b) /\ b # None /\ call[c] \in Call /\ CallMatches(pc[c], call[c])
      /\ Price \in Nat /\ Fee \in Nat
      /\ money[b].refund \in Nat
  BY BookingFacts, CallFacts
<1>2. call[c].paid /\ call[c].fee \in Nat /\ Price > call[c].fee /\ money[b].debit = Price
  <2>1. call[c].paid /\ Price > call[c].fee /\ call[c].fee \in {0, Fee}
    BY <1>0, <1>1 DEF CallMatches, Call
  <2> QED
    BY <1>0, <1>1, <2>1 DEF BookingInv, DebitKnown
<1>3. PICK step \in {"fee", "cancelled"} : Goto(c, step)
  BY DEF RefundCancelled
<1>4. PICK refunded \in BOOLEAN :
         /\ call' = [call EXCEPT ![c] = [call[c] EXCEPT !.refunded = refunded]]
         /\ money' \in [Bookings -> [debit : Nat, refund : Nat, fee : Nat]]
         /\ money'[b].debit = money[b].debit
         /\ refused' \subseteq Bookings
         /\ b \in refused' \/ money'[b].refund > 0
         /\ \A e \in Bookings \ {b} : money'[e] = money[e] /\ (e \in refused <=> e \in refused')
  <2>1. CASE /\ Charge(Of(c), "refund", Price - call[c].fee)
             /\ call' = [call EXCEPT ![c].refunded = TRUE] /\ UNCHANGED refused
    <3>1. Price - call[c].fee \in Nat /\ Price - call[c].fee > 0
      BY <1>0, <1>2
    <3>2. PICK back : back = Price - call[c].fee
      OBVIOUS
    <3>3. money' = [money EXCEPT ![b]["refund"] = @ + back] /\ back \in Nat /\ back > 0
      BY <1>1, <2>1, <3>1, <3>2 DEF Charge
    <3>4. /\ money' \in [Bookings -> [debit : Nat, refund : Nat, fee : Nat]]
          /\ money'[b].debit = money[b].debit /\ money'[b].refund > 0
          /\ \A e \in Bookings \ {b} : money'[e] = money[e]
      BY <1>0, <3>3, BookingFacts DEF BookTypes
    <3> QED
      BY <2>1, <3>4, BookingFacts DEF BookTypes
  <2>2. CASE refused' = refused \cup {Of(c)} /\ UNCHANGED <<money, call>>
    <3>1. [call[c] EXCEPT !.refunded = call[c].refunded] = call[c] /\ call[c].refunded \in BOOLEAN
      BY <1>0 DEF Call
    <3>2. call' = [call EXCEPT ![c] = [call[c] EXCEPT !.refunded = call[c].refunded]]
      BY <2>2, <3>1, BookingFacts, CallFacts
    <3> QED
      BY <1>1, <2>2, <3>1, <3>2, BookingFacts DEF BookTypes
  <2> QED
    BY <2>1, <2>2 DEF RefundCancelled
<1>5. PICK memory : memory = [call[c] EXCEPT !.refunded = refunded]
  OBVIOUS
<1>6. /\ memory \in Call /\ memory.booking = b /\ memory.seen = call[c].seen
      /\ (memory.paid <=> call[c].paid) /\ memory.supplierCancel = call[c].supplierCancel
  BY <1>0, <1>1, <1>5 DEF Call, Of
<1>7. CallMatches(step, memory) /\ step \in Steps
  BY <1>0, <1>1, <1>6
     DEF CallMatches, ClaimSteps, UnpaidSteps, PaidSteps, CancelSteps, Steps
<1>8. Moves(c, step, memory) /\ Of(c)' = b
  <2>1. call' = [call EXCEPT ![c] = memory]
    BY <1>4, <1>5
  <2>2. Moves(c, step, memory)
    BY <1>3, <1>6, <1>7, <2>1, MovesTo, BookingFacts
  <2> QED
    BY <1>6, <2>2 DEF Moves, Of
<1>9. /\ pc'[c] = step /\ call'[c] = memory
      /\ Others(c) /\ \A d \in Calls : Of(d)' = Of(d)
      /\ UNCHANGED <<inventory, doc, overdue, issued, voided, clobbered>>
  BY <1>1, <1>8 DEF RefundCancelled, Moves, Others, Of, supplier
<1>10. Claimed(b)'
  BY <1>0, <1>1, <1>4, <1>9 DEF BookingInv, Claimed, Others, ClaimSteps, UnpaidSteps, PaidSteps
<1>11. DebitKnown(b)'
  BY <1>0, <1>1, <1>2, <1>4, <1>6, <1>9 DEF BookingInv, DebitKnown, Others
<1>12. TicketKnown(b)' /\ VoidKnown(b)'
  BY <1>0, <1>1, <1>4, <1>6, <1>9 DEF BookingInv, TicketKnown, VoidKnown, Others, UnpaidSteps
<1>13. b \notin clobbered' => Owned(b)'
  <2> SUFFICES ASSUME b \notin clobbered' PROVE Owned(b)'
    OBVIOUS
  <2>1. Owned(b) /\ doc[b].status = "CANCEL_REQUESTED"
    BY <1>0, <1>1, <1>9 DEF BookingInv, Owned, CancelSteps
  <2>2. \A d \in Calls \ {c} : Of(d) = b => pc[d] \notin ClaimSteps \cup CancelSteps
    BY <1>1, <2>1 DEF Owned, ClaimSteps, UnpaidSteps, PaidSteps, CancelSteps
  <2>3. Repaid(b)'
    BY <1>4 DEF Repaid
  <2> QED
    BY <1>1, <1>2, <1>6, <1>9, <2>1, <2>2, <2>3
       DEF Owned, Others, ClaimSteps, UnpaidSteps, PaidSteps, CancelSteps, Unsold, Confirmed
<1>14. BookTypes' /\ \A e \in Bookings \ {b} : Untouched(e)
  BY <1>4, <1>9, BookingFacts DEF BookTypes, Untouched
<1> QED
  BY <1>1, <1>8, <1>10, <1>11, <1>12, <1>13, <1>14, StepAbout DEF BookingInv

LEMMA ChargeFeeStep ==
    ASSUME IInv, NEW c \in Calls, ChargeFee(c)
    PROVE  IInv'
<1>1. PICK b \in Bookings : b = Of(c) /\ pc[c] = "fee"
  BY BookingFacts, CallFacts DEF ChargeFee
<1>0. BookingInv(b) /\ b # None /\ call[c] \in Call /\ call[c].fee \in Nat
  BY BookingFacts, CallFacts DEF Call
<1>2. CallMatches("cancelled", call[c]) /\ "cancelled" \in Steps
  BY <1>1, BookingFacts, CallFacts
     DEF CallMatches, ClaimSteps, UnpaidSteps, PaidSteps, CancelSteps, Steps
<1>3. Moves(c, "cancelled", call[c])
  BY <1>2, GotoMoves, BookingFacts DEF ChargeFee
<1>4. /\ pc'[c] = "cancelled" /\ Others(c)
      /\ \A d \in Calls : Of(d)' = Of(d) /\ call'[d] = call[d]
      /\ UNCHANGED <<inventory, doc, overdue, issued, voided, refused, clobbered>>
  BY <1>3 DEF ChargeFee, Moves, Of, supplier
<1>5. PICK fee \in Nat : fee = call[c].fee
  BY <1>0
<1>6. /\ money' \in [Bookings -> [debit : Nat, refund : Nat, fee : Nat]]
      /\ money'[b].debit = money[b].debit /\ money'[b].refund = money[b].refund
      /\ \A e \in Bookings \ {b} : money'[e] = money[e]
  BY <1>1, <1>5, BookingFacts DEF ChargeFee, Charge, BookTypes
<1>7. Claimed(b)' /\ DebitKnown(b)'
  BY <1>0, <1>1, <1>4, <1>6
     DEF BookingInv, Claimed, DebitKnown, Others, ClaimSteps, UnpaidSteps, PaidSteps
<1>8. TicketKnown(b)' /\ VoidKnown(b)'
  BY <1>0, <1>1, <1>4, <1>6 DEF BookingInv, TicketKnown, VoidKnown, Others, UnpaidSteps
<1>9. b \notin clobbered' => Owned(b)'
  BY <1>0, <1>1, <1>4, <1>6
     DEF BookingInv, Owned, Repaid, Others, ClaimSteps, UnpaidSteps, PaidSteps, CancelSteps
<1>10. BookTypes' /\ \A e \in Bookings \ {b} : Untouched(e)
  BY <1>4, <1>6, BookingFacts DEF BookTypes, Untouched
<1> QED
  BY <1>1, <1>3, <1>4, <1>7, <1>8, <1>9, <1>10, StepAbout DEF BookingInv

-----------------------------------------------------------------------------
(* The theorems *)

LEMMA InitIInv == Init => IInv
<1> SUFFICES ASSUME Init PROVE IInv
  OBVIOUS
<1>1. NoCall \in Call
  BY BookingAssumption DEF NoCall, Call, Statuses
<1>2. TypeOK
  BY <1>1, BookingAssumption DEF Init, TypeOK, Document, Statuses, Steps
<1>3. CallsMatch
  BY DEF Init, CallsMatch, CallMatches, ClaimSteps, UnpaidSteps, PaidSteps, CancelSteps
<1>4. ASSUME NEW b \in Bookings PROVE BookingInv(b)
  <2>1. \A c \in Calls : Of(c) # b
    BY <1>4, BookingAssumption DEF Init, Of, NoCall
  <2>2. /\ doc[b].status = "NONE" /\ doc[b].payment = "PENDING" /\ doc[b].supplierCancel = None
        /\ issued[b] = 0 /\ money[b].debit = 0 /\ money[b].refund = 0
    BY <1>4 DEF Init
  <2>3. Claimed(b) /\ DebitKnown(b)
    BY <2>1, <2>2 DEF Claimed, DebitKnown
  <2>4. TicketKnown(b) /\ VoidKnown(b)
    BY <2>1, <2>2, BookingAssumption DEF TicketKnown, VoidKnown
  <2>5. Owned(b)
    BY <2>1, <2>2 DEF Owned, Confirmed
  <2> QED
    BY <2>3, <2>4, <2>5 DEF BookingInv
<1> QED
  BY <1>2, <1>3, <1>4 DEF IInv

LEMMA NextIInv == IInv /\ [Next]_vars => IInv'
<1> SUFFICES ASSUME IInv, [Next]_vars PROVE IInv'
  OBVIOUS
<1>1. CASE UNCHANGED vars
  <2>1. UNCHANGED <<inventory, doc, overdue, issued, voided, money, refused, clobbered, pc, call>>
    BY <1>1 DEF vars, supplier, books
  <2> QED
    BY <2>1 DEF IInv, TypeOK, CallsMatch, BookingInv, Claimed, DebitKnown, TicketKnown, VoidKnown,
       Owned, Repaid, Of
<1>2. CASE \E b \in Bookings : HoldLapses(b)
  BY <1>2, HoldLapsesStep
<1>3. ASSUME NEW c \in Calls, NEW b \in Bookings, Start(c, b) PROVE IInv'
  BY <1>3, HoldSeatsStep, TakeHoldStep, ReadManualStep, ReadForCancelStep DEF Start
<1>4. ASSUME NEW c \in Calls, Proceed(c) PROVE IInv'
  <2>1. CASE CreateBooking(c) \/ Lapsed(c) \/ RequestCancel(c)
    BY <2>1, CreateBookingStep, SaveGoesOnStep
  <2>2. CASE Debit(c) \/ Ticket(c) \/ RefundTicket(c)
    BY <2>2, DebitStep, TicketStep, RefundTicketStep
  <2>3. CASE DebitFails(c) \/ RouteToSupplier(c) \/ TicketFails(c)
    BY <2>3, ConfirmGoesOn
  <2>4. CASE \/ BackToHold(c) \/ RouteToManual(c) \/ SaveTicketed(c) \/ SaveFailed(c)
             \/ IssueManually(c) \/ SaveCancelled(c)
    BY <2>4, SaveEndsStep
  <2>5. CASE CancelSeats(c) \/ CancelAtSupplier(c) \/ RefundCancelled(c) \/ ChargeFee(c)
    BY <2>5, CancelSeatsStep, CancelAtSupplierStep, RefundCancelledStep, ChargeFeeStep
  <2>6. CASE \/ ReleaseSeats(c) \/ IssueConflict(c) \/ FeeRefused(c) \/ EditRefused(c)
             \/ \E total \in NewTotals : SaveInventory(c, total)
    BY <2>6, EndStep
  <2> QED
    BY <1>4, <2>1, <2>2, <2>3, <2>4, <2>5, <2>6 DEF Proceed
<1>5. ASSUME NEW c \in Calls, ReadInventory(c) \/ Crash(c) PROVE IInv'
  BY <1>5, ReadInventoryStep, EndStep
<1> QED
  BY <1>1, <1>2, <1>3, <1>4, <1>5 DEF Next

\* For any bookings, calls, fares and suppliers, every reachable state keeps the
\* inductive invariant: the atomic claim of confirmBooking leaves a booking to one
\* caller, which knows whether it has debited, and a document that no save has
\* clobbered tells by its status who that is.
THEOREM BookingInvariance == Spec => []IInv
<1> QED
  BY InitIInv, NextIInv, PTL DEF Spec

\* Documents, money and calls keep their types, with any number of calls at work.
THEOREM TypesKept == Spec => []TypeOK
<1>1. IInv => TypeOK
  BY DEF IInv
<1> QED
  BY <1>1, BookingInvariance, PTL

\* However many calls confirm a booking, after however many refused debits and dead
\* processes, confirmBooking debits the agency for it once.
THEOREM DebitsOnce == Spec => []DebitedOnce
<1>1. IInv => DebitedOnce
  <2> SUFFICES ASSUME IInv, NEW b \in Bookings PROVE money[b].debit <= Price
    BY DEF DebitedOnce
  <2> QED
    BY BookingFacts, CallFacts DEF BookingInv, DebitKnown
<1> QED
  BY <1>1, BookingInvariance, PTL

\* No booking is ticketed twice and none before its debit, whatever the seats, fees
\* and calls.  KAFILA tickets already in adapter.hold, before anybody can pay, and a
\* booking that costs nothing has no debit to wait for: both are excluded.
THEOREM TicketsOnce ==
    ASSUME Price > 0, \A b \in Bookings : SupplierOf[b] # "KAFILA"
    PROVE  Spec => []TicketedOnce
<1>1. IInv => TicketedOnce
  <2> SUFFICES ASSUME IInv, NEW b \in Bookings
               PROVE  issued[b] <= 1 /\ (issued[b] = 1 => money[b].debit > 0)
    BY DEF TicketedOnce
  <2> QED
    BY BookingFacts DEF BookingInv, TicketKnown
<1> QED
  BY <1>1, BookingInvariance, PTL

\* At every supplier and in every order of confirm, cancel, expiry and crash: only
\* who has paid is given money back, and until a save clobbers the document what
\* stands is paid and what came to nothing is refunded, or its refusal is logged.
THEOREM MoneyFollows == Spec => []MoneyFollowsBooking
<1>1. IInv => MoneyFollowsBooking
  <2> SUFFICES ASSUME IInv PROVE MoneyFollowsBooking
    OBVIOUS
  <2>1. RefundNeedsDebit
    BY BookingFacts DEF RefundNeedsDebit, BookingInv, DebitKnown
  <2>2. TicketIsPaid
    BY BookingFacts DEF TicketIsPaid, BookingInv, Owned, Confirmed
  <2>3. MoneyComesBack
    BY BookingFacts DEF MoneyComesBack, BookingInv, Owned, Repaid
  <2> QED
    BY <2>1, <2>2, <2>3 DEF MoneyFollowsBooking
<1> QED
  BY <1>1, BookingInvariance, PTL

\* A cancelled ticket of the series inventory or of a TBO booking with a real
\* reference is cancelled at the supplier or flagged for the ops desk, also by a
\* second cancel after a first one died.  For KAFILA and for the synthetic LCC
\* reference the code does not keep this.
THEOREM NoTicketForgotten ==
    ASSUME \A b \in Bookings : SupplierOf[b] \in {"SERIES", "TBO"}
    PROVE  Spec => []NoForgottenTicket
<1>1. IInv => NoForgottenTicket
  BY BookingFacts DEF NoForgottenTicket, BookingInv, Owned
<1> QED
  BY <1>1, BookingInvariance, PTL
=============================================================================
