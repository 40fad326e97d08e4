------------------------ MODULE FlightAmendmentProofs ------------------------
(***************************************************************************)
(* Theorems about FlightAmendment, for any number of bookings, amendments  *)
(* and calls, any fares, fees and suppliers: amendments tell the refund,   *)
(* a booking is debited once beside them, one whose cancellation is open   *)
(* is moved by nobody else, and no seat is sold twice.                     *)
(*                                                                         *)
(* An amendment that is not torn has one call at work on it at most, so    *)
(* its status tells what was refunded.  In an orderly booking, one that    *)
(* nothing clobbered and no amendment went astray of, every save finds the *)
(* status its call has read.  So the status tells who is at work there:    *)
(* the one that confirms, the one that cancels, or the one amendment that  *)
(* holds the booking until it is decided.                                  *)
(*                                                                         *)
(* Seats are a sum over the bookings. Each step takes, sells or gives back *)
(* the seats of one booking, and what that one may do next is known from   *)
(* its status, its amendments and the calls at work on it.                 *)
(***************************************************************************)
EXTENDS FlightAmendment, FlightBookingProofs, SetSums

-----------------------------------------------------------------------------
(* The inductive invariant *)

Deciding == {"approve", "amendFee", "amendSeats", "amendBooking", "reject"}

Freeing(m) == amendment[m].type \in {"CANCEL", "REFUND"}

\* What a call remembers, and the amendment on its desk, go with its step.
Fits(step, k, m) ==
    /\ CallMatches(step, k)
    /\ step = "rollback" => k.seen = "CANCEL_REQUESTED"
    /\ step \in AmendmentSteps <=> m \in Amendments

CallsFit == \A c \in Calls : Fits(pc[c], call[c], desk[c])

Typed == BookTypes /\ AmendmentTypeOK /\ call \in [Calls -> Call]

\* The amendment on the desk is of the booking the call works on, once it exists.
DeskKnown(c) ==
    pc[c] \in AmendmentSteps =>
        /\ pc[c] = "amend" <=> amendment[At(c)].status = "NONE"
        /\ pc[c] = "amend" => \A d \in Calls : At(d) = At(c) => d = c
        /\ pc[c] # "amend" => amendment[At(c)].booking = Of(c)
        /\ pc[c] \in {"amendSeats", "amendBooking"} => Freeing(At(c))

Drafted(m) ==
    /\ amendment[m].status = "NONE" <=> amendment[m].booking = None
    /\ amendment[m].status = "NONE" => m \notin torn

\* What an amendment that is not torn has come to, by the one call that works on it.
RefundTold(m) ==
    /\ \A c, d \in Calls : At(c) = m /\ At(d) = m => c = d
    /\ \A c \in Calls : At(c) = m =>
          /\ pc[c] \in {"lock", "settle"} \cup Deciding => amendment[m].status = "PENDING_APPROVAL"
          /\ pc[c] = "rollback" => amendment[m].status = "REJECTED"
          /\ pc[c] \in {"amend", "lock", "approve", "reject", "rollback"} => amendment[m].refunds = 0
          /\ pc[c] = "amendFee" => amendment[m].refunds = 1
          /\ pc[c] \in {"amendSeats", "amendBooking", "settle"} =>
                amendment[m].refunds \in IF Fee < Price THEN {1} ELSE {0, 1}
    /\ (\A c \in Calls : At(c) # m) =>
          amendment[m].refunds \in
              IF amendment[m].status # "COMPLETED" THEN {0} ELSE IF Fee < Price THEN {1} ELSE {0, 1}

\* A booking that is not there yet has its creator only, and tickets have numbers.
CreatorKnown(b) ==
    /\ \A c \in Calls : Of(c) = b => (pc[c] = "create" <=> doc[b].status = "NONE")
    /\ \A c, d \in Calls : Of(c) = b /\ Of(d) = b /\ pc[c] = "create" => c = d
    /\ doc[b].status = "NONE" => \A m \in Amendments : amendment[m].booking # b
    /\ doc[b].status = "TICKETED" => doc[b].numbered

\* m keeps its booking locked: it was locked for it, and is not decided yet or the
\* booking not given back.
Holding(m) ==
    /\ Freeing(m)
    /\ \/ /\ amendment[m].status = "PENDING_APPROVAL"
          /\ \A c \in Calls : At(c) = m => pc[c] \notin {"lock", "settle"}
       \/ \E c \in Calls : At(c) = m /\ pc[c] = "rollback"

\* What the calls of amendments have read.
SeenKnown(b) ==
    \A c \in Calls : Of(c) = b =>
        /\ pc[c] = "lock" => call[c].seen \in {"HOLD", "TICKETED"}
        /\ pc[c] \in Deciding => (call[c].seen = "CANCEL_REQUESTED" <=> Freeing(At(c)))
        /\ pc[c] = "rollback" => Freeing(At(c))

\* Who confirms and who cancels, one call each, shows in the status.
WorkKnown(b) ==
    /\ \A c \in Calls : Of(c) = b =>
          /\ pc[c] \in ClaimSteps => doc[b].status = "TICKETING_IN_PROGRESS"
          /\ pc[c] \in UnpaidSteps => money[b].debit = 0
          /\ pc[c] \in CancelSteps => doc[b].status = "CANCEL_REQUESTED"
    /\ \A c, d \in Calls : Of(c) = b /\ Of(d) = b =>
          /\ pc[c] \in ClaimSteps /\ pc[d] \in ClaimSteps => c = d
          /\ pc[c] \in CancelSteps /\ pc[d] \in CancelSteps => c = d
    /\ money[b].debit \in {0, Price}
    /\ doc[b].status \in Unsold => money[b].debit = 0

\* And so does the amendment that holds the booking.
HeldKnown(b) ==
    \A m \in Amendments : amendment[m].booking = b /\ Holding(m) =>
        /\ doc[b].status = "CANCEL_REQUESTED"
        /\ ~doc[b].numbered => money[b].debit = 0
        /\ \A c \in Calls : Of(c) = b => pc[c] \notin CancelSteps
        /\ \A n \in Amendments : amendment[n].booking = b /\ Holding(n) => n = m

LockKnown(b) == SeenKnown(b) /\ WorkKnown(b) /\ HeldKnown(b)

AmendmentInv ==
    /\ Typed /\ CallsFit
    /\ \A c \in Calls : DeskKnown(c)
    /\ \A m \in Amendments : Drafted(m) /\ (m \notin torn => RefundTold(m))
    /\ \A b \in Bookings : CreatorKnown(b) /\ (Orderly(b) => LockKnown(b))

-----------------------------------------------------------------------------
(* What a step does to the calls *)

LEMMA Known ==
    ASSUME AmendmentInv
    PROVE  /\ pc \in [Calls -> Steps \cup AmendmentSteps] /\ call \in [Calls -> Call]
           /\ desk \in [Calls -> Amendments \cup {None}] /\ doc \in [Bookings -> Document]
           /\ money \in [Bookings -> [debit : Nat, refund : Nat, fee : Nat]]
           /\ None \notin Bookings /\ None \notin Amendments /\ Inventory \notin Bookings
           /\ Price \in Nat /\ Fee \in Nat /\ Fee <= Price
           /\ NoCall \in Call /\ NoCall.booking = None
           /\ \A c \in Calls :
                 /\ pc[c] \in Steps \cup AmendmentSteps /\ call[c] \in Call
                 /\ CallMatches(pc[c], call[c]) /\ Fits(pc[c], call[c], desk[c]) /\ DeskKnown(c)
                 /\ pc[c] \notin {"idle", "edit"} => Of(c) \in Bookings
                 /\ pc[c] \in {"idle", "edit"} => Of(c) = None
                 /\ pc[c] \in AmendmentSteps => At(c) \in Amendments
                 /\ pc[c] \notin AmendmentSteps => At(c) = None
           /\ \A b \in Bookings : doc[b] \in Document /\ CreatorKnown(b)
           /\ \A m \in Amendments : Drafted(m)
<1>1. NoCall \in Call /\ NoCall.booking = None
  BY BookingAssumption DEF NoCall, Call, Statuses
<1>2. /\ None \notin Bookings /\ None \notin Amendments /\ Inventory \notin Bookings
      /\ Price \in Nat /\ Fee \in Nat /\ Fee <= Price
  BY BookingAssumption, AmendmentAssumption
<1>3. Typed /\ BookTypes /\ AmendmentTypeOK
  BY DEF AmendmentInv, Typed
<1>4. \A c \in Calls : CallMatches(pc[c], call[c]) /\ Fits(pc[c], call[c], desk[c])
  BY DEF AmendmentInv, CallsFit, Fits
<1>5. \A c \in Calls : /\ pc[c] \notin {"idle", "edit"} => Of(c) \in Bookings
                       /\ pc[c] \in {"idle", "edit"} => Of(c) = None
  BY <1>1, <1>4 DEF CallMatches, Of
<1>6. \A c \in Calls : /\ pc[c] \in AmendmentSteps => At(c) \in Amendments
                       /\ pc[c] \notin AmendmentSteps => At(c) = None
  BY <1>2, <1>3, <1>4 DEF Fits, At, AmendmentTypeOK
<1> QED
  BY <1>1, <1>2, <1>3, <1>4, <1>5, <1>6 DEF AmendmentInv, Typed, BookTypes, AmendmentTypeOK

\* The other calls stay where they are.
Apart(c) == \A d \in Calls \ {c} : /\ pc'[d] = pc[d] /\ call'[d] = call[d] /\ desk'[d] = desk[d]
                                   /\ Of(d)' = Of(d) /\ At(d)' = At(d)

Goes(c, step, k, m) ==
    /\ pc' \in [Calls -> Steps \cup AmendmentSteps] /\ call' \in [Calls -> Call]
    /\ desk' \in [Calls -> Amendments \cup {None}]
    /\ CallsFit' /\ Apart(c)
    /\ pc'[c] = step /\ call'[c] = k /\ Of(c)' = k.booking /\ At(c)' = m

LEMMA GoesTo ==
    ASSUME AmendmentInv, NEW c \in Calls, NEW step \in Steps \cup AmendmentSteps,
           NEW k \in Call, NEW m \in Amendments \cup {None}, Fits(step, k, m),
           pc' = [pc EXCEPT ![c] = step], call' = [call EXCEPT ![c] = k],
           desk' = [desk EXCEPT ![c] = m]
    PROVE  Goes(c, step, k, m)
<1>1. /\ pc' \in [Calls -> Steps \cup AmendmentSteps] /\ call' \in [Calls -> Call]
      /\ desk' \in [Calls -> Amendments \cup {None}]
      /\ pc'[c] = step /\ call'[c] = k /\ desk'[c] = m
      /\ \A d \in Calls \ {c} : pc'[d] = pc[d] /\ call'[d] = call[d] /\ desk'[d] = desk[d]
  BY Known
<1>2. CallsFit'
  <2> SUFFICES ASSUME NEW d \in Calls PROVE Fits(pc[d], call[d], desk[d])'
    BY DEF CallsFit
  <2>1. CASE d = c
    BY <1>1, <2>1 DEF Fits, CallMatches
  <2>2. CASE d # c
    BY <1>1, <2>2, Known DEF Fits, CallMatches
  <2> QED
    BY <2>1, <2>2
<1> QED
  BY <1>1, <1>2 DEF Goes, Apart, Of, At

\* A call that returns, throws or dies.
LEMMA IdleFits == "idle" \in Steps /\ Fits("idle", NoCall, None)
  BY AmendmentAssumption DEF Fits, CallMatches, NoCall, Steps, AmendmentSteps, ClaimSteps,
     UnpaidSteps, PaidSteps, CancelSteps

LEMMA LeaveGoes ==
    ASSUME AmendmentInv, NEW c \in Calls, Leave(c),
           desk' = [desk EXCEPT ![c] = None] \/ (pc[c] \notin AmendmentSteps /\ UNCHANGED desk)
    PROVE  Goes(c, "idle", NoCall, None) /\ Of(c)' = None /\ At(c)' = None
<1>1. desk' = [desk EXCEPT ![c] = None]
  BY Known DEF At
<1>2. Goes(c, "idle", NoCall, None)
  BY <1>1, IdleFits, Known, GoesTo DEF Leave, Goto
<1> QED
  BY <1>2, Known DEF Goes

\* A call that goes on, with what it remembers.
LEMMA OnGoes ==
    ASSUME AmendmentInv, NEW c \in Calls, NEW step \in Steps \cup AmendmentSteps,
           Goto(c, step), UNCHANGED <<call, desk>>, Fits(step, call[c], desk[c])
    PROVE  Goes(c, step, call[c], At(c)) /\ Of(c)' = Of(c) /\ At(c)' = At(c)
<1>1. /\ call' = [call EXCEPT ![c] = call[c]] /\ desk' = [desk EXCEPT ![c] = desk[c]]
      /\ call[c] \in Call /\ desk[c] \in Amendments \cup {None}
  BY Known
<1>2. Goes(c, step, call[c], desk[c])
  BY <1>1, GoesTo DEF Goto
<1> QED
  BY <1>2 DEF Goes, Of, At

-----------------------------------------------------------------------------
(* A step is about one booking and one amendment *)

\* An amendment keeps what it is of.
Settled(n) == /\ amendment'[n].booking = amendment[n].booking
              /\ Freeing(n)' <=> Freeing(n)

\* What was orderly after a step was so before.
Onward == /\ clobbered \subseteq clobbered' /\ strayed \subseteq strayed' /\ torn \subseteq torn'
          /\ \A n \in Amendments : \/ amendment'[n].booking = amendment[n].booking
                                   \/ amendment[n].status = "NONE"

LEMMA OrderlyBefore ==
    ASSUME AmendmentInv, Onward, NEW b \in Bookings, Orderly(b)'
    PROVE  Orderly(b)
BY Known DEF Onward, Orderly, Drafted

\* Bookings that a step of c is not about, and the amendments of them.
LEMMA OtherBooking ==
    ASSUME AmendmentInv, AmendmentTypeOK', NEW c \in Calls, Apart(c), NEW e \in Bookings,
           Of(c) # e, Of(c)' # e, doc'[e] = doc[e], money'[e].debit = money[e].debit,
           \A n \in Amendments : amendment[n].booking = e \/ amendment'[n].booking = e =>
              amendment'[n] = amendment[n] /\ At(c) # n /\ At(c)' # n
    PROVE  /\ CreatorKnown(e)'
           /\ LockKnown(e) => LockKnown(e)'
<1>1. \A d \in Calls : Of(d) = e \/ Of(d)' = e =>
         /\ d # c /\ Of(d)' = Of(d) /\ At(d)' = At(d) /\ pc'[d] = pc[d] /\ call'[d] = call[d]
  BY DEF Apart
<1>2. CreatorKnown(e)'
  BY <1>1, Known DEF CreatorKnown
<1>3. \A d \in Calls : Of(d) = e /\ pc[d] \in AmendmentSteps \ {"amend"} =>
         amendment'[At(d)] = amendment[At(d)]
  BY Known DEF DeskKnown
<1>4. SeenKnown(e) => SeenKnown(e)'
  <2> SUFFICES ASSUME SeenKnown(e), NEW d \in Calls, Of(d)' = e
               PROVE  /\ pc'[d] = "lock" => call'[d].seen \in {"HOLD", "TICKETED"}
                      /\ pc'[d] \in Deciding =>
                            (call'[d].seen = "CANCEL_REQUESTED" <=> Freeing(At(d))')
                      /\ pc'[d] = "rollback" => Freeing(At(d))'
    BY DEF SeenKnown
  <2>1. pc'[d] \in Deciding \cup {"rollback"} => (Freeing(At(d))' <=> Freeing(At(d)))
    BY <1>1, <1>3 DEF Freeing, Deciding, AmendmentSteps
  <2> QED
    BY <1>1, <2>1 DEF SeenKnown
<1>5. WorkKnown(e) => WorkKnown(e)'
  BY <1>1 DEF WorkKnown
<1>6. \A n \in Amendments : amendment'[n].booking = e =>
         /\ amendment[n].booking = e
         /\ Holding(n)' <=> Holding(n)
  <2> SUFFICES ASSUME NEW n \in Amendments, amendment'[n].booking = e
               PROVE  amendment[n].booking = e /\ (Holding(n)' <=> Holding(n))
    OBVIOUS
  <2>1. amendment'[n] = amendment[n] /\ At(c) # n /\ At(c)' # n
    OBVIOUS
  <2>2. \A d \in Calls : (At(d)' = n <=> At(d) = n) /\ (At(d) = n => pc'[d] = pc[d])
    BY <2>1 DEF Apart
  <2> QED
    BY <2>1, <2>2 DEF Holding, Freeing
<1>7. HeldKnown(e) => HeldKnown(e)'
  BY <1>1, <1>6 DEF HeldKnown
<1> QED
  BY <1>2, <1>4, <1>5, <1>7 DEF LockKnown

\* Amendments that it is not about.
LEMMA OtherAmendment ==
    ASSUME NEW c \in Calls, Apart(c), NEW n \in Amendments, At(c) # n, At(c)' # n,
           amendment'[n] = amendment[n], n \in torn <=> n \in torn'
    PROVE  /\ Drafted(n) => Drafted(n)'
           /\ RefundTold(n) => RefundTold(n)'
<1>1. \A d \in Calls : At(d) = n \/ At(d)' = n =>
         d # c /\ At(d)' = At(d) /\ pc'[d] = pc[d]
  BY DEF Apart
<1> QED
  BY <1>1 DEF Drafted, RefundTold

LEMMA OneStep ==
    ASSUME AmendmentInv, NEW c \in Calls, NEW b \in Bookings \cup {None},
           NEW m \in Amendments \cup {None}, NEW step, NEW k, NEW a, Goes(c, step, k, a),
           Of(c) \in {b, None}, Of(c)' \in {b, None}, At(c) \in {m, None}, At(c)' \in {m, None},
           BookTypes', AmendmentTypeOK', Onward,
           \A n \in Amendments \ {m} : amendment'[n] = amendment[n] /\ (n \in torn <=> n \in torn'),
           \A e \in Bookings \ {b} : doc'[e] = doc[e] /\ money'[e].debit = money[e].debit,
           m \in Amendments =>
              /\ amendment[m].booking \in {b, None} /\ amendment'[m].booking \in {b, None}
              /\ \A d \in Calls \ {c} : At(d) = m =>
                    /\ Settled(m)
                    /\ amendment'[m].status = "NONE" <=> amendment[m].status = "NONE"
              /\ Drafted(m)' /\ (m \notin torn' => RefundTold(m)'),
           \A d \in Calls \ {c} : pc[d] = "amend" => At(c)' # At(d),
           DeskKnown(c)',
           b \in Bookings => CreatorKnown(b)' /\ (Orderly(b)' => LockKnown(b)')
    PROVE  AmendmentInv'
<1>1. Apart(c) /\ CallsFit' /\ Typed'
  BY DEF Goes, Typed
<1>2. ASSUME NEW d \in Calls PROVE DeskKnown(d)'
  <2>1. CASE d = c
    BY <2>1
  <2>2. CASE d # c
    <3>1. pc'[d] = pc[d] /\ At(d)' = At(d) /\ Of(d)' = Of(d)
      BY <1>1, <2>2 DEF Apart
    <3> SUFFICES ASSUME pc[d] \in AmendmentSteps
                 PROVE  /\ pc[d] = "amend" <=> amendment'[At(d)].status = "NONE"
                        /\ pc[d] = "amend" => \A e \in Calls : At(e)' = At(d) => e = d
                        /\ pc[d] # "amend" => amendment'[At(d)].booking = Of(d)
                        /\ pc[d] \in {"amendSeats", "amendBooking"} => Freeing(At(d))'
      BY <3>1 DEF DeskKnown
    <3>2. At(d) \in Amendments /\ DeskKnown(d)
      BY Known
    <3>3. /\ amendment'[At(d)].status = "NONE" <=> amendment[At(d)].status = "NONE"
          /\ amendment'[At(d)].booking = amendment[At(d)].booking
          /\ Freeing(At(d))' <=> Freeing(At(d))
      BY <2>2, <3>2, <3>1 DEF Settled, Freeing
    <3>4. pc[d] = "amend" => \A e \in Calls : At(e)' = At(d) => e = d
      BY <1>1, <2>2, <3>2 DEF DeskKnown, Apart
    <3> QED
      BY <3>2, <3>3, <3>4 DEF DeskKnown
  <2> QED
    BY <2>1, <2>2
<1>3. ASSUME NEW n \in Amendments PROVE Drafted(n)' /\ (n \notin torn' => RefundTold(n)')
  <2>1. CASE n = m
    BY <2>1
  <2>2. CASE n # m
    <3>1. At(c) # n /\ At(c)' # n
      BY <2>2, Known
    <3> QED
      BY <1>1, <2>2, <3>1, OtherAmendment DEF AmendmentInv
  <2> QED
    BY <2>1, <2>2
<1>4. ASSUME NEW e \in Bookings PROVE CreatorKnown(e)' /\ (Orderly(e)' => LockKnown(e)')
  <2>1. CASE e = b
    BY <2>1
  <2>2. CASE e # b
    <3>1. Of(c) # e /\ Of(c)' # e /\ doc'[e] = doc[e] /\ money'[e].debit = money[e].debit
      BY <2>2, Known
    <3>2. ASSUME NEW n \in Amendments, amendment[n].booking = e \/ amendment'[n].booking = e
          PROVE  amendment'[n] = amendment[n] /\ At(c) # n /\ At(c)' # n
      <4>1. n # m
        BY <2>2, <3>2, Known
      <4> QED
        BY <4>1, Known
    <3>3. CreatorKnown(e)' /\ (LockKnown(e) => LockKnown(e)')
      BY <1>1, <3>1, <3>2, OtherBooking
    <3> QED
      BY <3>3, OrderlyBefore DEF AmendmentInv
  <2> QED
    BY <2>1, <2>2
<1> QED
  BY <1>1, <1>2, <1>3, <1>4 DEF AmendmentInv

-----------------------------------------------------------------------------
(* The operations of FlightBooking *)

LEMMA FlightStep ==
    ASSUME AmendmentInv, NEW c \in Calls, NEW b \in Bookings \cup {None}, NEW step, NEW k,
           Goes(c, step, k, None), pc[c] \notin AmendmentSteps, step \notin AmendmentSteps,
           UNCHANGED amendmentVars, BookTypes', clobbered \subseteq clobbered',
           Of(c) \in {b, None}, Of(c)' \in {b, None},
           \A e \in Bookings \ {b} : doc'[e] = doc[e] /\ money'[e].debit = money[e].debit,
           b \in Bookings => CreatorKnown(b)' /\ (Orderly(b)' => LockKnown(b)')
    PROVE  AmendmentInv'
<1>1. UNCHANGED <<amendment, desk, torn, strayed>> /\ At(c) = None /\ At(c)' = None
  BY Known DEF amendmentVars, Goes
<1>2. AmendmentTypeOK' /\ Onward
  BY <1>1 DEF AmendmentInv, Typed, AmendmentTypeOK, BookTypes, Goes, Onward
<1>3. DeskKnown(c)' /\ None \notin Amendments
  BY Known DEF DeskKnown, Goes
<1>4. \A d \in Calls \ {c} : pc[d] = "amend" => At(c)' # At(d)
  BY <1>1, Known DEF AmendmentSteps
<1> QED
  BY <1>1, <1>2, <1>3, <1>4, OneStep

\* The call and the amendments of b, when only the call moves.
LEMMA SeenStays ==
    ASSUME AmendmentInv, NEW c \in Calls, Apart(c), NEW b \in Bookings, UNCHANGED amendmentVars,
           pc'[c] \notin AmendmentSteps, pc[c] \notin AmendmentSteps,
           At(c) = None, At(c)' = None, SeenKnown(b)
    PROVE  /\ SeenKnown(b)'
           /\ \A n \in Amendments : Holding(n)' <=> Holding(n)
<1>1. UNCHANGED <<amendment, desk, torn, strayed>>
  BY DEF amendmentVars
<1>2. \A m : Freeing(m)' <=> Freeing(m)
  BY <1>1 DEF Freeing
<1>3. SeenKnown(b)'
  <2> SUFFICES ASSUME NEW d \in Calls, Of(d)' = b, pc'[d] \in AmendmentSteps
               PROVE  /\ pc'[d] = "lock" => call'[d].seen \in {"HOLD", "TICKETED"}
                      /\ pc'[d] \in Deciding =>
                            (call'[d].seen = "CANCEL_REQUESTED" <=> Freeing(At(d))')
                      /\ pc'[d] = "rollback" => Freeing(At(d))'
    BY DEF SeenKnown, Deciding, AmendmentSteps
  <2>1. d # c /\ Of(d) = b /\ pc'[d] = pc[d] /\ call'[d] = call[d] /\ At(d)' = At(d)
    BY DEF Apart
  <2>2. Freeing(At(d))' <=> Freeing(At(d))
    BY <1>1, <2>1 DEF Freeing
  <2> QED
    BY <2>1, <2>2 DEF SeenKnown
<1>4. ASSUME NEW n \in Amendments PROVE Holding(n)' <=> Holding(n)
  <2>1. \A d \in Calls : At(d)' = At(d) /\ (At(d) = n => pc'[d] = pc[d])
    BY Known DEF Apart
  <2> QED
    BY <1>1, <2>1 DEF Holding, Freeing
<1> QED
  BY <1>3, <1>4

\* A step that writes neither the document nor a debit.
LEMMA QuietStep ==
    ASSUME AmendmentInv, NEW c \in Calls, NEW b \in Bookings \cup {None}, NEW step, NEW k,
           Goes(c, step, k, None), pc[c] \notin AmendmentSteps, step \notin AmendmentSteps,
           UNCHANGED <<doc, amendmentVars>>, BookTypes', clobbered \subseteq clobbered',
           Of(c) \in {b, None}, Of(c)' \in {b, None},
           \A e \in Bookings : money'[e].debit = money[e].debit,
           Of(c)' = b /\ b \in Bookings => doc[b].status # "NONE" /\ step # "create",
           \/ step \notin ClaimSteps \cup CancelSteps
           \/ Of(c) = b /\ step \in ClaimSteps /\ pc[c] \in ClaimSteps
                /\ (step \in UnpaidSteps => pc[c] \in UnpaidSteps)
           \/ Of(c) = b /\ step \in CancelSteps /\ pc[c] \in CancelSteps
    PROVE  AmendmentInv'
<1> SUFFICES ASSUME b \in Bookings
             PROVE  CreatorKnown(b)' /\ (Orderly(b)' => LockKnown(b)')
  BY FlightStep
<1>1. /\ Apart(c) /\ pc'[c] = step /\ At(c) = None /\ At(c)' = None
      /\ UNCHANGED <<amendment, torn, strayed>> /\ b # None
  BY Known DEF Goes, amendmentVars
<1>2. CreatorKnown(b)'
  BY <1>1, Known DEF CreatorKnown, Apart
<1>3. Orderly(b)' => Orderly(b)
  BY <1>1 DEF Orderly
<1> SUFFICES ASSUME LockKnown(b) PROVE LockKnown(b)'
  BY <1>2, <1>3 DEF AmendmentInv
<1>4. SeenKnown(b)' /\ \A n \in Amendments : Holding(n)' <=> Holding(n)
  BY <1>1, SeenStays DEF LockKnown
<1>5. ClaimSteps \cap CancelSteps = {} /\ UnpaidSteps \subseteq ClaimSteps
  BY DEF ClaimSteps, UnpaidSteps, PaidSteps, CancelSteps
<1>6. WorkKnown(b)'
  BY <1>1, <1>5 DEF LockKnown, WorkKnown, Apart
<1>7. HeldKnown(b)'
  <2>1. \A d \in Calls : Of(d)' = b /\ pc'[d] \in CancelSteps =>
           \E e \in Calls : Of(e) = b /\ pc[e] \in CancelSteps
    BY <1>1, <1>5 DEF Apart
  <2> QED
    BY <1>1, <1>4, <2>1 DEF LockKnown, HeldKnown
<1> QED
  BY <1>4, <1>6, <1>7 DEF LockKnown

\* Nobody but c is at work on b: it has claimed the booking, it cancels it, or the
\* status says that nobody does.
Free(c, b) ==
    \/ doc[b].status \notin {"TICKETING_IN_PROGRESS", "CANCEL_REQUESTED"}
    \/ Of(c) = b /\ pc[c] \in ClaimSteps \cup CancelSteps

LEMMA FreeAlone ==
    ASSUME NEW c \in Calls, NEW b \in Bookings, LockKnown(b), Free(c, b)
    PROVE  /\ \A d \in Calls \ {c} : Of(d) = b => pc[d] \notin ClaimSteps \cup CancelSteps
           /\ \A n \in Amendments : amendment[n].booking = b => ~Holding(n)
BY DEF LockKnown, WorkKnown, HeldKnown, Free

\* A step that writes the document of b, or its debit.
LEMMA WriteStep ==
    ASSUME AmendmentInv, NEW c \in Calls, NEW b \in Bookings, NEW step, NEW k,
           Goes(c, step, k, None), pc[c] \notin AmendmentSteps, step \notin AmendmentSteps,
           UNCHANGED amendmentVars, BookTypes', clobbered \subseteq clobbered',
           Of(c) \in {b, None}, Of(c)' \in {b, None},
           \A e \in Bookings \ {b} : doc'[e] = doc[e] /\ money'[e].debit = money[e].debit,
           doc[b].status = "NONE" => Of(c) = b /\ pc[c] = "create",
           doc'[b].status # "NONE", step # "create",
           doc'[b].status = "TICKETED" => doc'[b].numbered,
           Orderly(b) /\ LockKnown(b) /\ b \notin clobbered' =>
              /\ Free(c, b)
              /\ money'[b].debit \in {0, Price}
              /\ doc'[b].status \in Unsold => money'[b].debit = 0
              /\ step \in ClaimSteps => doc'[b].status = "TICKETING_IN_PROGRESS"
              /\ step \in UnpaidSteps => money'[b].debit = 0
              /\ step \in CancelSteps => doc'[b].status = "CANCEL_REQUESTED"
    PROVE  AmendmentInv'
<1>1. /\ Apart(c) /\ pc'[c] = step /\ At(c) = None /\ At(c)' = None
      /\ UNCHANGED <<amendment, torn, strayed>> /\ b # None
  BY Known DEF Goes, amendmentVars
<1>2. CreatorKnown(b)'
  <2>1. CreatorKnown(b)
    BY Known
  <2>2. \A d \in Calls \ {c} : Of(d)' = b => pc'[d] # "create"
    BY <1>1, <2>1 DEF CreatorKnown, Apart
  <2> QED
    BY <1>1, <2>2 DEF CreatorKnown
<1>3. Orderly(b)' => Orderly(b) /\ b \notin clobbered'
  BY <1>1 DEF Orderly
<1> SUFFICES ASSUME Orderly(b), LockKnown(b), b \notin clobbered' PROVE LockKnown(b)'
  BY <1>2, <1>3, FlightStep DEF AmendmentInv
<1>4. SeenKnown(b)' /\ \A n \in Amendments : Holding(n)' <=> Holding(n)
  BY <1>1, SeenStays DEF LockKnown
<1>5. /\ \A d \in Calls \ {c} : Of(d) = b => pc[d] \notin ClaimSteps \cup CancelSteps
      /\ \A n \in Amendments : amendment[n].booking = b => ~Holding(n)
  BY FreeAlone
<1>6. WorkKnown(b)'
  BY <1>1, <1>5 DEF WorkKnown, Apart, ClaimSteps
<1>7. HeldKnown(b)'
  BY <1>1, <1>4, <1>5 DEF HeldKnown
<1> QED
  BY <1>4, <1>6, <1>7 DEF LockKnown

\* What a save does to the document, and when it clobbers it.
LEMMA SaveDoes ==
    ASSUME AmendmentInv, NEW c \in Calls, NEW b \in Bookings, Of(c) = b, NEW new \in Document,
           Save(c, new)
    PROVE  /\ doc' \in [Bookings -> Document]
           /\ clobbered \subseteq clobbered' /\ clobbered' \subseteq Bookings \cup {Inventory}
           /\ doc'[b] = new
           /\ b \notin clobbered' => doc[b].status = call[c].seen
           /\ \A e \in Bookings \ {b} : doc'[e] = doc[e]
BY Known DEF Save, AmendmentInv, Typed, BookTypes

LEMMA FlightEnds ==
    ASSUME AmendmentInv, NEW c \in Calls, pc[c] \notin AmendmentSteps, UNCHANGED amendmentVars,
           \/ ReleaseSeats(c) \/ IssueConflict(c) \/ FeeRefused(c) \/ EditRefused(c) \/ Crash(c)
           \/ \E total \in NewTotals : SaveInventory(c, total)
    PROVE  AmendmentInv'
<1>1. Goes(c, "idle", NoCall, None) /\ Of(c)' = None
  BY LeaveGoes DEF ReleaseSeats, IssueConflict, FeeRefused, EditRefused, Crash, SaveInventory,
     amendmentVars
<1>2. UNCHANGED <<doc, issued, voided, money, refused, overdue>>
      /\ clobbered' \in {clobbered, clobbered \cup {Inventory}}
  BY DEF ReleaseSeats, IssueConflict, FeeRefused, EditRefused, Crash, SaveInventory, supplier, books
<1>3. BookTypes
  BY DEF AmendmentInv, Typed
<1>4. inventory' \in [total : Nat, seats : Nat]
  <2>1. CASE ReleaseSeats(c)
    <3>1. Of(c) \in Bookings
      BY <2>1, Known DEF ReleaseSeats
    <3> QED
      BY <1>3, <2>1, <3>1, BookingAssumption DEF ReleaseSeats, Release, BookTypes
  <2>2. CASE \E total \in NewTotals : SaveInventory(c, total)
    <3>1. call[c].total \in Nat /\ call[c].seats \in Nat
      BY Known DEF Call
    <3> QED
      BY <1>3, <2>2, <3>1, BookingAssumption DEF SaveInventory, BookTypes
  <2> QED
    BY <1>3, <2>1, <2>2 DEF IssueConflict, FeeRefused, EditRefused, Crash, BookTypes
<1>5. BookTypes' /\ clobbered \subseteq clobbered'
  BY <1>2, <1>3, <1>4 DEF BookTypes
<1>6. PICK b \in Bookings \cup {None} : b = Of(c)
  BY Known
<1>7. "idle" \notin AmendmentSteps \cup ClaimSteps \cup CancelSteps
  BY DEF AmendmentSteps, ClaimSteps, UnpaidSteps, PaidSteps, CancelSteps
<1>8. ~(Of(c)' = b /\ b \in Bookings)
  BY <1>1, Known
<1> QED
  BY <1>1, <1>2, <1>5, <1>6, <1>7, <1>8, QuietStep

\* Steps of a confirm or a cancel that move on without a save or a debit.
LEMMA FlightGoesOn ==
    ASSUME AmendmentInv, NEW c \in Calls, pc[c] \notin AmendmentSteps, UNCHANGED amendmentVars,
           \/ DebitFails(c) \/ RouteToSupplier(c) \/ Ticket(c) \/ TicketFails(c) \/ RefundTicket(c)
           \/ CancelSeats(c) \/ CancelAtSupplier(c) \/ RefundCancelled(c) \/ ChargeFee(c)
    PROVE  AmendmentInv'
<1>0. BookTypes /\ call[c] \in Call
  BY Known DEF AmendmentInv, Typed
<1>1. PICK b \in Bookings : b = Of(c)
  BY Known DEF DebitFails, RouteToSupplier, Ticket, TicketFails, RefundTicket, CancelSeats,
     CancelAtSupplier, RefundCancelled, ChargeFee
<1>2. CallMatches(pc[c], call[c]) /\ desk[c] = None
  BY Known DEF At
<1>3. UNCHANGED <<doc, overdue, clobbered, desk>>
  BY DEF DebitFails, RouteToSupplier, Ticket, TicketFails, RefundTicket, CancelSeats,
     CancelAtSupplier, RefundCancelled, ChargeFee, amendmentVars
<1>4. PICK step \in ClaimSteps \cup CancelSteps, memory \in Call :
         /\ Goto(c, step) /\ call' = [call EXCEPT ![c] = memory]
         /\ memory.booking = b /\ memory.seen = call[c].seen
         /\ step = "refund" => memory.paid /\ Price > memory.fee
         /\ step \in ClaimSteps => pc[c] \in ClaimSteps
         /\ step \in UnpaidSteps => pc[c] \in UnpaidSteps
         /\ step \in CancelSteps => pc[c] \in CancelSteps
  <2>1. CASE DebitFails(c) \/ RouteToSupplier(c) \/ Ticket(c) \/ TicketFails(c) \/ RefundTicket(c)
    <3>1. UNCHANGED call
      BY <2>1 DEF DebitFails, RouteToSupplier, Ticket, TicketFails, RefundTicket
    <3>2. call' = [call EXCEPT ![c] = call[c]]
      BY <3>1, Known
    <3>3. PICK step \in ClaimSteps :
             /\ Goto(c, step) /\ pc[c] \in ClaimSteps /\ step \notin CancelSteps
             /\ step \in UnpaidSteps => pc[c] \in UnpaidSteps
      BY <2>1 DEF DebitFails, RouteToSupplier, Ticket, TicketFails, RefundTicket,
         ClaimSteps, UnpaidSteps, PaidSteps, CancelSteps
    <3>4. step # "refund"
      BY <3>3 DEF ClaimSteps, UnpaidSteps, PaidSteps
    <3> QED
      BY <1>0, <1>1, <3>2, <3>3, <3>4 DEF Of
  <2>2. CASE CancelSeats(c) \/ ChargeFee(c)
    <3>1. UNCHANGED call
      BY <2>2 DEF CancelSeats, ChargeFee
    <3>2. call' = [call EXCEPT ![c] = call[c]]
      BY <3>1, Known
    <3> QED
      BY <1>0, <1>1, <2>2, <3>2 DEF CancelSeats, ChargeFee,
         ClaimSteps, UnpaidSteps, PaidSteps, CancelSteps, Of
  <2>3. CASE CancelAtSupplier(c)
    <3>1. PICK answer \in {None, "DONE", "FAILED"} :
             call' = [call EXCEPT ![c] = [call[c] EXCEPT !.supplierCancel = answer]]
      <4>1. call[c] = [call[c] EXCEPT !.supplierCancel = call[c].supplierCancel]
            /\ call[c].supplierCancel \in {None, "DONE", "FAILED"}
            /\ call = [call EXCEPT ![c] = call[c]]
        BY Known DEF Call
      <4> QED
        BY <2>3, <4>1 DEF CancelAtSupplier, CancelFailure
    <3>2. PICK memory : memory = [call[c] EXCEPT !.supplierCancel = answer]
      OBVIOUS
    <3>3. memory \in Call /\ memory.booking = b /\ memory.seen = call[c].seen
          /\ memory.paid = call[c].paid /\ memory.fee = call[c].fee
      BY <1>0, <1>1, <3>2 DEF Call, Of
    <3>4. PICK step \in {"refund", "cancelled"} :
             Goto(c, step) /\ (step = "refund" => call[c].paid /\ Price > call[c].fee)
      BY <2>3 DEF CancelAtSupplier
    <3> QED
      BY <2>3, <3>1, <3>2, <3>3, <3>4 DEF CancelAtSupplier,
         ClaimSteps, UnpaidSteps, PaidSteps, CancelSteps
  <2>4. CASE RefundCancelled(c)
    <3>1. PICK answer \in BOOLEAN : call' = [call EXCEPT ![c] = [call[c] EXCEPT !.refunded = answer]]
      <4>1. call[c] = [call[c] EXCEPT !.refunded = call[c].refunded]
            /\ call[c].refunded \in BOOLEAN /\ call = [call EXCEPT ![c] = call[c]]
        BY Known DEF Call
      <4> QED
        BY <2>4, <4>1 DEF RefundCancelled
    <3>2. PICK memory : memory = [call[c] EXCEPT !.refunded = answer]
      OBVIOUS
    <3>3. memory \in Call /\ memory.booking = b /\ memory.seen = call[c].seen
      BY <1>0, <1>1, <3>2 DEF Call, Of
    <3>4. PICK step \in {"fee", "cancelled"} : Goto(c, step)
      BY <2>4 DEF RefundCancelled
    <3> QED
      BY <2>4, <3>1, <3>2, <3>3, <3>4 DEF RefundCancelled,
         ClaimSteps, UnpaidSteps, PaidSteps, CancelSteps
  <2> QED
    BY <2>1, <2>2, <2>3, <2>4
<1>5. /\ step \in Steps \cup AmendmentSteps /\ step \notin AmendmentSteps /\ step # "create"
      /\ pc[c] # "create" /\ Fits(step, memory, desk[c])
  BY <1>1, <1>2, <1>4, Known
     DEF Fits, CallMatches, ClaimSteps, UnpaidSteps, PaidSteps, CancelSteps, Steps, AmendmentSteps
<1>6. Goes(c, step, memory, None) /\ Of(c)' = b
  <2>1. desk' = [desk EXCEPT ![c] = None]
    BY <1>2, <1>3, Known
  <2> QED
    BY <1>2, <1>4, <1>5, <2>1, GoesTo DEF Goto, Goes
<1>7. /\ money' \in [Bookings -> [debit : Nat, refund : Nat, fee : Nat]]
      /\ \A e \in Bookings : money'[e].debit = money[e].debit
  <2>1. CASE UNCHANGED money
    BY <1>0, <2>1 DEF BookTypes
  <2>2. CASE Charge(b, "refund", Price)
    BY <1>0, <2>2, Known DEF Charge, BookTypes
  <2>3. CASE pc[c] = "refund" /\ Charge(b, "refund", Price - call[c].fee)
    <3>1. Price - call[c].fee \in Nat
      BY <1>0, <1>2, <2>3, Known DEF CallMatches, Call
    <3> QED
      BY <1>0, <2>3, <3>1, Known DEF Charge, BookTypes
  <2>4. CASE Charge(b, "fee", call[c].fee)
    <3>1. call[c].fee \in Nat
      BY <1>0, Known DEF Call
    <3> QED
      BY <1>0, <2>4, <3>1, Known DEF Charge, BookTypes
  <2>5. UNCHANGED money \/ Charge(b, "refund", Price) \/ Charge(b, "fee", call[c].fee)
        \/ (pc[c] = "refund" /\ Charge(b, "refund", Price - call[c].fee))
    BY <1>1 DEF DebitFails, RouteToSupplier, Ticket, TicketFails, RefundTicket, CancelSeats,
       CancelAtSupplier, RefundCancelled, ChargeFee, AutoRefund, books
  <2> QED
    BY <2>1, <2>2, <2>3, <2>4, <2>5
<1>8. /\ issued' \in [Bookings -> Nat] /\ voided' \subseteq Bookings /\ refused' \subseteq Bookings
      /\ inventory' \in [total : Nat, seats : Nat]
  <2>1. issued' \in [Bookings -> Nat]
    BY <1>0, <1>1 DEF DebitFails, RouteToSupplier, Ticket, TicketFails, RefundTicket, CancelSeats,
       CancelAtSupplier, RefundCancelled, ChargeFee, Issue, supplier, BookTypes
  <2>2. voided' \subseteq Bookings
    BY <1>0, <1>1 DEF DebitFails, RouteToSupplier, Ticket, TicketFails, RefundTicket, CancelSeats,
       CancelAtSupplier, RefundCancelled, ChargeFee, supplier, BookTypes
  <2>3. refused' \subseteq Bookings
    BY <1>0, <1>1 DEF DebitFails, RouteToSupplier, Ticket, TicketFails, RefundTicket, CancelSeats,
       CancelAtSupplier, RefundCancelled, ChargeFee, books, BookTypes
  <2>4. inventory' \in [total : Nat, seats : Nat]
    BY <1>0, <1>1, BookingAssumption DEF DebitFails, RouteToSupplier, Ticket, TicketFails,
       RefundTicket, CancelSeats, CancelAtSupplier, RefundCancelled, ChargeFee, Release, BookTypes
  <2> QED
    BY <2>1, <2>2, <2>3, <2>4
<1>9. BookTypes'
  BY <1>0, <1>3, <1>7, <1>8 DEF BookTypes
<1>10. doc[b].status # "NONE" /\ b \in Bookings \cup {None}
  BY <1>1, <1>5, Known DEF CreatorKnown
<1> QED
  BY <1>1, <1>3, <1>4, <1>5, <1>6, <1>7, <1>9, <1>10, QuietStep

\* A call that begins with the document of b before it, or a fresh one.
LEMMA BeginGoes ==
    ASSUME AmendmentInv, NEW c \in Calls, NEW b \in Bookings, NEW status \in Statuses,
           NEW step \in Steps, Begin(c, b, status, step), UNCHANGED desk,
           step \in ClaimSteps => status = "TICKETING_IN_PROGRESS",
           step \notin CancelSteps \cup AmendmentSteps \cup {"idle", "edit"},
           step \notin {"issue", "request", "refund"}
    PROVE  /\ Goes(c, step, [NoCall EXCEPT !.booking = b, !.seen = status], None)
           /\ pc[c] = "idle" /\ Of(c) = None /\ Of(c)' = b
<1>1. PICK k : k = [NoCall EXCEPT !.booking = b, !.seen = status]
  OBVIOUS
<1>2. k \in Call /\ k.booking = b /\ k.seen = status
  BY <1>1 DEF NoCall, Call
<1>3. pc[c] = "idle" /\ At(c) = None /\ Of(c) = None
  BY Known DEF Begin, AmendmentSteps
<1>4. Fits(step, k, None) /\ desk' = [desk EXCEPT ![c] = None]
  BY <1>2, <1>3, Known DEF Fits, CallMatches, At, AmendmentSteps
<1>5. Goes(c, step, k, None)
  BY <1>1, <1>2, <1>4, GoesTo DEF Begin, Goto
<1> QED
  BY <1>1, <1>2, <1>3, <1>5 DEF Goes

LEMMA FlightReads ==
    ASSUME AmendmentInv, NEW c \in Calls, pc[c] \notin AmendmentSteps, UNCHANGED amendmentVars,
           ReadInventory(c) \/ \E b \in Bookings : ReadManual(c, b) \/ ReadForCancel(c, b)
    PROVE  AmendmentInv'
<1>0. BookTypes /\ UNCHANGED desk
  BY DEF AmendmentInv, Typed, amendmentVars
<1>1. CASE ReadInventory(c)
  <2>1. PICK k : k = [NoCall EXCEPT !.total = inventory.total, !.seats = inventory.seats]
    OBVIOUS
  <2>2. k \in Call /\ k.booking = None /\ ~k.paid /\ k.supplierCancel = None
    BY <1>0, <2>1 DEF BookTypes, Call, NoCall, Statuses
  <2>3. Fits("edit", k, None) /\ "edit" \in Steps
    BY <2>2, Known DEF Fits, CallMatches, Steps, AmendmentSteps, ClaimSteps, UnpaidSteps, PaidSteps,
       CancelSteps
  <2>4. desk' = [desk EXCEPT ![c] = None] /\ Of(c) = None
    BY <1>0, <1>1, Known DEF ReadInventory, At, AmendmentSteps
  <2>9. pc' = [pc EXCEPT ![c] = "edit"] /\ call' = [call EXCEPT ![c] = k]
    BY <1>1, <2>1 DEF ReadInventory, Goto
  <2>5. Goes(c, "edit", k, None) /\ Of(c)' = None
    BY <2>2, <2>3, <2>4, <2>9, GoesTo DEF Goes
  <2>6. UNCHANGED <<inventory, doc, overdue, issued, voided, money, refused, clobbered>>
    BY <1>1 DEF ReadInventory, supplier, books
  <2>7. "edit" \notin AmendmentSteps \cup ClaimSteps \cup CancelSteps /\ None \notin Bookings
    BY Known DEF AmendmentSteps, ClaimSteps, UnpaidSteps, PaidSteps, CancelSteps
  <2>8. BookTypes'
    BY <1>0, <2>6 DEF BookTypes
  <2> QED
    BY <2>4, <2>5, <2>6, <2>7, <2>8, QuietStep
<1>2. ASSUME NEW b \in Bookings, ReadManual(c, b) \/ ReadForCancel(c, b) PROVE AmendmentInv'
  <2>1. PICK k \in Call, step \in {"issue", "request"} :
           /\ Goto(c, step) /\ call' = [call EXCEPT ![c] = k]
           /\ k.booking = b /\ k.seen = doc[b].status
           /\ step = "issue" => k.seen = "PENDING_MANUAL"
           /\ step = "request" => /\ k.seen \in {"HOLD", "TICKETED", "PENDING_MANUAL"}
                                  /\ k.seen = "HOLD" => ~k.paid
    <3>1. CASE ReadManual(c, b)
      <4>1. PICK k : k = [NoCall EXCEPT !.booking = b, !.seen = "PENDING_MANUAL"]
        OBVIOUS
      <4>2. k \in Call /\ k.booking = b /\ k.seen = "PENDING_MANUAL"
        BY <4>1, Known DEF NoCall, Call, Statuses
      <4> QED
        BY <3>1, <4>1, <4>2 DEF ReadManual, Begin
    <3>2. CASE ReadForCancel(c, b)
      <4> DEFINE Read(fee) == [NoCall EXCEPT !.booking = b, !.seen = doc[b].status,
                                  !.paid = WasPaid(b), !.fee = fee,
                                  !.supplierCancel = doc[b].supplierCancel]
      <4>1. PICK fee \in {0, Fee} : call' = [call EXCEPT ![c] = Read(fee)]
        BY <3>2 DEF ReadForCancel
      <4>2. PICK k : k = Read(fee)
        OBVIOUS
      <4>3. doc[b] \in Document
        BY Known
      <4>4. k \in Call /\ k.booking = b /\ k.seen = doc[b].status /\ (k.paid <=> WasPaid(b))
        BY <4>2, <4>3, BookingAssumption DEF NoCall, Call, Document, WasPaid
      <4> QED
        BY <3>2, <4>1, <4>2, <4>4 DEF ReadForCancel, WasPaid
    <3> QED
      BY <1>2, <3>1, <3>2
  <2>2. pc[c] = "idle" /\ At(c) = None /\ Of(c) = None
    BY <1>2, Known DEF ReadManual, ReadForCancel, Begin, AmendmentSteps
  <2>3. Fits(step, k, None) /\ step \in Steps /\ step # "create"
        /\ step \notin AmendmentSteps \cup ClaimSteps \cup CancelSteps
    BY <2>1, Known DEF Fits, CallMatches, Steps, AmendmentSteps, ClaimSteps, UnpaidSteps, PaidSteps,
       CancelSteps
  <2>4. desk' = [desk EXCEPT ![c] = None]
    BY <1>0, <2>2, Known DEF At
  <2>5. Goes(c, step, k, None) /\ Of(c)' = b
    BY <2>1, <2>3, <2>4, GoesTo DEF Goto, Goes
  <2>6. UNCHANGED <<inventory, doc, overdue, issued, voided, money, refused, clobbered>>
    BY <1>2 DEF ReadManual, ReadForCancel, supplier, books
  <2>7. BookTypes' /\ doc[b].status # "NONE"
    BY <1>0, <1>2, <2>6 DEF BookTypes, ReadManual, ReadForCancel
  <2> QED
    BY <2>2, <2>3, <2>5, <2>6, <2>7, QuietStep
<1> QED
  BY <1>1, <1>2

\* A booking that nobody has, and no amendment is of.
LEMMA FlightHolds ==
    ASSUME AmendmentInv, NEW c \in Calls, pc[c] \notin AmendmentSteps, UNCHANGED amendmentVars,
           NEW b \in Bookings, HoldSeats(c, b)
    PROVE  AmendmentInv'
<1>0. BookTypes /\ UNCHANGED <<amendment, desk, torn, strayed>>
  BY DEF AmendmentInv, Typed, amendmentVars
<1>1. PICK k : k = [NoCall EXCEPT !.booking = b, !.seen = "NONE"]
  OBVIOUS
<1>2. "create" \in Steps /\ "NONE" \in Statuses
      /\ "create" \notin ClaimSteps \cup CancelSteps \cup AmendmentSteps \cup {"idle", "edit"}
  BY DEF Steps, Statuses, ClaimSteps, UnpaidSteps, PaidSteps, CancelSteps, AmendmentSteps
<1>3. Goes(c, "create", k, None) /\ Of(c) = None /\ Of(c)' = b
  BY <1>0, <1>1, <1>2, BeginGoes DEF HoldSeats
<1>4. /\ doc[b].status = "NONE" /\ \A d \in Calls : Of(d) # b
      /\ UNCHANGED <<doc, overdue, voided, money, refused, clobbered>>
  BY DEF HoldSeats, books
<1>5. issued' \in [Bookings -> Nat]
  BY <1>0 DEF HoldSeats, Issue, BookTypes
<1>6. inventory' \in [total : Nat, seats : Nat]
  <2>1. inventory.seats - SeatsOf[b] \in Nat
    BY <1>0, BookingAssumption DEF HoldSeats, SeatsLeft, BookTypes
  <2> QED
    BY <1>0, <2>1 DEF HoldSeats, BookTypes
<1>7. BookTypes'
  BY <1>0, <1>4, <1>5, <1>6 DEF BookTypes
<1>8. Apart(c) /\ pc'[c] = "create" /\ \A d \in Calls : Of(d)' = b => d = c
  BY <1>3, <1>4 DEF Goes, Apart
<1>9. CreatorKnown(b)'
  BY <1>0, <1>4, <1>8, Known DEF CreatorKnown
<1>10. ASSUME Orderly(b)' PROVE LockKnown(b)'
  <2>1. LockKnown(b)
    BY <1>0, <1>4, <1>10 DEF AmendmentInv, Orderly
  <2>2. \A n \in Amendments : amendment'[n].booking # b
    BY <1>0, <1>4, Known DEF CreatorKnown
  <2>3. SeenKnown(b)'
    BY <1>2, <1>8 DEF SeenKnown, Deciding, AmendmentSteps
  <2>4. WorkKnown(b)'
    BY <1>2, <1>4, <1>8, <2>1 DEF LockKnown, WorkKnown, Unsold, ClaimSteps
  <2>5. HeldKnown(b)'
    BY <2>2 DEF HeldKnown
  <2> QED
    BY <2>3, <2>4, <2>5 DEF LockKnown
<1> QED
  BY <1>2, <1>3, <1>4, <1>7, <1>9, <1>10, FlightStep

\* The sweep and the claim take a HOLD in one update: they find it as nobody had it.
LEMMA FlightTakesHold ==
    ASSUME AmendmentInv, NEW c \in Calls, pc[c] \notin AmendmentSteps, UNCHANGED amendmentVars,
           NEW b \in Bookings, ExpireHold(c, b) \/ Claim(c, b)
    PROVE  AmendmentInv'
<1>0. BookTypes /\ UNCHANGED desk /\ doc[b] \in Document /\ doc[b].status = "HOLD"
  BY Known DEF AmendmentInv, Typed, amendmentVars, ExpireHold, StillHeld, Claim, Claimable
<1>1. PICK status \in {"EXPIRED", "TICKETING_IN_PROGRESS"}, step \in {"release", "lapsed", "debit"} :
         /\ doc' = [doc EXCEPT ![b].status = status]
         /\ Begin(c, b, status, step)
         /\ status = "EXPIRED" <=> step = "release"
  BY DEF ExpireHold, Claim
<1>2. /\ step \in Steps /\ status \in Statuses
      /\ step \in ClaimSteps => status = "TICKETING_IN_PROGRESS"
      /\ step \notin CancelSteps \cup AmendmentSteps \cup {"idle", "edit", "issue", "request", "refund"}
      /\ step # "create"
  BY <1>1 DEF Steps, Statuses, ClaimSteps, UnpaidSteps, PaidSteps, CancelSteps, AmendmentSteps
<1>3. PICK k : k = [NoCall EXCEPT !.booking = b, !.seen = status]
  OBVIOUS
<1>4. Goes(c, step, k, None) /\ Of(c) = None /\ Of(c)' = b
  BY <1>0, <1>1, <1>2, <1>3, BeginGoes
<1>5. UNCHANGED <<inventory, overdue, issued, voided, money, refused, clobbered>>
  BY DEF ExpireHold, Claim, supplier, books
<1>6. /\ doc' \in [Bookings -> Document] /\ doc'[b].status = status
      /\ \A e \in Bookings \ {b} : doc'[e] = doc[e]
  BY <1>0, <1>1, <1>2 DEF BookTypes, Document
<1>7. BookTypes'
  BY <1>0, <1>5, <1>6 DEF BookTypes
<1>8. LockKnown(b) => money[b].debit = 0
  BY <1>0 DEF LockKnown, WorkKnown, Unsold
<1>9. Free(c, b)
  BY <1>0 DEF Free
<1> QED
  BY <1>0, <1>1, <1>2, <1>4, <1>5, <1>6, <1>7, <1>8, <1>9, WriteStep DEF Unsold

LEMMA FlightCreates ==
    ASSUME AmendmentInv, NEW c \in Calls, pc[c] \notin AmendmentSteps, UNCHANGED amendmentVars,
           CreateBooking(c)
    PROVE  AmendmentInv'
<1>0. BookTypes /\ UNCHANGED desk
  BY DEF AmendmentInv, Typed, amendmentVars
<1>1. PICK b \in Bookings : b = Of(c) /\ pc[c] = "create"
  BY Known DEF CreateBooking
<1>2. Goes(c, "idle", NoCall, None) /\ Of(c)' = None
  BY <1>0, LeaveGoes DEF CreateBooking
<1>3. UNCHANGED <<inventory, overdue, issued, voided, money, refused, clobbered>>
  BY DEF CreateBooking, supplier, books
<1>4. /\ doc' \in [Bookings -> Document] /\ doc'[b].status = "HOLD"
      /\ \A e \in Bookings \ {b} : doc'[e] = doc[e]
  BY <1>0, <1>1 DEF CreateBooking, BookTypes, Document, Statuses
<1>5. BookTypes'
  BY <1>0, <1>3, <1>4 DEF BookTypes
<1>6. doc[b].status = "NONE"
  BY <1>1, Known DEF CreatorKnown
<1>7. Free(c, b) /\ (LockKnown(b) => money[b].debit = 0)
  BY <1>6 DEF Free, LockKnown, WorkKnown, Unsold
<1>8. "idle" \notin AmendmentSteps \cup ClaimSteps \cup CancelSteps /\ UnpaidSteps \subseteq ClaimSteps
  BY DEF AmendmentSteps, ClaimSteps, UnpaidSteps, PaidSteps, CancelSteps
<1> QED
  BY <1>1, <1>2, <1>3, <1>4, <1>5, <1>6, <1>7, <1>8, WriteStep

\* The claimer debits, once.
LEMMA FlightDebits ==
    ASSUME AmendmentInv, NEW c \in Calls, pc[c] \notin AmendmentSteps, UNCHANGED amendmentVars,
           Debit(c)
    PROVE  AmendmentInv'
<1>0. BookTypes /\ UNCHANGED desk
  BY DEF AmendmentInv, Typed, amendmentVars
<1>1. PICK b \in Bookings : b = Of(c) /\ pc[c] = "debit"
  BY Known DEF Debit
<1>2. /\ Goto(c, "route") /\ UNCHANGED <<inventory, doc, overdue, issued, voided, refused, clobbered, call>>
  BY DEF Debit, supplier
<1>3. /\ "route" \in Steps /\ "route" \in ClaimSteps /\ "debit" \in ClaimSteps /\ "debit" \in UnpaidSteps
      /\ "route" \notin UnpaidSteps \cup CancelSteps \cup AmendmentSteps
  BY DEF Steps, ClaimSteps, UnpaidSteps, PaidSteps, CancelSteps, AmendmentSteps
<1>4. Fits("route", call[c], desk[c])
  BY <1>1, <1>3, Known DEF Fits, CallMatches, At, CancelSteps
<1>5. Goes(c, "route", call[c], None) /\ Of(c)' = b
  BY <1>0, <1>1, <1>2, <1>3, <1>4, OnGoes, Known
<1>6. /\ money' \in [Bookings -> [debit : Nat, refund : Nat, fee : Nat]]
      /\ money'[b].debit = money[b].debit + Price
      /\ \A e \in Bookings \ {b} : money'[e] = money[e]
  BY <1>0, <1>1, Known DEF Debit, Charge, BookTypes
<1>7. BookTypes'
  BY <1>0, <1>2, <1>6 DEF BookTypes
<1>8. doc[b].status # "NONE" /\ (doc[b].status = "TICKETED" => doc[b].numbered)
  BY <1>1, Known DEF CreatorKnown
<1>9. Free(c, b)
  BY <1>1, <1>3 DEF Free
<1>10. LockKnown(b) => money'[b].debit = Price /\ doc[b].status = "TICKETING_IN_PROGRESS"
  BY <1>1, <1>3, <1>6, Known DEF LockKnown, WorkKnown
<1> QED
  BY <1>1, <1>2, <1>3, <1>5, <1>6, <1>7, <1>8, <1>9, <1>10, WriteStep DEF Unsold

\* The saves.
\* What a call saves, and where it is after that.
LEMMA FlightWrites ==
    ASSUME AmendmentInv, NEW c \in Calls, pc[c] \notin AmendmentSteps, UNCHANGED amendmentVars,
           NEW b \in Bookings, b = Of(c),
           \/ BackToHold(c) \/ RouteToManual(c) \/ SaveTicketed(c) \/ SaveFailed(c)
           \/ IssueManually(c) \/ SaveCancelled(c) \/ Lapsed(c) \/ RequestCancel(c)
    PROVE  \E new \in Document, step \in {"idle", "release", "cancelSeats"}, k \in Call :
              /\ Save(c, new)
              /\ new.status = "TICKETED" => new.numbered
              /\ \/ /\ step = "idle"
                    /\ \/ pc[c] = "undo" /\ new.status = "HOLD"
                       \/ pc[c] = "route" /\ new.status = "PENDING_MANUAL"
                       \/ pc[c] \in {"ticketed", "issue"} /\ new.status = "TICKETED"
                       \/ pc[c] = "failed" /\ new.status = "FAILED"
                       \/ pc[c] = "cancelled" /\ new.status = "CANCELLED"
                 \/ pc[c] = "lapsed" /\ new.status = "EXPIRED" /\ step = "release"
                 \/ pc[c] = "request" /\ new.status = "CANCEL_REQUESTED" /\ step = "cancelSeats"
              /\ Goes(c, step, k, None)
              /\ Of(c)' = IF step = "idle" THEN None ELSE b
<1>0. /\ BookTypes /\ UNCHANGED desk /\ desk[c] = None /\ doc[b] \in Document /\ call[c] \in Call
      /\ CallMatches(pc[c], call[c])
  BY Known DEF AmendmentInv, Typed, amendmentVars, At
<1>1. PICK new \in Document :
         /\ Save(c, new)
         /\ new.status = "TICKETED" => new.numbered
         /\ \/ /\ Leave(c)
               /\ \/ pc[c] = "undo" /\ new.status = "HOLD"
                  \/ pc[c] = "route" /\ new.status = "PENDING_MANUAL"
                  \/ pc[c] \in {"ticketed", "issue"} /\ new.status = "TICKETED"
                  \/ pc[c] = "failed" /\ new.status = "FAILED"
                  \/ pc[c] = "cancelled" /\ new.status = "CANCELLED"
            \/ pc[c] = "lapsed" /\ new.status = "EXPIRED" /\ SaveAndGo(c, new, "release")
            \/ pc[c] = "request" /\ new.status = "CANCEL_REQUESTED" /\ SaveAndGo(c, new, "cancelSeats")
  <2>1. CASE BackToHold(c)
    <3>1. [doc[b] EXCEPT !.status = "HOLD"] \in Document
      BY <1>0 DEF Document, Statuses
    <3> QED
      BY <1>0, <2>1, <3>1 DEF BackToHold, Undo, Document
  <2>2. CASE RouteToManual(c)
    <3>1. [doc[b] EXCEPT !.status = "PENDING_MANUAL", !.payment = "PAID"] \in Document
      BY <1>0 DEF Document, Statuses
    <3> QED
      BY <1>0, <2>2, <3>1 DEF RouteToManual, Document
  <2>3. CASE SaveTicketed(c)
    <3>1. PICK new : new = [doc[b] EXCEPT !.status = "TICKETED", !.payment = "PAID", !.numbered = TRUE]
      OBVIOUS
    <3>2. new \in Document /\ new.status = "TICKETED" /\ new.numbered
      BY <1>0, <3>1 DEF Document, Statuses
    <3> QED
      BY <2>3, <3>1, <3>2 DEF SaveTicketed
  <2>4. CASE SaveFailed(c)
    <3>1. [doc[b] EXCEPT !.status = "FAILED", !.payment = "FAILED"] \in Document
      BY <1>0 DEF Document, Statuses
    <3> QED
      BY <1>0, <2>4, <3>1 DEF SaveFailed, Document
  <2>5. CASE IssueManually(c)
    <3>1. PICK new : new = [doc[b] EXCEPT !.status = "TICKETED", !.numbered = TRUE]
      OBVIOUS
    <3>2. new \in Document /\ new.status = "TICKETED" /\ new.numbered
      BY <1>0, <3>1 DEF Document, Statuses
    <3> QED
      BY <2>5, <3>1, <3>2 DEF IssueManually
  <2>6. CASE SaveCancelled(c)
    <3>1. PICK payment \in {doc[b].payment, "REFUNDED"} :
             Save(c, [doc[b] EXCEPT !.status = "CANCELLED", !.payment = payment,
                                    !.supplierCancel = call[c].supplierCancel])
      BY <1>0, <2>6 DEF SaveCancelled
    <3>2. [doc[b] EXCEPT !.status = "CANCELLED", !.payment = payment,
                         !.supplierCancel = call[c].supplierCancel] \in Document
      BY <1>0 DEF Document, Statuses, Call
    <3> QED
      BY <1>0, <2>6, <3>1, <3>2 DEF SaveCancelled, Document
  <2>7. CASE Lapsed(c)
    <3>1. [doc[b] EXCEPT !.status = "EXPIRED"] \in Document
      BY <1>0 DEF Document, Statuses
    <3> QED
      BY <1>0, <2>7, <3>1 DEF Lapsed, Document, SaveAndGo
  <2>8. CASE RequestCancel(c)
    <3>1. [doc[b] EXCEPT !.status = "CANCEL_REQUESTED"] \in Document
      BY <1>0 DEF Document, Statuses
    <3> QED
      BY <1>0, <2>8, <3>1 DEF RequestCancel, Document, SaveAndGo
  <2> QED
    BY <2>1, <2>2, <2>3, <2>4, <2>5, <2>6, <2>7, <2>8
<1>2. CASE Leave(c)
  <2>1. Goes(c, "idle", NoCall, None) /\ Of(c)' = None /\ NoCall \in Call
    BY <1>0, <1>2, LeaveGoes, Known
  <2>2. pc[c] \notin {"lapsed", "request"}
    BY <1>1, <1>2, Known DEF SaveAndGo, Leave, Goto
  <2> QED
    BY <1>1, <2>1, <2>2
<1>3. CASE ~Leave(c)
  <2>1. PICK step \in {"release", "cancelSeats"} :
           /\ \/ pc[c] = "lapsed" /\ step = "release" /\ new.status = "EXPIRED"
              \/ pc[c] = "request" /\ step = "cancelSeats" /\ new.status = "CANCEL_REQUESTED"
           /\ SaveAndGo(c, new, step)
    BY <1>1, <1>3
  <2>2. PICK k : k = [call[c] EXCEPT !.seen = new.status]
    OBVIOUS
  <2>3. k \in Call /\ k.booking = b /\ k.seen = new.status
    BY <1>0, <2>2 DEF Call, Document, Of
  <2>4. Fits(step, k, None) /\ step \in Steps
    BY <2>1, <2>3, Known DEF Fits, CallMatches, Steps, AmendmentSteps, ClaimSteps, UnpaidSteps,
       PaidSteps, CancelSteps
  <2>5. pc' = [pc EXCEPT ![c] = step] /\ call' = [call EXCEPT ![c] = k]
    BY <1>0, <2>1, <2>2, Known DEF SaveAndGo, Goto
  <2>6. desk' = [desk EXCEPT ![c] = None]
    BY <1>0, Known
  <2>7. Goes(c, step, k, None) /\ Of(c)' = b
    BY <2>3, <2>4, <2>5, <2>6, GoesTo DEF Goes
  <2> QED
    BY <1>1, <2>1, <2>3, <2>7
<1> QED
  BY <1>2, <1>3

LEMMA FlightSaves ==
    ASSUME AmendmentInv, NEW c \in Calls, pc[c] \notin AmendmentSteps, UNCHANGED amendmentVars,
           \/ BackToHold(c) \/ RouteToManual(c) \/ SaveTicketed(c) \/ SaveFailed(c)
           \/ IssueManually(c) \/ SaveCancelled(c) \/ Lapsed(c) \/ RequestCancel(c)
    PROVE  AmendmentInv'
<1>1. PICK b \in Bookings : b = Of(c)
  BY Known DEF BackToHold, Undo, RouteToManual, SaveTicketed, SaveFailed, IssueManually,
     SaveCancelled, Lapsed, RequestCancel
<1>0. /\ BookTypes /\ UNCHANGED desk /\ desk[c] = None /\ doc[b] \in Document /\ call[c] \in Call
      /\ CallMatches(pc[c], call[c])
  BY Known DEF AmendmentInv, Typed, amendmentVars, At
<1>2. PICK new \in Document, step \in {"idle", "release", "cancelSeats"}, k \in Call :
         /\ Save(c, new)
         /\ new.status = "TICKETED" => new.numbered
         /\ \/ /\ step = "idle"
               /\ \/ pc[c] = "undo" /\ new.status = "HOLD"
                  \/ pc[c] = "route" /\ new.status = "PENDING_MANUAL"
                  \/ pc[c] \in {"ticketed", "issue"} /\ new.status = "TICKETED"
                  \/ pc[c] = "failed" /\ new.status = "FAILED"
                  \/ pc[c] = "cancelled" /\ new.status = "CANCELLED"
            \/ pc[c] = "lapsed" /\ new.status = "EXPIRED" /\ step = "release"
            \/ pc[c] = "request" /\ new.status = "CANCEL_REQUESTED" /\ step = "cancelSeats"
         /\ Goes(c, step, k, None)
         /\ Of(c)' = IF step = "idle" THEN None ELSE b
  BY <1>1, FlightWrites
<1>3. /\ Of(c)' \in {b, None}
      /\ step = "release" => pc[c] = "lapsed"
      /\ step = "cancelSeats" <=> pc[c] = "request"
  BY <1>2
<1>4. UNCHANGED <<inventory, overdue, issued, voided, money, refused>>
  BY DEF BackToHold, RouteToManual, SaveTicketed, SaveFailed, IssueManually, SaveCancelled, Lapsed,
     RequestCancel, supplier, books
<1>5. /\ doc' \in [Bookings -> Document] /\ clobbered \subseteq clobbered'
      /\ clobbered' \subseteq Bookings \cup {Inventory} /\ doc'[b] = new
      /\ b \notin clobbered' => doc[b].status = call[c].seen
      /\ \A e \in Bookings \ {b} : doc'[e] = doc[e]
  BY <1>1, <1>2, SaveDoes
<1>6. BookTypes'
  BY <1>0, <1>4, <1>5 DEF BookTypes
<1>7. doc[b].status # "NONE"
  BY <1>1, <1>2, Known DEF CreatorKnown
<1>8. new.status # "NONE" /\ (new.status = "HOLD" => pc[c] = "undo")
  BY <1>2
<1>9. ASSUME LockKnown(b), b \notin clobbered'
      PROVE  Free(c, b) /\ money[b].debit \in {0, Price} /\ (pc[c] = "undo" => money[b].debit = 0)
  <2>1. pc[c] \in ClaimSteps \cup CancelSteps \/ call[c].seen \in {"HOLD", "TICKETED", "PENDING_MANUAL"}
    BY <1>0, <1>2 DEF CallMatches, ClaimSteps, UnpaidSteps, PaidSteps, CancelSteps
  <2>2. Free(c, b)
    BY <1>1, <1>5, <1>9, <2>1 DEF Free
  <2> QED
    BY <1>1, <1>9, <2>2 DEF LockKnown, WorkKnown, UnpaidSteps
<1>10. /\ step \notin ClaimSteps \cup UnpaidSteps \cup AmendmentSteps /\ step # "create"
       /\ step \in CancelSteps => step = "cancelSeats" /\ pc[c] = "request"
  BY <1>2, <1>3 DEF ClaimSteps, UnpaidSteps, PaidSteps, CancelSteps, AmendmentSteps
<1>11. step \in CancelSteps => new.status = "CANCEL_REQUESTED"
  BY <1>2, <1>10
<1> QED
  BY <1>1, <1>2, <1>3, <1>4, <1>5, <1>6, <1>7, <1>8, <1>9, <1>10, <1>11, WriteStep DEF Unsold

\* Time passes.
LEMMA FlightLapses ==
    ASSUME AmendmentInv, NEW b \in Bookings, HoldLapses(b), UNCHANGED amendmentVars
    PROVE  AmendmentInv'
<1>1. UNCHANGED <<inventory, doc, issued, voided, money, refused, clobbered, pc, call,
                  amendment, desk, torn, strayed>>
      /\ overdue' = overdue \cup {b}
  BY DEF HoldLapses, supplier, books, amendmentVars
<1>2. Typed' /\ CallsFit'
  BY <1>1 DEF AmendmentInv, Typed, CallsFit, BookTypes, AmendmentTypeOK
<1>3. /\ \A c \in Calls : DeskKnown(c)'
      /\ \A m \in Amendments : Drafted(m)' /\ (m \notin torn' => RefundTold(m)')
  BY <1>1 DEF AmendmentInv, DeskKnown, Drafted, RefundTold, At, Of, Freeing
<1>4. ASSUME NEW e \in Bookings PROVE CreatorKnown(e)' /\ (Orderly(e)' => LockKnown(e)')
  <2>1. CreatorKnown(e)' /\ (Orderly(e)' <=> Orderly(e))
    BY <1>1, Known DEF CreatorKnown, Orderly, Of
  <2>2. LockKnown(e) => LockKnown(e)'
    BY <1>1 DEF LockKnown, SeenKnown, WorkKnown, HeldKnown, Holding, Freeing, At, Of
  <2> QED
    BY <2>1, <2>2 DEF AmendmentInv
<1> QED
  BY <1>2, <1>3, <1>4 DEF AmendmentInv

-----------------------------------------------------------------------------
(* The operations of FlightAmendment *)

LEMMA DeskFits ==
    ASSUME NEW step \in AmendmentSteps, NEW k, NEW m \in Amendments, k.booking \in Bookings,
           step = "rollback" => k.seen = "CANCEL_REQUESTED"
    PROVE  /\ Fits(step, k, m) /\ step \in Steps \cup AmendmentSteps
           /\ step \notin ClaimSteps \cup CancelSteps \cup {"create", "idle", "edit"}
<1>1. step \notin ClaimSteps \cup CancelSteps \cup {"create", "idle", "edit", "issue", "request", "refund"}
  BY DEF AmendmentSteps, ClaimSteps, UnpaidSteps, PaidSteps, CancelSteps
<1> QED
  BY <1>1 DEF Fits, CallMatches

\* Where a call at a desk is.
LEMMA AtDesk ==
    ASSUME AmendmentInv, NEW c \in Calls, pc[c] \in AmendmentSteps
    PROVE  /\ At(c) \in Amendments /\ Of(c) \in Bookings /\ desk[c] = At(c)
           /\ pc[c] = "amend" =>
                /\ amendment[At(c)].status = "NONE" /\ amendment[At(c)].booking = None
                /\ At(c) \notin torn
                /\ \A d \in Calls : At(d) = At(c) => d = c
           /\ pc[c] # "amend" => amendment[At(c)].status # "NONE" /\ amendment[At(c)].booking = Of(c)
           /\ doc[Of(c)].status # "NONE"
           /\ pc[c] \notin ClaimSteps \cup CancelSteps \cup {"create", "idle", "edit"}
<1>1. pc[c] \notin ClaimSteps \cup CancelSteps \cup {"create", "idle", "edit"}
  BY DEF AmendmentSteps, ClaimSteps, UnpaidSteps, PaidSteps, CancelSteps
<1>2. At(c) \in Amendments /\ Of(c) \in Bookings
  BY <1>1, Known
<1> QED
  BY <1>1, <1>2, Known DEF DeskKnown, Drafted, CreatorKnown, At

\* The amendment m of b stays what it is, or is just being created by c.
Written(c, b, m) ==
    \/ /\ amendment[m].booking = b /\ amendment'[m].booking = b
       /\ amendment'[m].type = amendment[m].type
       /\ amendment[m].status # "NONE" /\ amendment'[m].status # "NONE"
    \/ amendment'[m] = amendment[m] /\ amendment[m].booking = None
    \/ /\ pc[c] = "amend" /\ At(c) = m /\ amendment[m].status = "NONE"
       /\ amendment[m].booking = None /\ amendment'[m].booking = b /\ amendment'[m].status # "NONE"

\* Only c, and m on its desk, change; b and m are what it is about.
Desk(c, b, m) ==
    /\ Of(c) \in {b, None} /\ Of(c)' \in {b, None}
    /\ At(c) \in {m, None} /\ At(c)' \in {m, None}
    /\ pc'[c] \notin ClaimSteps \cup CancelSteps \cup {"create"}
    /\ doc[b].status # "NONE"
    /\ amendment' \in [Amendments -> [booking : Bookings \cup {None}, type : AmendmentTypes,
                                      status : AmendmentStatuses, refunds : Nat]]
    /\ \A n \in Amendments \ {m} : amendment'[n] = amendment[n]
    /\ torn' \in {torn, torn \cup {m}} /\ strayed' \in {strayed, strayed \cup {b}}
    /\ clobbered \subseteq clobbered'
    /\ Written(c, b, m)
    /\ \A e \in Bookings \ {b} : doc'[e] = doc[e] /\ money'[e].debit = money[e].debit
    /\ money'[b].debit = money[b].debit

LEMMA DeskStep ==
    ASSUME AmendmentInv, NEW c \in Calls, NEW b \in Bookings, NEW m \in Amendments,
           NEW step, NEW k, NEW a, Goes(c, step, k, a), Desk(c, b, m), BookTypes',
           \A d \in Calls \ {c} : pc[d] = "amend" => At(c)' # At(d),
           doc'[b].status # "NONE", doc'[b].status = "TICKETED" => doc'[b].numbered,
           DeskKnown(c)', m \in torn' => amendment'[m].status # "NONE",
           m \notin torn' => RefundTold(m)',
           Orderly(b) /\ LockKnown(b) /\ Orderly(b)' => LockKnown(b)'
    PROVE  AmendmentInv'
<1>1. AmendmentTypeOK'
  BY DEF Desk, Goes, BookTypes, AmendmentInv, Typed, AmendmentTypeOK
<1>2. Onward
  BY DEF Onward, Desk, Written
<1>3. CreatorKnown(b)'
  <2>1. \A d \in Calls \ {c} : Of(d)' = b => pc'[d] # "create"
    BY Known DEF Goes, Apart, Desk, CreatorKnown
  <2> QED
    BY <2>1 DEF CreatorKnown, Desk
<1>4. Drafted(m)' /\ None # b
  BY Known DEF Desk, Written, Drafted
<1>5. ASSUME NEW d \in Calls \ {c}, At(d) = m
      PROVE  Settled(m) /\ (amendment'[m].status = "NONE" <=> amendment[m].status = "NONE")
  <2>1. ~(pc[c] = "amend" /\ At(c) = m)
    BY <1>5, AtDesk DEF AmendmentSteps
  <2> QED
    BY <2>1 DEF Desk, Written, Settled, Freeing
<1>6. Orderly(b)' => LockKnown(b)'
  BY <1>2, OrderlyBefore DEF AmendmentInv
<1>7. \A n \in Amendments \ {m} : amendment'[n] = amendment[n] /\ (n \in torn <=> n \in torn')
  BY DEF Desk
<1>8. /\ amendment[m].booking \in {b, None} /\ amendment'[m].booking \in {b, None}
      /\ Of(c) \in {b, None} /\ Of(c)' \in {b, None}
      /\ At(c) \in {m, None} /\ At(c)' \in {m, None}
      /\ \A e \in Bookings \ {b} : doc'[e] = doc[e] /\ money'[e].debit = money[e].debit
  BY DEF Desk, Written
<1> QED
  BY <1>1, <1>2, <1>3, <1>4, <1>5, <1>6, <1>7, <1>8, OneStep

\* The amendments of b that c does not work on, and the calls that have read them.
LEMMA DeskOthers ==
    ASSUME AmendmentInv, NEW c \in Calls, NEW b \in Bookings, NEW m \in Amendments, Apart(c),
           Desk(c, b, m), SeenKnown(b)
    PROVE  /\ \A n \in Amendments \ {m} :
                 /\ amendment'[n].booking = amendment[n].booking
                 /\ Holding(n)' <=> Holding(n)
           /\ \A d \in Calls \ {c} : Of(d)' = b =>
                 /\ pc'[d] = "lock" => call'[d].seen \in {"HOLD", "TICKETED"}
                 /\ pc'[d] \in Deciding => (call'[d].seen = "CANCEL_REQUESTED" <=> Freeing(At(d))')
                 /\ pc'[d] = "rollback" => Freeing(At(d))'
<1>1. ASSUME NEW n \in Amendments \ {m}
      PROVE  amendment'[n].booking = amendment[n].booking /\ (Holding(n)' <=> Holding(n))
  <2>1. amendment'[n] = amendment[n] /\ At(c) # n /\ At(c)' # n
    BY Known DEF Desk
  <2>2. \A d \in Calls : (At(d)' = n <=> At(d) = n) /\ (At(d) = n => pc'[d] = pc[d])
    BY <2>1 DEF Apart
  <2> QED
    BY <2>1, <2>2 DEF Holding, Freeing
<1>2. ASSUME NEW d \in Calls \ {c}, Of(d)' = b
      PROVE  /\ pc'[d] = "lock" => call'[d].seen \in {"HOLD", "TICKETED"}
             /\ pc'[d] \in Deciding => (call'[d].seen = "CANCEL_REQUESTED" <=> Freeing(At(d))')
             /\ pc'[d] = "rollback" => Freeing(At(d))'
  <2>1. pc'[d] = pc[d] /\ Of(d) = b /\ call'[d] = call[d] /\ At(d)' = At(d)
    BY <1>2 DEF Apart
  <2>2. pc[d] \in Deciding \cup {"rollback"} => (Freeing(At(d))' <=> Freeing(At(d)))
    <3> SUFFICES ASSUME pc[d] \in Deciding \cup {"rollback"}
                 PROVE  Freeing(At(d))' <=> Freeing(At(d))
      OBVIOUS
    <3>1. At(d) \in Amendments
      BY AtDesk DEF Deciding, AmendmentSteps
    <3>2. CASE At(d) # m
      BY <2>1, <3>1, <3>2 DEF Desk, Freeing
    <3>3. CASE At(d) = m
      <4>1. ~(pc[c] = "amend" /\ At(c) = m)
        BY <3>3, AtDesk DEF AmendmentSteps
      <4> QED
        BY <2>1, <3>1, <3>3, <4>1 DEF Desk, Written, Freeing
    <3> QED
      BY <3>2, <3>3
  <2> QED
    BY <2>1, <2>2 DEF SeenKnown
<1> QED
  BY <1>1, <1>2

\* What c has read goes with its step.
OwnSeen(c) ==
    /\ pc[c] = "lock" => call[c].seen \in {"HOLD", "TICKETED"}
    /\ pc[c] \in Deciding => (call[c].seen = "CANCEL_REQUESTED" <=> Freeing(At(c)))
    /\ pc[c] = "rollback" => Freeing(At(c))

\* A step that leaves the document alone: m holds its booking no more than before.
LEMMA DeskQuiet ==
    ASSUME AmendmentInv, NEW c \in Calls, NEW b \in Bookings, NEW m \in Amendments, Apart(c),
           Desk(c, b, m), doc'[b] = doc[b], LockKnown(b), Of(c)' = b => OwnSeen(c)',
           amendment'[m].booking = b /\ Holding(m)' => amendment[m].booking = b /\ Holding(m)
    PROVE  LockKnown(b)'
<1>1. /\ \A n \in Amendments \ {m} :
            amendment'[n].booking = amendment[n].booking /\ (Holding(n)' <=> Holding(n))
      /\ SeenKnown(b)'
  BY DeskOthers DEF LockKnown, SeenKnown, OwnSeen
<1>2. \A d \in Calls : Of(d)' = b /\ pc'[d] \in ClaimSteps \cup CancelSteps =>
         Of(d) = b /\ pc[d] = pc'[d]
  BY DEF Desk, Apart
<1>3. UnpaidSteps \subseteq ClaimSteps /\ money'[b].debit = money[b].debit
  BY DEF ClaimSteps, Desk
<1>4. WorkKnown(b)'
  BY <1>2, <1>3 DEF LockKnown, WorkKnown
<1>5. HeldKnown(b)'
  BY <1>1, <1>2, <1>3 DEF LockKnown, HeldKnown
<1> QED
  BY <1>1, <1>4, <1>5 DEF LockKnown

\* A step that saves the document, when nobody else is at work on the booking.
LEMMA DeskSaves ==
    ASSUME AmendmentInv, NEW c \in Calls, NEW b \in Bookings, NEW m \in Amendments, Apart(c),
           Desk(c, b, m), LockKnown(b), Of(c)' = b => OwnSeen(c)',
           \A d \in Calls \ {c} : Of(d) = b => pc[d] \notin ClaimSteps \cup CancelSteps,
           \A n \in Amendments \ {m} : amendment[n].booking = b => ~Holding(n),
           doc'[b].status \in Unsold => money[b].debit = 0,
           Holding(m)' => /\ doc'[b].status = "CANCEL_REQUESTED"
                          /\ ~doc'[b].numbered => money[b].debit = 0
    PROVE  LockKnown(b)'
<1>1. /\ \A n \in Amendments \ {m} :
            amendment'[n].booking = amendment[n].booking /\ (Holding(n)' <=> Holding(n))
      /\ SeenKnown(b)'
  BY DeskOthers DEF LockKnown, SeenKnown, OwnSeen
<1>2. \A d \in Calls : Of(d)' = b => pc'[d] \notin ClaimSteps \cup CancelSteps
  BY DEF Desk, Apart
<1>3. UnpaidSteps \subseteq ClaimSteps /\ money'[b].debit = money[b].debit
  BY DEF ClaimSteps, Desk
<1>4. WorkKnown(b)'
  BY <1>2, <1>3 DEF LockKnown, WorkKnown
<1>5. HeldKnown(b)'
  BY <1>1, <1>2, <1>3 DEF HeldKnown
<1> QED
  BY <1>1, <1>4, <1>5 DEF LockKnown

\* Amendments of b in the hands of c.
LEMMA OrderlyAmendment ==
    ASSUME AmendmentInv, NEW c \in Calls, pc[c] \in AmendmentSteps, pc[c] # "amend", Orderly(Of(c))
    PROVE  At(c) \notin torn /\ RefundTold(At(c)) /\ \A d \in Calls : At(d) = At(c) => d = c
<1>1. At(c) \in Amendments /\ At(c) \notin torn
  BY AtDesk DEF Orderly
<1>2. RefundTold(At(c))
  BY <1>1 DEF AmendmentInv
<1> QED
  BY <1>1, <1>2 DEF RefundTold

LEMMA ReadToAmendStep ==
    ASSUME AmendmentInv, NEW c \in Calls, NEW m \in Amendments, NEW b \in Bookings,
           ReadToAmend(c, m, b)
    PROVE  AmendmentInv'
<1>0. BookTypes /\ doc[b] \in Document /\ m # None /\ b # None
  BY Known DEF AmendmentInv, Typed
<1>1. PICK k : k = [NoCall EXCEPT !.booking = b, !.seen = doc[b].status]
  OBVIOUS
<1>2. k \in Call /\ k.booking = b
  BY <1>0, <1>1 DEF NoCall, Call, Document
<1>3. Fits("amend", k, m) /\ "amend" \in Steps \cup AmendmentSteps
      /\ "amend" \notin ClaimSteps \cup CancelSteps \cup {"create"}
  <2>1. "amend" \in AmendmentSteps /\ "amend" # "rollback"
    BY DEF AmendmentSteps
  <2> QED
    BY <1>2, <2>1, DeskFits
<1>4. Goes(c, "amend", k, m)
  <2>1. pc' = [pc EXCEPT ![c] = "amend"] /\ call' = [call EXCEPT ![c] = k]
        /\ desk' = [desk EXCEPT ![c] = m]
    BY <1>1 DEF ReadToAmend, Begin, Goto
  <2> QED
    BY <1>2, <1>3, <2>1, GoesTo
<1>5. /\ pc[c] = "idle" /\ Of(c) = None /\ At(c) = None
      /\ Of(c)' = b /\ At(c)' = m /\ pc'[c] = "amend" /\ Apart(c)
  BY <1>2, <1>4, Known DEF ReadToAmend, Begin, Goes, AmendmentSteps
<1>6. /\ UNCHANGED <<inventory, doc, overdue, issued, voided, money, refused, clobbered,
                    amendment, torn, strayed>>
      /\ amendment[m].status = "NONE" /\ doc[b].status # "NONE" /\ \A d \in Calls : At(d) # m
  BY DEF ReadToAmend, supplier, books
<1>7. amendment[m].booking = None /\ m \notin torn
  BY <1>6, Known DEF Drafted
<1>8. Desk(c, b, m)
  BY <1>3, <1>5, <1>6, <1>7 DEF Desk, Written, AmendmentInv, Typed, AmendmentTypeOK
<1>9. BookTypes'
  BY <1>0, <1>6 DEF BookTypes
<1>10. \A d \in Calls : At(d)' = m => d = c
  BY <1>5, <1>6 DEF Apart
<1>11. DeskKnown(c)'
  BY <1>5, <1>6, <1>10 DEF DeskKnown
<1>12. RefundTold(m)'
  <2>1. RefundTold(m)
    BY <1>7 DEF AmendmentInv
  <2>2. amendment[m].refunds = 0
    BY <1>6, <2>1 DEF RefundTold
  <2> QED
    BY <1>5, <1>6, <1>10, <2>2 DEF RefundTold, Deciding
<1>13. LockKnown(b) => LockKnown(b)'
  <2>1. OwnSeen(c)'
    BY <1>5 DEF OwnSeen, Deciding
  <2> QED
    BY <1>0, <1>5, <1>6, <1>7, <1>8, <2>1, DeskQuiet
<1> QED
  BY <1>4, <1>5, <1>6, <1>7, <1>8, <1>9, <1>11, <1>12, <1>13, DeskStep, Known DEF CreatorKnown

LEMMA CreateAmendmentStep ==
    ASSUME AmendmentInv, NEW c \in Calls, CreateAmendment(c)
    PROVE  AmendmentInv'
<1>0. BookTypes /\ pc[c] = "amend" /\ pc[c] \in AmendmentSteps
  BY DEF AmendmentInv, Typed, CreateAmendment, AmendmentSteps
<1>1. PICK m \in Amendments, b \in Bookings : m = At(c) /\ b = Of(c)
  BY <1>0, AtDesk
<1>2. /\ amendment[m].status = "NONE" /\ amendment[m].booking = None /\ m \notin torn
      /\ \A d \in Calls : At(d) = m => d = c
      /\ doc[b].status # "NONE" /\ b # None
  BY <1>0, <1>1, AtDesk, Known
<1>3. PICK type \in AmendmentTypes :
         amendment' = [amendment EXCEPT ![m] = [booking |-> b, type |-> type,
                                                status |-> "PENDING_APPROVAL", refunds |-> 0]]
  BY <1>1 DEF CreateAmendment
<1>4. /\ amendment' \in [Amendments -> [booking : Bookings \cup {None}, type : AmendmentTypes,
                                        status : AmendmentStatuses, refunds : Nat]]
      /\ amendment'[m].booking = b /\ amendment'[m].status = "PENDING_APPROVAL"
      /\ amendment'[m].refunds = 0
      /\ \A n \in Amendments \ {m} : amendment'[n] = amendment[n]
  BY <1>3 DEF AmendmentInv, Typed, AmendmentTypeOK, AmendmentStatuses
<1>5. Fits("lock", call[c], desk[c]) /\ "lock" \in Steps \cup AmendmentSteps
      /\ "lock" \notin ClaimSteps \cup CancelSteps \cup {"create"}
  <2>1. "lock" \in AmendmentSteps /\ "lock" # "rollback" /\ call[c].booking = b /\ desk[c] = m
    BY <1>1 DEF AmendmentSteps, Of, At
  <2> QED
    BY <2>1, DeskFits
<1>6. Goes(c, "lock", call[c], m) /\ Of(c)' = b /\ At(c)' = m /\ pc'[c] = "lock" /\ Apart(c)
      /\ call'[c] = call[c]
  BY <1>1, <1>5, OnGoes DEF CreateAmendment, Goes
<1>7. /\ UNCHANGED <<inventory, doc, overdue, issued, voided, money, refused, clobbered, torn>>
      /\ strayed' = IF call[c].seen \in {"HOLD", "TICKETED"} THEN strayed ELSE strayed \cup {b}
  BY <1>1 DEF CreateAmendment, supplier, books
<1>8. Desk(c, b, m)
  BY <1>0, <1>1, <1>2, <1>4, <1>5, <1>6, <1>7 DEF Desk, Written
<1>9. BookTypes'
  BY <1>0, <1>7 DEF BookTypes
<1>10. \A d \in Calls : At(d)' = m => d = c
  BY <1>2, <1>6 DEF Apart
<1>11. DeskKnown(c)'
  BY <1>4, <1>6, <1>10 DEF DeskKnown
<1>12. RefundTold(m)'
  BY <1>4, <1>6, <1>10 DEF RefundTold, Deciding
<1>13. LockKnown(b) /\ Orderly(b)' => LockKnown(b)'
  <2> SUFFICES ASSUME LockKnown(b), Orderly(b)' PROVE LockKnown(b)'
    OBVIOUS
  <2>1. OwnSeen(c)'
    BY <1>6, <1>7 DEF OwnSeen, Orderly, Deciding
  <2>2. ~Holding(m)'
    BY <1>6, <1>10 DEF Holding
  <2> QED
    BY <1>6, <1>7, <1>8, <2>1, <2>2, DeskQuiet
<1>14. \A d \in Calls \ {c} : pc[d] = "amend" => At(c)' # At(d)
  BY <1>2, <1>6
<1> QED
  BY <1>2, <1>4, <1>6, <1>7, <1>8, <1>9, <1>11, <1>12, <1>13, <1>14, DeskStep, Known DEF CreatorKnown

\* What the step of the only call at work on an amendment says of the amendment.
Stands(step, status, refunds) ==
    /\ step \in {"lock", "settle"} \cup Deciding => status = "PENDING_APPROVAL"
    /\ step = "rollback" => status = "REJECTED"
    /\ step \in {"amend", "lock", "approve", "reject", "rollback"} => refunds = 0
    /\ step = "amendFee" => refunds = 1
    /\ step \in {"amendSeats", "amendBooking", "settle"} =>
          refunds \in IF Fee < Price THEN {1} ELSE {0, 1}
    /\ step = "idle" =>
          refunds \in IF status # "COMPLETED" THEN {0} ELSE IF Fee < Price THEN {1} ELSE {0, 1}

\* The amendment of a decision keeps its booking and its type.
Keeps(m) ==
    /\ amendment' \in [Amendments -> [booking : Bookings \cup {None}, type : AmendmentTypes,
                                      status : AmendmentStatuses, refunds : Nat]]
    /\ \A n \in Amendments \ {m} : amendment'[n] = amendment[n]
    /\ amendment'[m].booking = amendment[m].booking
    /\ amendment'[m].type = amendment[m].type
    /\ amendment'[m].status # "NONE"

\* A step of c at its desk, after the amendment has been created: it goes on there or
\* leaves.
Decides(c, b, m, step) ==
    /\ b \in Bookings /\ b = Of(c) /\ m \in Amendments /\ m = At(c)
    /\ pc[c] \in AmendmentSteps /\ pc[c] # "amend"
    /\ \/ step \in AmendmentSteps /\ step # "amend" /\ Of(c)' = b /\ At(c)' = m
       \/ step = "idle" /\ Of(c)' = None /\ At(c)' = None
    /\ step \in {"amendSeats", "amendBooking"} => Freeing(m)
    /\ Keeps(m) /\ BookTypes' /\ clobbered \subseteq clobbered' /\ strayed' = strayed
    /\ \/ /\ torn' = torn
          /\ Stands(pc[c], amendment[m].status, amendment[m].refunds) =>
                Stands(step, amendment'[m].status, amendment'[m].refunds)
       \/ torn' = torn \cup {m}
    /\ \A e \in Bookings \ {b} : doc'[e] = doc[e]
    /\ \A e \in Bookings : money'[e].debit = money[e].debit

LEMMA DecidesDesk ==
    ASSUME AmendmentInv, NEW c \in Calls, NEW b, NEW m, NEW step, NEW k, NEW a,
           Goes(c, step, k, a), Decides(c, b, m, step)
    PROVE  /\ b \in Bookings /\ m \in Amendments /\ Desk(c, b, m) /\ Apart(c) /\ pc'[c] = step
           /\ Freeing(m)' <=> Freeing(m)
<1>1. /\ b \in Bookings /\ m \in Amendments /\ doc[b].status # "NONE"
      /\ amendment[m].booking = b /\ amendment[m].status # "NONE"
  BY AtDesk DEF Decides
<1>2. step \notin ClaimSteps \cup CancelSteps \cup {"create"}
  BY DEF Decides, AmendmentSteps, ClaimSteps, UnpaidSteps, PaidSteps, CancelSteps
<1>3. /\ Of(c) \in {b, None} /\ Of(c)' \in {b, None} /\ At(c) \in {m, None} /\ At(c)' \in {m, None}
      /\ torn' \in {torn, torn \cup {m}} /\ strayed' \in {strayed, strayed \cup {b}}
  BY DEF Decides
<1>4. Written(c, b, m) /\ (Freeing(m)' <=> Freeing(m))
  BY <1>1 DEF Decides, Keeps, Written, Freeing
<1> QED
  BY <1>1, <1>2, <1>3, <1>4 DEF Desk, Decides, Keeps, Goes

LEMMA DecidesStep ==
    ASSUME AmendmentInv, NEW c \in Calls, NEW b, NEW m, NEW step, NEW k, NEW a,
           Goes(c, step, k, a), Decides(c, b, m, step),
           doc'[b].status # "NONE", doc'[b].status = "TICKETED" => doc'[b].numbered,
           ASSUME Orderly(b), Orderly(b)', LockKnown(b)
           PROVE  LockKnown(b)'
    PROVE  AmendmentInv'
<1>1. /\ b \in Bookings /\ m \in Amendments /\ Desk(c, b, m) /\ Apart(c) /\ pc'[c] = step
      /\ Freeing(m)' <=> Freeing(m)
  BY DecidesDesk
<1>2. amendment[m].booking = b /\ m = At(c)
  BY AtDesk DEF Decides
<1>3. \A d \in Calls \ {c} : pc[d] = "amend" => At(c)' # At(d)
  <2> SUFFICES ASSUME NEW d \in Calls \ {c}, pc[d] = "amend", At(c)' = At(d) PROVE FALSE
    OBVIOUS
  <2>1. At(d) \in Amendments /\ \A e \in Calls : At(e) = At(d) => e = d
    BY AtDesk DEF AmendmentSteps
  <2> QED
    BY <1>1, <1>2, <2>1, Known DEF Decides
<1>4. DeskKnown(c)'
  <2>1. pc'[c] \in AmendmentSteps => At(c)' = m /\ Of(c)' = b /\ pc'[c] # "amend"
    BY <1>1 DEF Decides, AmendmentSteps
  <2> QED
    BY <1>1, <1>2, <2>1 DEF DeskKnown, Decides, Keeps
<1>5. m \notin torn' => RefundTold(m)'
  <2> SUFFICES ASSUME m \notin torn' PROVE RefundTold(m)'
    OBVIOUS
  <2>1. m \notin torn /\ torn' = torn /\ RefundTold(m)
    BY <1>1 DEF Decides, AmendmentInv
  <2>2. Stands(pc[c], amendment[m].status, amendment[m].refunds)
    <3>1. pc[c] # "idle"
      BY DEF Decides, AmendmentSteps
    <3> QED
      BY <1>2, <2>1, <3>1 DEF RefundTold, Stands
  <2>3. Stands(pc'[c], amendment'[m].status, amendment'[m].refunds)
    BY <1>1, <2>1, <2>2 DEF Decides
  <2>4. \A d \in Calls : At(d)' = m => d = c
    BY <1>1, <1>2, <2>1 DEF RefundTold, Apart
  <2>5. pc'[c] = "idle" <=> At(c)' # m
    BY <1>1, Known DEF Decides, AmendmentSteps
  <2> QED
    BY <2>3, <2>4, <2>5 DEF RefundTold, Stands
<1>6. m \in torn' => amendment'[m].status # "NONE"
  BY DEF Decides, Keeps
<1>7. BookTypes'
  BY DEF Decides
<1> QED
  BY <1>1, <1>3, <1>4, <1>5, <1>6, <1>7, DeskStep

\* A step of a decision that leaves the booking alone.
LEMMA DecidesQuietly ==
    ASSUME AmendmentInv, NEW c \in Calls, NEW b, NEW m, NEW step, NEW k, NEW a,
           Goes(c, step, k, a), Decides(c, b, m, step), UNCHANGED doc,
           step # "lock",
           step \in Deciding \cup {"rollback"} => pc[c] \in Deciding /\ k.seen = call[c].seen,
           step = "rollback" => k.seen = "CANCEL_REQUESTED",
           \/ pc[c] \in Deciding
           \/ m \in torn'
           \/ step = "idle" /\ amendment'[m].status # "PENDING_APPROVAL"
           \/ ~Freeing(m)
           \/ ~Frees(c)
    PROVE  AmendmentInv'
<1>1. /\ b \in Bookings /\ m \in Amendments /\ Desk(c, b, m) /\ Apart(c) /\ pc'[c] = step
      /\ Freeing(m)' <=> Freeing(m)
  BY DecidesDesk
<1>2. /\ amendment[m].booking = b /\ m = At(c) /\ doc[b].status # "NONE"
      /\ call'[c] = k /\ desk[c] = m
  BY AtDesk DEF Decides, Goes
<1>3. ASSUME Orderly(b), Orderly(b)', LockKnown(b)
      PROVE  LockKnown(b)'
  <2>1. m \notin torn /\ m \notin torn' /\ RefundTold(m) /\ \A d \in Calls : At(d) = m => d = c
    <3>1. amendment'[m].booking = b
      BY <1>1, <1>2 DEF Decides, Keeps
    <3> QED
      BY <1>1, <1>2, <1>3, <3>1, OrderlyAmendment DEF Decides, Orderly
  <2>2. OwnSeen(c)
    BY <1>2, <1>3 DEF LockKnown, SeenKnown, OwnSeen, Decides
  <2>3. Of(c)' = b => OwnSeen(c)'
    <3> SUFFICES ASSUME Of(c)' = b PROVE OwnSeen(c)'
      OBVIOUS
    <3>1. At(c)' = m /\ step \in AmendmentSteps
      BY <1>1, Known DEF Decides
    <3> QED
      BY <1>1, <1>2, <2>2, <3>1 DEF OwnSeen
  <2>4. Holding(m)' => Holding(m)
    <3> SUFFICES ASSUME Holding(m)' PROVE Holding(m)
      OBVIOUS
    <3>1. Freeing(m) /\ Frees(c)
      BY <1>1, <1>2 DEF Holding, Freeing, Frees
    <3>2. CASE pc[c] \in Deciding
      BY <1>2, <2>1, <3>1, <3>2 DEF Holding, RefundTold, Deciding
    <3>3. CASE step = "idle" /\ amendment'[m].status # "PENDING_APPROVAL"
      <4>1. \A d \in Calls : At(d)' # m
        BY <1>1, <2>1, <3>3, Known DEF Apart, Decides, AmendmentSteps
      <4> QED
        BY <3>3, <4>1 DEF Holding
    <3> QED
      BY <2>1, <3>1, <3>2, <3>3
  <2> QED
    BY <1>1, <1>2, <1>3, <2>3, <2>4, DeskQuiet
<1> QED
  BY <1>2, <1>3, Known, DecidesStep DEF CreatorKnown, Decides

\* The steps of a decision that leave the booking alone.
LEMMA KeepsAmendment ==
    ASSUME AmendmentInv, NEW m \in Amendments, UNCHANGED amendment, amendment[m].status # "NONE"
    PROVE  Keeps(m)
BY DEF Keeps, AmendmentInv, Typed, AmendmentTypeOK

LEMMA KeepsDecided ==
    ASSUME AmendmentInv, NEW c \in Calls, NEW m \in Amendments, At(c) = m,
           NEW status \in AmendmentStatuses \ {"NONE"}, Decide(c, status)
    PROVE  /\ Keeps(m) /\ amendment'[m].status = status
           /\ amendment'[m].refunds = amendment[m].refunds
BY DEF Keeps, Decide, AmendmentInv, Typed, AmendmentTypeOK

LEMMA RefundAmendedStep ==
    ASSUME AmendmentInv, NEW c \in Calls, RefundAmended(c)
    PROVE  AmendmentInv'
<1>0. BookTypes /\ pc[c] = "approve" /\ pc[c] \in AmendmentSteps
  BY DEF AmendmentInv, Typed, RefundAmended, AmendmentSteps
<1>1. PICK m \in Amendments, b \in Bookings : m = At(c) /\ b = Of(c) /\ m = desk[c]
  BY <1>0, AtDesk
<1>2. Goes(c, "amendFee", call[c], m) /\ Of(c)' = b /\ At(c)' = m
  <2>1. "amendFee" \in AmendmentSteps /\ call[c].booking \in Bookings
    BY <1>1 DEF AmendmentSteps, Of
  <2> QED
    BY <1>1, <2>1, DeskFits, OnGoes DEF RefundAmended
<1>3. Keeps(m) /\ amendment'[m].status = amendment[m].status
      /\ amendment'[m].refunds = amendment[m].refunds + 1
  BY <1>0, <1>1, AtDesk DEF RefundAmended, Keeps, AmendmentInv, Typed, AmendmentTypeOK
<1>4. /\ money' \in [Bookings -> [debit : Nat, refund : Nat, fee : Nat]]
      /\ \A e \in Bookings : money'[e].debit = money[e].debit
  <2>1. call[c].fee \in Nat /\ Price - call[c].fee \in Nat
    BY <1>0, Known DEF RefundAmended, Call
  <2> QED
    BY <1>0, <1>1, <2>1 DEF RefundAmended, Charge, BookTypes
<1>5. UNCHANGED <<inventory, doc, overdue, issued, voided, refused, clobbered, torn, strayed>>
  BY DEF RefundAmended, supplier
<1>6. BookTypes'
  BY <1>0, <1>4, <1>5 DEF BookTypes
<1>7. Stands("approve", amendment[m].status, amendment[m].refunds) =>
         Stands("amendFee", amendment'[m].status, amendment'[m].refunds)
  BY <1>3 DEF Stands, Deciding
<1>8. Decides(c, b, m, "amendFee")
  BY <1>0, <1>1, <1>2, <1>3, <1>4, <1>5, <1>6, <1>7 DEF Decides, AmendmentSteps
<1> QED
  BY <1>0, <1>2, <1>5, <1>8, DecidesQuietly DEF Deciding

LEMMA FeeAmendedStep ==
    ASSUME AmendmentInv, NEW c \in Calls, FeeAmended(c)
    PROVE  AmendmentInv'
<1>0. BookTypes /\ pc[c] \in {"approve", "amendFee"} /\ pc[c] \in AmendmentSteps
  BY DEF AmendmentInv, Typed, FeeAmended, AmendmentSteps
<1>1. PICK m \in Amendments, b \in Bookings : m = At(c) /\ b = Of(c) /\ m = desk[c]
  BY <1>0, AtDesk
<1>2. PICK step \in {"amendSeats", "settle"} :
         Goto(c, step) /\ (step = "amendSeats" <=> Freeing(m))
  BY <1>1 DEF FeeAmended, Frees, Freeing
<1>3. Goes(c, step, call[c], m) /\ Of(c)' = b /\ At(c)' = m
  <2>1. step \in AmendmentSteps /\ call[c].booking \in Bookings /\ step # "rollback"
    BY <1>1, <1>2 DEF AmendmentSteps, Of
  <2> QED
    BY <1>1, <1>2, <2>1, DeskFits, OnGoes DEF FeeAmended, amendmentVars
<1>4. Keeps(m)
  BY <1>0, <1>1, AtDesk, KeepsAmendment DEF FeeAmended, amendmentVars
<1>5. /\ money' \in [Bookings -> [debit : Nat, refund : Nat, fee : Nat]]
      /\ \A e \in Bookings : money'[e].debit = money[e].debit
  <2>1. call[c].fee \in Nat
    BY Known DEF Call
  <2>2. CASE Charge(b, "fee", call[c].fee)
    BY <1>0, <2>1, <2>2 DEF Charge, BookTypes
  <2>3. CASE UNCHANGED money
    BY <1>0, <2>3 DEF BookTypes
  <2> QED
    BY <1>1, <2>2, <2>3 DEF FeeAmended
<1>6. UNCHANGED <<inventory, doc, overdue, issued, voided, refused, clobbered, amendment, torn, strayed>>
  BY DEF FeeAmended, supplier, amendmentVars
<1>7. BookTypes'
  BY <1>0, <1>5, <1>6 DEF BookTypes
<1>8. Stands(pc[c], amendment[m].status, amendment[m].refunds) =>
         Stands(step, amendment'[m].status, amendment'[m].refunds)
  <2>1. pc[c] = "approve" => ~(Fee < Price)
    BY Known DEF FeeAmended, Call
  <2> QED
    BY <1>0, <1>2, <1>6, <2>1 DEF Stands, Deciding
<1>9. Decides(c, b, m, step)
  BY <1>0, <1>1, <1>2, <1>3, <1>4, <1>5, <1>6, <1>7, <1>8 DEF Decides, AmendmentSteps
<1> QED
  BY <1>0, <1>2, <1>3, <1>6, <1>9, DecidesQuietly DEF Deciding

LEMMA ReleaseAmendedStep ==
    ASSUME AmendmentInv, NEW c \in Calls, ReleaseAmended(c)
    PROVE  AmendmentInv'
<1>0. BookTypes /\ pc[c] = "amendSeats" /\ pc[c] \in AmendmentSteps
  BY DEF AmendmentInv, Typed, ReleaseAmended, AmendmentSteps
<1>1. PICK m \in Amendments, b \in Bookings : m = At(c) /\ b = Of(c) /\ m = desk[c]
  BY <1>0, AtDesk
<1>2. Goes(c, "amendBooking", call[c], m) /\ Of(c)' = b /\ At(c)' = m
  <2>1. "amendBooking" \in AmendmentSteps /\ call[c].booking \in Bookings
    BY <1>1 DEF AmendmentSteps, Of
  <2> QED
    BY <1>1, <2>1, DeskFits, OnGoes DEF ReleaseAmended, amendmentVars
<1>3. Keeps(m)
  BY <1>0, <1>1, AtDesk, KeepsAmendment DEF ReleaseAmended, amendmentVars
<1>4. Freeing(m)
  BY <1>0, <1>1, Known DEF DeskKnown
<1>5. /\ UNCHANGED <<doc, overdue, issued, voided, money, refused, amendment, torn, strayed>>
      /\ clobbered \subseteq clobbered' /\ clobbered' \subseteq clobbered \cup {b}
  BY <1>1 DEF ReleaseAmended, supplier, books, amendmentVars
<1>6. inventory' \in [total : Nat, seats : Nat]
  BY <1>0, <1>1, BookingAssumption DEF ReleaseAmended, Release, BookTypes
<1>7. BookTypes'
  BY <1>0, <1>5, <1>6 DEF BookTypes
<1>8. Stands("amendSeats", amendment[m].status, amendment[m].refunds) =>
         Stands("amendBooking", amendment'[m].status, amendment'[m].refunds)
  BY <1>5 DEF Stands, Deciding
<1>9. Decides(c, b, m, "amendBooking")
  BY <1>0, <1>1, <1>2, <1>3, <1>4, <1>5, <1>7, <1>8 DEF Decides, AmendmentSteps
<1> QED
  BY <1>0, <1>2, <1>5, <1>9, DecidesQuietly DEF Deciding

\* The decisions that end without a word to the booking.
LEMMA AmendmentEnds ==
    ASSUME AmendmentInv, NEW c \in Calls, RefundRefused(c) \/ SettleAmendment(c)
    PROVE  AmendmentInv'
<1>0. BookTypes /\ pc[c] \in {"approve", "settle"} /\ pc[c] \in AmendmentSteps
  BY DEF AmendmentInv, Typed, RefundRefused, SettleAmendment, AmendmentSteps
<1>1. PICK m \in Amendments, b \in Bookings : m = At(c) /\ b = Of(c) /\ m = desk[c]
  BY <1>0, AtDesk
<1>2. Goes(c, "idle", NoCall, None) /\ Of(c)' = None /\ At(c)' = None
  BY LeaveGoes DEF RefundRefused, SettleAmendment, LeaveDesk
<1>3. PICK status \in {"FAILED", "COMPLETED"} :
         Decide(c, status) /\ (status = "FAILED" <=> pc[c] = "approve")
  BY DEF RefundRefused, SettleAmendment
<1>4. Keeps(m) /\ amendment'[m].status = status /\ amendment'[m].refunds = amendment[m].refunds
  BY <1>1, <1>3, KeepsDecided DEF AmendmentStatuses
<1>5. UNCHANGED <<inventory, doc, overdue, issued, voided, money, refused, clobbered, torn, strayed>>
  BY DEF RefundRefused, SettleAmendment, supplier, books
<1>6. BookTypes'
  BY <1>0, <1>5 DEF BookTypes
<1>7. Stands(pc[c], amendment[m].status, amendment[m].refunds) =>
         Stands("idle", amendment'[m].status, amendment'[m].refunds)
  BY <1>0, <1>3, <1>4 DEF Stands, Deciding
<1>8. Decides(c, b, m, "idle")
  BY <1>0, <1>1, <1>2, <1>4, <1>5, <1>6, <1>7 DEF Decides
<1> QED
  BY <1>2, <1>3, <1>4, <1>5, <1>8, DecidesQuietly DEF Deciding

LEMMA RejectAmendmentStep ==
    ASSUME AmendmentInv, NEW c \in Calls, RejectAmendment(c)
    PROVE  AmendmentInv'
<1>0. BookTypes /\ pc[c] = "reject" /\ pc[c] \in AmendmentSteps
  BY DEF AmendmentInv, Typed, RejectAmendment, AmendmentSteps
<1>1. PICK m \in Amendments, b \in Bookings : m = At(c) /\ b = Of(c) /\ m = desk[c]
  BY <1>0, AtDesk
<1>2. Keeps(m) /\ amendment'[m].status = "REJECTED" /\ amendment'[m].refunds = amendment[m].refunds
  BY <1>1, KeepsDecided DEF AmendmentStatuses, RejectAmendment
<1>3. UNCHANGED <<inventory, doc, overdue, issued, voided, money, refused, clobbered, torn, strayed>>
  BY DEF RejectAmendment, supplier, books
<1>4. BookTypes'
  BY <1>0, <1>3 DEF BookTypes
<1>5. CASE call[c].seen = "CANCEL_REQUESTED"
  <2>1. Goes(c, "rollback", call[c], m) /\ Of(c)' = b /\ At(c)' = m
    <3>1. "rollback" \in AmendmentSteps /\ call[c].booking \in Bookings
      BY <1>1 DEF AmendmentSteps, Of
    <3> QED
      BY <1>1, <1>5, <3>1, DeskFits, OnGoes DEF RejectAmendment
  <2>2. Stands("reject", amendment[m].status, amendment[m].refunds) =>
           Stands("rollback", amendment'[m].status, amendment'[m].refunds)
    BY <1>2 DEF Stands, Deciding
  <2>3. Decides(c, b, m, "rollback")
    BY <1>0, <1>1, <1>2, <1>3, <1>4, <2>1, <2>2 DEF Decides, AmendmentSteps
  <2> QED
    BY <1>0, <1>3, <1>5, <2>1, <2>3, DecidesQuietly DEF Deciding
<1>6. CASE call[c].seen # "CANCEL_REQUESTED"
  <2>1. Goes(c, "idle", NoCall, None) /\ Of(c)' = None /\ At(c)' = None
    BY <1>6, LeaveGoes DEF RejectAmendment, LeaveDesk
  <2>2. Stands("reject", amendment[m].status, amendment[m].refunds) =>
           Stands("idle", amendment'[m].status, amendment'[m].refunds)
    BY <1>2 DEF Stands, Deciding
  <2>3. Decides(c, b, m, "idle")
    BY <1>0, <1>1, <1>2, <1>3, <1>4, <2>1, <2>2 DEF Decides
  <2> QED
    BY <1>2, <1>3, <2>1, <2>3, DecidesQuietly DEF Deciding
<1> QED
  BY <1>5, <1>6

\* The saves of a decision, and of the lock.
LEMMA LockBookingStep ==
    ASSUME AmendmentInv, NEW c \in Calls, LockBooking(c)
    PROVE  AmendmentInv'
<1>0. BookTypes /\ pc[c] = "lock" /\ pc[c] \in AmendmentSteps
  BY DEF AmendmentInv, Typed, LockBooking, AmendmentSteps
<1>1. PICK m \in Amendments, b \in Bookings : m = At(c) /\ b = Of(c) /\ m = desk[c]
  BY <1>0, AtDesk
<1>2. Goes(c, "idle", NoCall, None) /\ Of(c)' = None /\ At(c)' = None
  BY LeaveGoes DEF LockBooking, LeaveDesk
<1>3. Keeps(m)
  BY <1>0, <1>1, AtDesk, KeepsAmendment DEF LockBooking
<1>4. UNCHANGED <<inventory, overdue, issued, voided, money, refused, amendment, torn, strayed>>
  BY DEF LockBooking, supplier, books
<1>5. Stands("lock", amendment[m].status, amendment[m].refunds) =>
         Stands("idle", amendment'[m].status, amendment'[m].refunds)
  BY <1>4 DEF Stands
<1>6. CASE Frees(c) /\ call[c].seen # "CANCEL_REQUESTED"
  <2>1. PICK new : new = [doc[b] EXCEPT !.status = "CANCEL_REQUESTED"]
    OBVIOUS
  <2>2. new \in Document /\ new.status = "CANCEL_REQUESTED" /\ new.numbered = doc[b].numbered
    BY <2>1, Known DEF Document, Statuses
  <2>3. Save(c, new)
    BY <1>1, <1>6, <2>1 DEF LockBooking
  <2>4. /\ doc' \in [Bookings -> Document] /\ clobbered \subseteq clobbered'
        /\ clobbered' \subseteq Bookings \cup {Inventory} /\ doc'[b] = new
        /\ b \notin clobbered' => doc[b].status = call[c].seen
        /\ \A e \in Bookings \ {b} : doc'[e] = doc[e]
    BY <1>1, <2>2, <2>3, SaveDoes
  <2>5. BookTypes'
    BY <1>0, <1>4, <2>4 DEF BookTypes
  <2>6. Decides(c, b, m, "idle")
    BY <1>0, <1>1, <1>2, <1>3, <1>4, <1>5, <2>4, <2>5 DEF Decides
  <2>7. ASSUME Orderly(b), Orderly(b)', LockKnown(b)
        PROVE  LockKnown(b)'
    <3>1. doc[b].status \in {"HOLD", "TICKETED"}
      BY <1>0, <1>1, <2>4, <2>7 DEF LockKnown, SeenKnown, Orderly
    <3>2. /\ \A d \in Calls \ {c} : Of(d) = b => pc[d] \notin ClaimSteps \cup CancelSteps
          /\ \A n \in Amendments : amendment[n].booking = b => ~Holding(n)
      BY <2>7, <3>1, FreeAlone DEF Free
    <3>3. ~doc'[b].numbered => money[b].debit = 0
      BY <2>2, <2>4, <2>7, <3>1, Known DEF LockKnown, WorkKnown, Unsold, CreatorKnown
    <3>4. Desk(c, b, m) /\ Apart(c)
      BY <1>2, <2>6, DecidesDesk
    <3> QED
      BY <1>2, <2>2, <2>4, <2>7, <3>2, <3>3, <3>4, Known, DeskSaves DEF Unsold
  <2> QED
    BY <1>2, <2>2, <2>4, <2>6, <2>7, DecidesStep
<1>7. CASE ~(Frees(c) /\ call[c].seen # "CANCEL_REQUESTED")
  <2>1. UNCHANGED <<doc, clobbered>>
    BY <1>7 DEF LockBooking
  <2>2. BookTypes'
    BY <1>0, <1>4, <2>1 DEF BookTypes
  <2>3. Decides(c, b, m, "idle")
    BY <1>0, <1>1, <1>2, <1>3, <1>4, <1>5, <2>1, <2>2 DEF Decides
  <2>4. ASSUME Orderly(b), Orderly(b)', LockKnown(b)
        PROVE  LockKnown(b)'
    <3>1. call[c].seen # "CANCEL_REQUESTED"
      BY <1>0, <1>1, <2>4 DEF LockKnown, SeenKnown
    <3>2. Desk(c, b, m) /\ Apart(c) /\ (Freeing(m)' <=> Freeing(m)) /\ ~Freeing(m)
      BY <1>1, <1>2, <1>7, <2>3, <3>1, DecidesDesk DEF Frees, Freeing
    <3>3. ~Holding(m)'
      BY <3>2 DEF Holding
    <3> QED
      BY <1>2, <2>1, <2>4, <3>2, <3>3, Known, DeskQuiet
  <2> QED
    BY <1>0, <1>1, <1>2, <2>1, <2>3, <2>4, AtDesk, Known, DecidesStep DEF CreatorKnown
<1> QED
  BY <1>6, <1>7

LEMMA CancelAmendedStep ==
    ASSUME AmendmentInv, NEW c \in Calls, CancelAmended(c)
    PROVE  AmendmentInv'
<1>0. BookTypes /\ pc[c] = "amendBooking" /\ pc[c] \in AmendmentSteps
  BY DEF AmendmentInv, Typed, CancelAmended, AmendmentSteps
<1>1. PICK m \in Amendments, b \in Bookings : m = At(c) /\ b = Of(c) /\ m = desk[c]
  BY <1>0, AtDesk
<1>2. PICK new : new = [doc[b] EXCEPT !.status = "CANCELLED", !.payment = "REFUNDED"]
  OBVIOUS
<1>3. new \in Document /\ new.status = "CANCELLED"
  BY <1>2, Known DEF Document, Statuses
<1>4. PICK k : k = [call[c] EXCEPT !.seen = "CANCELLED"]
  OBVIOUS
<1>5. Save(c, new) /\ Goto(c, "settle") /\ call' = [call EXCEPT ![c] = k]
      /\ k \in Call /\ k.booking = b
  BY <1>1, <1>2, <1>3, <1>4, Known DEF CancelAmended, SaveAndGo, Call, Statuses, Of
<1>6. UNCHANGED <<inventory, overdue, issued, voided, money, refused, amendment, desk, torn, strayed>>
  BY DEF CancelAmended, supplier, books, amendmentVars
<1>7. Goes(c, "settle", k, m) /\ Of(c)' = b /\ At(c)' = m
  <2>1. "settle" \in AmendmentSteps
    BY DEF AmendmentSteps
  <2>2. pc' = [pc EXCEPT ![c] = "settle"] /\ desk' = [desk EXCEPT ![c] = m]
    BY <1>1, <1>5, <1>6, Known DEF Goto
  <2>3. Goes(c, "settle", k, m)
    BY <1>5, <2>1, <2>2, DeskFits, GoesTo
  <2> QED
    BY <1>5, <2>3 DEF Goes
<1>8. /\ doc' \in [Bookings -> Document] /\ clobbered \subseteq clobbered'
      /\ clobbered' \subseteq Bookings \cup {Inventory} /\ doc'[b] = new
      /\ b \notin clobbered' => doc[b].status = call[c].seen
      /\ \A e \in Bookings \ {b} : doc'[e] = doc[e]
  BY <1>1, <1>3, <1>5, SaveDoes
<1>9. BookTypes'
  BY <1>0, <1>6, <1>8 DEF BookTypes
<1>10. Keeps(m)
  BY <1>0, <1>1, <1>6, AtDesk, KeepsAmendment
<1>11. Stands("amendBooking", amendment[m].status, amendment[m].refunds) =>
          Stands("settle", amendment'[m].status, amendment'[m].refunds)
  BY <1>6 DEF Stands, Deciding
<1>12. Decides(c, b, m, "settle")
  BY <1>0, <1>1, <1>6, <1>7, <1>8, <1>9, <1>10, <1>11 DEF Decides, AmendmentSteps
<1>13. ASSUME Orderly(b), Orderly(b)', LockKnown(b)
       PROVE  LockKnown(b)'
  <2>1. RefundTold(m) /\ (\A d \in Calls : At(d) = m => d = c) /\ amendment[m].booking = b
    BY <1>0, <1>1, <1>13, AtDesk, OrderlyAmendment
  <2>2. Freeing(m)
    BY <1>0, <1>1, Known DEF DeskKnown
  <2>3. Holding(m)
    BY <1>0, <1>1, <2>1, <2>2 DEF Holding, RefundTold, Deciding
  <2>4. doc[b].status = "CANCEL_REQUESTED"
    BY <1>13, <2>1, <2>3 DEF LockKnown, HeldKnown
  <2>5. /\ \A d \in Calls \ {c} : Of(d) = b => pc[d] \notin ClaimSteps \cup CancelSteps
        /\ \A n \in Amendments \ {m} : amendment[n].booking = b => ~Holding(n)
    BY <1>13, <2>1, <2>3, <2>4 DEF LockKnown, WorkKnown, HeldKnown
  <2>6. Desk(c, b, m) /\ Apart(c) /\ pc'[c] = "settle"
    BY <1>7, <1>12, DecidesDesk
  <2>7. OwnSeen(c)'
    BY <2>6 DEF OwnSeen, Deciding
  <2>8. ~Holding(m)'
    BY <1>7, <2>1, <2>6 DEF Holding, Apart
  <2> QED
    BY <1>3, <1>8, <1>13, <2>5, <2>6, <2>7, <2>8, DeskSaves DEF Unsold
<1> QED
  BY <1>3, <1>7, <1>8, <1>12, <1>13, DecidesStep

LEMMA RollBackStep ==
    ASSUME AmendmentInv, NEW c \in Calls, RollBack(c)
    PROVE  AmendmentInv'
<1>0. BookTypes /\ pc[c] = "rollback" /\ pc[c] \in AmendmentSteps
  BY DEF AmendmentInv, Typed, RollBack, AmendmentSteps
<1>1. PICK m \in Amendments, b \in Bookings : m = At(c) /\ b = Of(c) /\ m = desk[c]
  BY <1>0, AtDesk
<1>2. PICK new : new = [doc[b] EXCEPT !.status = Prior(b)]
  OBVIOUS
<1>3. /\ new \in Document /\ new.status = Prior(b) /\ new.numbered = doc[b].numbered
      /\ Prior(b) = IF doc[b].numbered THEN "TICKETED" ELSE "HOLD"
  BY <1>2, Known DEF Document, Statuses, Prior
<1>4. Save(c, new)
  BY <1>1, <1>2 DEF RollBack
<1>5. Goes(c, "idle", NoCall, None) /\ Of(c)' = None /\ At(c)' = None
  BY LeaveGoes DEF RollBack, LeaveDesk
<1>6. UNCHANGED <<inventory, overdue, issued, voided, money, refused, amendment, torn, strayed>>
  BY DEF RollBack, supplier, books
<1>7. /\ doc' \in [Bookings -> Document] /\ clobbered \subseteq clobbered'
      /\ clobbered' \subseteq Bookings \cup {Inventory} /\ doc'[b] = new
      /\ b \notin clobbered' => doc[b].status = call[c].seen
      /\ \A e \in Bookings \ {b} : doc'[e] = doc[e]
  BY <1>1, <1>3, <1>4, SaveDoes
<1>8. BookTypes'
  BY <1>0, <1>6, <1>7 DEF BookTypes
<1>9. Keeps(m)
  BY <1>0, <1>1, <1>6, AtDesk, KeepsAmendment
<1>10. Stands("rollback", amendment[m].status, amendment[m].refunds) =>
          Stands("idle", amendment'[m].status, amendment'[m].refunds)
  BY <1>6 DEF Stands, Deciding
<1>11. Decides(c, b, m, "idle")
  BY <1>0, <1>1, <1>5, <1>6, <1>7, <1>8, <1>9, <1>10 DEF Decides
<1>12. ASSUME Orderly(b), Orderly(b)', LockKnown(b)
       PROVE  LockKnown(b)'
  <2>1. RefundTold(m) /\ (\A d \in Calls : At(d) = m => d = c) /\ amendment[m].booking = b
    BY <1>0, <1>1, <1>12, AtDesk, OrderlyAmendment
  <2>2. Freeing(m) /\ Holding(m)
    BY <1>0, <1>1, <1>12 DEF LockKnown, SeenKnown, Holding
  <2>3. doc[b].status = "CANCEL_REQUESTED" /\ (~doc[b].numbered => money[b].debit = 0)
    BY <1>12, <2>1, <2>2 DEF LockKnown, HeldKnown
  <2>4. /\ \A d \in Calls \ {c} : Of(d) = b => pc[d] \notin ClaimSteps \cup CancelSteps
        /\ \A n \in Amendments \ {m} : amendment[n].booking = b => ~Holding(n)
    BY <1>12, <2>1, <2>2, <2>3 DEF LockKnown, WorkKnown, HeldKnown
  <2>5. Desk(c, b, m) /\ Apart(c) /\ (Freeing(m)' <=> Freeing(m))
    BY <1>5, <1>11, DecidesDesk
  <2>6. ~Holding(m)'
    <3>1. \A d \in Calls : At(d)' # m
      BY <1>5, <2>1, <2>5, Known DEF Apart
    <3>2. amendment'[m].status = "REJECTED"
      BY <1>0, <1>1, <1>6, <2>1 DEF RefundTold
    <3> QED
      BY <3>1, <3>2 DEF Holding
  <2> QED
    BY <1>3, <1>5, <1>7, <1>12, <2>3, <2>4, <2>5, <2>6, Known, DeskSaves DEF Unsold
<1> QED
  BY <1>3, <1>5, <1>7, <1>11, <1>12, DecidesStep

\* An operator reads the amendment and its booking.
LEMMA ReadAmendmentStep ==
    ASSUME AmendmentInv, NEW c \in Calls, NEW m \in Amendments, ReadAmendment(c, m)
    PROVE  AmendmentInv'
<1>0. BookTypes /\ amendment[m].status = "PENDING_APPROVAL" /\ pc[c] = "idle"
  BY DEF AmendmentInv, Typed, ReadAmendment, Open
<1>1. PICK b \in Bookings : b = amendment[m].booking /\ doc[b].status # "NONE" /\ b # None
  BY <1>0, Known DEF Drafted, CreatorKnown, AmendmentInv, Typed, AmendmentTypeOK
<1>2. PICK step \in {"approve", "reject"}, fee \in {0, Fee} :
         /\ Goto(c, step)
         /\ call' = [call EXCEPT ![c] = [NoCall EXCEPT !.booking = b, !.seen = doc[b].status,
                                           !.fee = IF step = "approve" THEN fee ELSE 0]]
  BY <1>1 DEF ReadAmendment
<1>3. PICK k : k = [NoCall EXCEPT !.booking = b, !.seen = doc[b].status,
                                  !.fee = IF step = "approve" THEN fee ELSE 0]
  OBVIOUS
<1>4. k \in Call /\ k.booking = b /\ k.seen = doc[b].status
  BY <1>1, <1>3, Known DEF NoCall, Call, Document
<1>5. step \in AmendmentSteps /\ step # "rollback" /\ step \in Deciding /\ "idle" \notin AmendmentSteps
      /\ step \notin ClaimSteps \cup CancelSteps \cup {"create"} /\ step \notin {"amend", "lock"}
  BY DEF AmendmentSteps, Deciding, ClaimSteps, UnpaidSteps, PaidSteps, CancelSteps
<1>6. Goes(c, step, k, m)
  <2>1. pc' = [pc EXCEPT ![c] = step] /\ call' = [call EXCEPT ![c] = k]
        /\ desk' = [desk EXCEPT ![c] = m]
    BY <1>2, <1>3 DEF ReadAmendment, Goto
  <2> QED
    BY <1>4, <1>5, <2>1, DeskFits, GoesTo
<1>7. /\ Of(c) = None /\ At(c) = None /\ Of(c)' = b /\ At(c)' = m /\ pc'[c] = step
      /\ call'[c] = k /\ Apart(c)
  BY <1>0, <1>4, <1>5, <1>6, Known DEF Goes
<1>8. /\ UNCHANGED <<inventory, doc, overdue, issued, voided, money, refused, clobbered, amendment>>
      /\ torn' = IF \E d \in Calls : At(d) = m THEN torn \cup {m} ELSE torn
      /\ strayed' = IF amendment[m].type = "RESCHEDULE" /\ doc[b].status = "CANCEL_REQUESTED"
                    THEN strayed \cup {b} ELSE strayed
  BY <1>1 DEF ReadAmendment, supplier, books
<1>9. Desk(c, b, m)
  BY <1>0, <1>1, <1>5, <1>7, <1>8 DEF Desk, Written, AmendmentInv, Typed, AmendmentTypeOK
<1>10. BookTypes'
  BY <1>0, <1>8 DEF BookTypes
<1>11. DeskKnown(c)'
  BY <1>0, <1>1, <1>5, <1>7, <1>8 DEF DeskKnown
<1>12. m \notin torn' => m \notin torn /\ RefundTold(m) /\ \A d \in Calls : At(d) # m
  BY <1>8 DEF AmendmentInv
<1>13. m \notin torn' => RefundTold(m)'
  <2> SUFFICES ASSUME m \notin torn' PROVE RefundTold(m)'
    OBVIOUS
  <2>1. amendment[m].refunds = 0
    BY <1>0, <1>12 DEF RefundTold
  <2>2. \A d \in Calls : At(d)' = m => d = c
    BY <1>7, <1>12 DEF Apart
  <2> QED
    BY <1>0, <1>7, <1>8, <2>1, <2>2 DEF RefundTold
<1>14. LockKnown(b) /\ Orderly(b)' => LockKnown(b)'
  <2> SUFFICES ASSUME LockKnown(b), Orderly(b)' PROVE LockKnown(b)'
    OBVIOUS
  <2>1. m \notin torn' /\ b \notin strayed'
    BY <1>1, <1>8 DEF Orderly
  <2>2. Freeing(m) => Holding(m)
    BY <1>0, <1>12, <2>1 DEF Holding
  <2>3. doc[b].status = "CANCEL_REQUESTED" <=> Freeing(m)
    <3>1. CASE Freeing(m)
      BY <1>1, <2>2, <3>1 DEF LockKnown, HeldKnown
    <3>2. CASE ~Freeing(m)
      <4>1. amendment[m].type = "RESCHEDULE"
        BY <3>2 DEF Freeing, AmendmentInv, Typed, AmendmentTypeOK, AmendmentTypes
      <4> QED
        BY <1>8, <2>1, <3>2, <4>1
    <3> QED
      BY <3>1, <3>2
  <2>4. Freeing(m)' <=> Freeing(m)
    BY <1>8 DEF Freeing
  <2>5. OwnSeen(c)'
    BY <1>4, <1>5, <1>7, <2>3, <2>4 DEF OwnSeen
  <2>6. Holding(m)' => Holding(m)
    BY <2>2, <2>4 DEF Holding
  <2> QED
    BY <1>1, <1>7, <1>8, <1>9, <2>5, <2>6, DeskQuiet
<1>15. \A d \in Calls \ {c} : pc[d] = "amend" => At(c)' # At(d)
  BY <1>0, <1>7, AtDesk DEF AmendmentSteps
<1> QED
  BY <1>0, <1>1, <1>6, <1>8, <1>9, <1>10, <1>11, <1>13, <1>14, <1>15, DeskStep, Known DEF CreatorKnown

LEMMA CrashAtDeskStep ==
    ASSUME AmendmentInv, NEW c \in Calls, CrashAtDesk(c)
    PROVE  AmendmentInv'
<1>0. BookTypes /\ pc[c] \in AmendmentSteps
  BY DEF AmendmentInv, Typed, CrashAtDesk
<1>1. PICK m \in Amendments, b \in Bookings : m = At(c) /\ b = Of(c)
  BY <1>0, AtDesk
<1>2. Goes(c, "idle", NoCall, None) /\ Of(c)' = None /\ At(c)' = None
  BY LeaveGoes DEF CrashAtDesk, LeaveDesk
<1>3. /\ UNCHANGED <<inventory, doc, overdue, issued, voided, money, refused, clobbered,
                    amendment, strayed>>
      /\ torn' = IF pc[c] = "amend" THEN torn ELSE torn \cup {m}
  BY <1>1, Known DEF CrashAtDesk, supplier, books
<1>4. BookTypes'
  BY <1>0, <1>3 DEF BookTypes
<1>5. doc[b].status # "NONE" /\ (doc[b].status = "TICKETED" => doc[b].numbered)
  BY <1>0, <1>1, AtDesk, Known DEF CreatorKnown
<1>6. CASE pc[c] = "amend"
  <2>1. /\ amendment[m].status = "NONE" /\ amendment[m].booking = None /\ m \notin torn
        /\ \A d \in Calls : At(d) = m => d = c
    BY <1>0, <1>1, <1>6, AtDesk
  <2>2. "idle" \notin AmendmentSteps \cup ClaimSteps \cup CancelSteps
    BY DEF AmendmentSteps, ClaimSteps, UnpaidSteps, PaidSteps, CancelSteps
  <2>3. pc'[c] = "idle" /\ Apart(c)
    BY <1>2 DEF Goes
  <2>4. Desk(c, b, m)
    BY <1>1, <1>2, <1>3, <1>5, <1>6, <2>1, <2>2, <2>3 DEF Desk, Written, AmendmentInv, Typed, AmendmentTypeOK
  <2>5. DeskKnown(c)'
    BY <2>2, <2>3 DEF DeskKnown
  <2>6. RefundTold(m)'
    <3>1. amendment[m].refunds = 0
      BY <1>1, <1>6, <2>1 DEF AmendmentInv, RefundTold
    <3>2. \A d \in Calls : At(d)' # m
      BY <1>2, <2>1, <2>3, Known DEF Apart
    <3> QED
      BY <1>3, <2>1, <3>1, <3>2 DEF RefundTold
  <2>7. LockKnown(b) => LockKnown(b)'
    BY <1>2, <1>3, <2>1, <2>3, <2>4, Known, DeskQuiet
  <2>8. \A d \in Calls \ {c} : pc[d] = "amend" => At(c)' # At(d)
    BY <1>2, AtDesk, Known DEF AmendmentSteps
  <2> QED
    BY <1>2, <1>3, <1>4, <1>5, <1>6, <2>1, <2>4, <2>5, <2>6, <2>7, <2>8, DeskStep
<1>7. CASE pc[c] # "amend"
  <2>1. Keeps(m)
    BY <1>0, <1>1, <1>3, <1>7, AtDesk, KeepsAmendment
  <2>2. Decides(c, b, m, "idle") /\ m \in torn'
    BY <1>0, <1>1, <1>2, <1>3, <1>4, <1>7, <2>1 DEF Decides
  <2> QED
    BY <1>2, <1>3, <2>2, DecidesQuietly DEF Deciding
<1> QED
  BY <1>6, <1>7

-----------------------------------------------------------------------------
(* The theorems *)

LEMMA InitAmendmentInv == AmendmentInit => AmendmentInv
<1> SUFFICES ASSUME AmendmentInit PROVE AmendmentInv
  OBVIOUS
<1>1. Init
  BY DEF AmendmentInit
<1>2. NoCall \in Call /\ NoCall.booking = None
  BY BookingAssumption DEF NoCall, Call, Statuses
<1>3. /\ \A c \in Calls : pc[c] = "idle" /\ call[c] = NoCall /\ desk[c] = None /\ At(c) = None /\ Of(c) = None
      /\ \A m \in Amendments : amendment[m].status = "NONE" /\ amendment[m].booking = None
                               /\ amendment[m].refunds = 0
      /\ \A b \in Bookings : doc[b].status = "NONE" /\ money[b].debit = 0
      /\ torn = {}
  BY <1>1, <1>2 DEF AmendmentInit, Init, At, Of
<1>4. None \notin Bookings /\ None \notin Amendments
  BY BookingAssumption, AmendmentAssumption
<1>5. "idle" \notin AmendmentSteps \cup ClaimSteps \cup CancelSteps \cup UnpaidSteps
  BY DEF AmendmentSteps, ClaimSteps, UnpaidSteps, PaidSteps, CancelSteps
<1>6. Typed
  <2>1. BookTypes
    BY <1>1, BookingAssumption DEF Init, BookTypes, Document, Statuses
  <2>2. AmendmentTypeOK
    BY <1>1, <2>1 DEF AmendmentInit, Init, AmendmentTypeOK, AmendmentTypes, AmendmentStatuses, Steps,
       BookTypes
  <2> QED
    BY <1>1, <1>2, <2>1, <2>2 DEF Init, Typed
<1>7. CallsFit
  BY <1>3, <1>4, <1>5, IdleFits DEF CallsFit
<1>8. \A c \in Calls : DeskKnown(c)
  BY <1>3, <1>5 DEF DeskKnown
<1>9. \A m \in Amendments : Drafted(m) /\ RefundTold(m)
  BY <1>3, <1>4 DEF Drafted, RefundTold
<1>10. \A b \in Bookings : CreatorKnown(b) /\ LockKnown(b)
  BY <1>3, <1>4 DEF CreatorKnown, LockKnown, SeenKnown, WorkKnown, HeldKnown
<1> QED
  BY <1>6, <1>7, <1>8, <1>9, <1>10 DEF AmendmentInv

LEMMA AmendmentStepInv ==
    ASSUME AmendmentInv, NEW c \in Calls, AmendmentStep(c)
    PROVE  AmendmentInv'
<1>1. CASE \E m \in Amendments : (\E b \in Bookings : ReadToAmend(c, m, b)) \/ ReadAmendment(c, m)
  BY <1>1, ReadToAmendStep, ReadAmendmentStep
<1>2. CASE CreateAmendment(c) \/ LockBooking(c)
  BY <1>2, CreateAmendmentStep, LockBookingStep
<1>3. CASE RefundAmended(c) \/ RefundRefused(c) \/ FeeAmended(c) \/ ReleaseAmended(c)
  BY <1>3, RefundAmendedStep, AmendmentEnds, FeeAmendedStep, ReleaseAmendedStep
<1>4. CASE CancelAmended(c) \/ SettleAmendment(c)
  BY <1>4, CancelAmendedStep, AmendmentEnds
<1>5. CASE RejectAmendment(c) \/ RollBack(c) \/ CrashAtDesk(c)
  BY <1>5, RejectAmendmentStep, RollBackStep, CrashAtDeskStep
<1> QED
  BY <1>1, <1>2, <1>3, <1>4, <1>5 DEF AmendmentStep

LEMMA FlightStepInv ==
    ASSUME AmendmentInv, NEW c \in Calls, pc[c] \notin AmendmentSteps, UNCHANGED amendmentVars,
           \/ Proceed(c) \/ ReadInventory(c) \/ Crash(c)
           \/ \E b \in Bookings : Start(c, b)
    PROVE  AmendmentInv'
<1>1. CASE Proceed(c)
  <2>1. CASE CreateBooking(c) \/ Debit(c)
    BY <2>1, FlightCreates, FlightDebits
  <2>2. CASE \/ ReleaseSeats(c) \/ IssueConflict(c) \/ FeeRefused(c) \/ EditRefused(c)
             \/ \E total \in NewTotals : SaveInventory(c, total)
    BY <2>2, FlightEnds
  <2>3. CASE \/ DebitFails(c) \/ RouteToSupplier(c) \/ Ticket(c) \/ TicketFails(c) \/ RefundTicket(c)
             \/ CancelSeats(c) \/ CancelAtSupplier(c) \/ RefundCancelled(c) \/ ChargeFee(c)
    BY <2>3, FlightGoesOn
  <2>4. CASE \/ BackToHold(c) \/ RouteToManual(c) \/ SaveTicketed(c) \/ SaveFailed(c)
             \/ IssueManually(c) \/ SaveCancelled(c) \/ Lapsed(c) \/ RequestCancel(c)
    BY <2>4, FlightSaves
  <2> QED
    BY <1>1, <2>1, <2>2, <2>3, <2>4 DEF Proceed
<1>2. CASE ReadInventory(c)
  BY <1>2, FlightReads
<1>3. CASE Crash(c)
  BY <1>3, FlightEnds
<1>4. CASE \E b \in Bookings : Start(c, b)
  <2>1. PICK b \in Bookings : Start(c, b)
    BY <1>4
  <2> QED
    BY <2>1, FlightHolds, FlightTakesHold, FlightReads DEF Start
<1> QED
  BY <1>1, <1>2, <1>3, <1>4

LEMMA NextAmendmentInv == AmendmentInv /\ [AmendmentNext]_amendedVars => AmendmentInv'
<1> SUFFICES ASSUME AmendmentInv, [AmendmentNext]_amendedVars PROVE AmendmentInv'
  OBVIOUS
<1>1. CASE \E b \in Bookings : HoldLapses(b) /\ UNCHANGED amendmentVars
  BY <1>1, FlightLapses
<1>2. CASE \E c \in Calls :
              /\ pc[c] \notin AmendmentSteps /\ UNCHANGED amendmentVars
              /\ \/ Proceed(c) \/ ReadInventory(c) \/ Crash(c)
                 \/ \E b \in Bookings : Start(c, b)
  <2>1. PICK c \in Calls :
              /\ pc[c] \notin AmendmentSteps /\ UNCHANGED amendmentVars
              /\ \/ Proceed(c) \/ ReadInventory(c) \/ Crash(c)
                 \/ \E b \in Bookings : Start(c, b)
    BY <1>2
  <2> QED
    BY <2>1, FlightStepInv
<1>3. CASE \E c \in Calls : AmendmentStep(c)
  BY <1>3, AmendmentStepInv
<1>4. CASE UNCHANGED amendedVars
  <2>1. UNCHANGED <<inventory, doc, issued, voided, money, refused, clobbered, overdue, pc, call,
                    amendment, desk, torn, strayed>>
    BY <1>4 DEF amendedVars, vars, amendmentVars, supplier, books
  <2>2. Typed' /\ CallsFit'
    BY <2>1 DEF AmendmentInv, Typed, CallsFit, BookTypes, AmendmentTypeOK
  <2>3. /\ \A c \in Calls : DeskKnown(c)'
        /\ \A m \in Amendments : Drafted(m)' /\ (m \notin torn' => RefundTold(m)')
    BY <2>1 DEF AmendmentInv, DeskKnown, Drafted, RefundTold, At, Of, Freeing
  <2>4. ASSUME NEW b \in Bookings PROVE CreatorKnown(b)' /\ (Orderly(b)' => LockKnown(b)')
    <3>1. CreatorKnown(b)' /\ (Orderly(b)' <=> Orderly(b))
      BY <2>1, Known DEF CreatorKnown, Orderly, Of
    <3>2. LockKnown(b) => LockKnown(b)'
      BY <2>1 DEF LockKnown, SeenKnown, WorkKnown, HeldKnown, Holding, Freeing, At, Of
    <3> QED
      BY <3>1, <3>2 DEF AmendmentInv
  <2> QED
    BY <2>2, <2>3, <2>4 DEF AmendmentInv
<1> QED
  BY <1>1, <1>2, <1>3, <1>4 DEF AmendmentNext

THEOREM AmendmentInvariance == AmendmentSpec => []AmendmentInv
BY InitAmendmentInv, NextAmendmentInv, PTL DEF AmendmentSpec

\* Every document, call and amendment keeps the values the code can give it.
THEOREM AmendmentTypesKept == AmendmentSpec => []AmendmentTypeOK
<1>1. AmendmentInv => AmendmentTypeOK
  BY DEF AmendmentInv, Typed
<1> QED
  BY <1>1, AmendmentInvariance, PTL

\* Beside any number of agents and operators, a rejected amendment never brings a paid
\* booking back as a HOLD that is paid again, and the status of an amendment that one
\* operator decides tells whether the agency was refunded.
THEOREM AmendmentsTellMoney == AmendmentSpec => []AmendmentTellsMoney
<1>1. AmendmentInv => AmendmentTellsMoney
  <2> SUFFICES ASSUME AmendmentInv PROVE AmendmentTellsMoney
    OBVIOUS
  <2>1. AmendedDebitedOnce
    <3> SUFFICES ASSUME NEW b \in Bookings, Orderly(b) PROVE money[b].debit <= Price
      BY DEF AmendedDebitedOnce
    <3> QED
      BY Known DEF AmendmentInv, LockKnown, WorkKnown
  <2>2. AmendmentTellsRefund
    BY DEF AmendmentTellsRefund, AmendmentInv, RefundTold
  <2> QED
    BY <2>1, <2>2 DEF AmendmentTellsMoney
<1> QED
  BY <1>1, AmendmentInvariance, PTL

\* A booking whose cancellation waits for the ops desk stays CANCEL_REQUESTED, whoever
\* confirms, cancels or sweeps meanwhile, for as long as no save clobbers it and none
\* of its amendments is torn or stray.
THEOREM BookingsStayLocked == AmendmentSpec => []LockedUntilDecided
<1>1. AmendmentInv => LockedUntilDecided
  <2> SUFFICES ASSUME AmendmentInv, NEW m \in Amendments,
                      amendment[m].status = "PENDING_APPROVAL",
                      amendment[m].type \in {"CANCEL", "REFUND"},
                      Orderly(amendment[m].booking),
                      \A c \in Calls : At(c) # m
               PROVE  doc[amendment[m].booking].status = "CANCEL_REQUESTED"
    BY DEF LockedUntilDecided
  <2>1. PICK b \in Bookings : b = amendment[m].booking
    BY Known DEF Drafted, AmendmentInv, Typed, AmendmentTypeOK
  <2>2. LockKnown(b) /\ Holding(m)
    BY <2>1 DEF AmendmentInv, Holding, Freeing
  <2> QED
    BY <2>1, <2>2 DEF LockKnown, HeldKnown
<1> QED
  BY <1>1, AmendmentInvariance, PTL

-----------------------------------------------------------------------------
(* Seats *)

\* On the way between the inventory and a booking.
Moving == {"create", "release", "cancelSeats"}

\* m keeps its booking locked and has not released its seats.
HoldsSeats(m) == Holding(m) /\ \A c \in Calls : At(c) = m => pc[c] # "amendBooking"

\* The seats of b are not in the inventory.
Takes(b) ==
    \/ doc[b].status \in Occupying
    \/ \E c \in Calls : Of(c) = b /\ pc[c] \in Moving
    \/ \E m \in Amendments : amendment[m].booking = b /\ HoldsSeats(m)

Taken == {b \in Bookings : Takes(b)}

Undisturbed == clobbered = {} /\ strayed = {} /\ torn = {}

\* An expired booking is released by the one call that expired it.
ReleaseKnown ==
    /\ \A c \in Calls : pc[c] = "release" => doc[Of(c)].status = "EXPIRED"
    /\ \A c, d \in Calls : pc[c] = "release" /\ pc[d] = "release" /\ Of(c) = Of(d) => c = d

SeatsFit == inventory.seats + SumOf(SeatsOf, Taken) <= inventory.total

SeatsInv == Undisturbed => ReleaseKnown /\ SeatsFit

LEMMA SeatsTyped ==
    ASSUME AmendmentInv
    PROVE  /\ inventory.seats \in Nat /\ inventory.total \in Nat
           /\ \A b \in Bookings : SeatsOf[b] \in Nat
           /\ \A T \in SUBSET Bookings : IsFiniteSet(T) /\ SumOf(SeatsOf, T) \in Nat
           /\ Taken \in SUBSET Bookings
<1>1. ASSUME NEW T \in SUBSET Bookings PROVE IsFiniteSet(T) /\ SumOf(SeatsOf, T) \in Nat
  <2>1. IsFiniteSet(T) /\ \A x \in T : SeatsOf[x] \in Nat
    BY BookingAssumption, FS_Subset
  <2> QED
    BY <2>1, SumNat
<1> QED
  BY <1>1, BookingAssumption DEF AmendmentInv, Typed, BookTypes, Taken

\* What the steps do to the seats: nothing, ...
LEMMA SeatsKept ==
    ASSUME AmendmentInv, AmendmentInv', SeatsFit, Taken' \subseteq Taken,
           inventory'.total - inventory'.seats = inventory.total - inventory.seats
    PROVE  SeatsFit'
<1>1. PICK S \in SUBSET Bookings : S = Taken
  BY DEF Taken
<1>2. PICK T \in SUBSET Bookings : T = Taken'
  BY DEF Taken
<1>3. SumOf(SeatsOf, T) <= SumOf(SeatsOf, S)
  <2>1. IsFiniteSet(S) /\ T \in SUBSET S /\ \A x \in S : SeatsOf[x] \in Nat
    BY <1>1, <1>2, SeatsTyped
  <2> QED
    BY <2>1, SumOfSubset
<1>4. PICK s \in Nat : s = SumOf(SeatsOf, S)
  BY SeatsTyped
<1>5. PICK t \in Nat : t = SumOf(SeatsOf, T)
  BY SeatsTyped
<1>6. /\ inventory.seats \in Nat /\ inventory.total \in Nat
      /\ inventory'.seats \in Nat /\ inventory'.total \in Nat
  BY DEF AmendmentInv, Typed, BookTypes
<1>7. inventory.seats + s <= inventory.total
  BY <1>1, <1>4 DEF SeatsFit
<1>8. inventory'.seats + t <= inventory'.total
  BY <1>3, <1>4, <1>5, <1>6, <1>7
<1> QED
  BY <1>2, <1>5, <1>8 DEF SeatsFit

\* ... give those of one booking back, ...
LEMMA SeatsGiven ==
    ASSUME AmendmentInv, AmendmentInv', SeatsFit, NEW b \in Taken, Taken' \subseteq Taken \ {b},
           Release(b)
    PROVE  SeatsFit'
<1>1. PICK S \in SUBSET Bookings : S = Taken
  BY DEF Taken
<1>2. PICK T \in SUBSET Bookings : T = Taken'
  BY DEF Taken
<1>3. SumOf(SeatsOf, T) <= SumOf(SeatsOf, S \ {b})
  <2>1. S \ {b} \in SUBSET Bookings
    OBVIOUS
  <2>2. IsFiniteSet(S \ {b}) /\ T \in SUBSET (S \ {b}) /\ \A x \in S \ {b} : SeatsOf[x] \in Nat
    BY <1>1, <1>2, <2>1, SeatsTyped
  <2> QED
    BY <2>2, SumOfSubset
<1>4. PICK s \in Nat : s = SumOf(SeatsOf, S \ {b})
  BY SeatsTyped
<1>5. PICK t \in Nat : t = SumOf(SeatsOf, T)
  BY SeatsTyped
<1>6. SumOf(SeatsOf, S) = SeatsOf[b] + s
  <2>1. IsFiniteSet(S) /\ b \in S /\ \A x \in S : SeatsOf[x] \in Int
    BY <1>1, SeatsTyped
  <2> QED
    BY <1>4, <2>1, SumRemove
<1>7. /\ inventory.seats \in Nat /\ inventory.total \in Nat /\ SeatsOf[b] \in Nat
      /\ inventory'.seats = inventory.seats + SeatsOf[b] /\ inventory'.total = inventory.total
  BY <1>1, SeatsTyped DEF Release, AmendmentInv, Typed, BookTypes
<1>8. inventory.seats + (SeatsOf[b] + s) <= inventory.total
  BY <1>1, <1>6 DEF SeatsFit
<1>9. inventory'.seats + t <= inventory'.total
  BY <1>3, <1>4, <1>5, <1>7, <1>8
<1> QED
  BY <1>2, <1>5, <1>9 DEF SeatsFit

\* ... or sell those of one booking.
LEMMA SeatsSold ==
    ASSUME AmendmentInv, AmendmentInv', SeatsFit, NEW b \in Bookings, Taken' \subseteq Taken \cup {b},
           SeatsLeft(b), inventory' = [inventory EXCEPT !.seats = @ - SeatsOf[b]]
    PROVE  SeatsFit'
<1>1. PICK S \in SUBSET Bookings : S = Taken
  BY DEF Taken
<1>2. PICK T \in SUBSET Bookings : T = Taken'
  BY DEF Taken
<1>3. SumOf(SeatsOf, T) <= SumOf(SeatsOf, S \cup {b})
  <2>1. S \cup {b} \in SUBSET Bookings
    OBVIOUS
  <2>2. /\ IsFiniteSet(S \cup {b}) /\ T \in SUBSET (S \cup {b})
        /\ \A x \in S \cup {b} : SeatsOf[x] \in Nat
    BY <1>1, <1>2, <2>1, SeatsTyped
  <2> QED
    BY <2>2, SumOfSubset
<1>4. PICK s \in Nat : s = SumOf(SeatsOf, S)
  BY SeatsTyped
<1>5. PICK t \in Nat : t = SumOf(SeatsOf, T)
  BY SeatsTyped
<1>6. SumOf(SeatsOf, S \cup {b}) <= SeatsOf[b] + s
  <2>0. SeatsOf[b] \in Nat
    BY SeatsTyped
  <2>1. CASE b \in S
    <3>1. S \cup {b} = S
      BY <2>1
    <3>2. SumOf(SeatsOf, S \cup {b}) = s
      BY <1>4, <3>1
    <3> QED
      BY <2>0, <3>2
  <2>2. CASE b \notin S
    <3>1. IsFiniteSet(S) /\ \A x \in S \cup {b} : SeatsOf[x] \in Int
      BY SeatsTyped
    <3> QED
      BY <1>4, <2>0, <2>2, <3>1, SumAdd
  <2> QED
    BY <2>1, <2>2
<1>7. /\ inventory.seats \in Nat /\ inventory.total \in Nat /\ SeatsOf[b] \in Nat
      /\ inventory.seats >= SeatsOf[b]
      /\ inventory'.seats = inventory.seats - SeatsOf[b] /\ inventory'.total = inventory.total
  BY SeatsTyped DEF SeatsLeft, AmendmentInv, Typed, BookTypes
<1>8. inventory.seats + s <= inventory.total
  BY <1>1, <1>4 DEF SeatsFit
<1>9. t <= SeatsOf[b] + s
  <2>1. PICK u \in Nat : u = SumOf(SeatsOf, S \cup {b})
    <3>1. S \cup {b} \in SUBSET Bookings
      OBVIOUS
    <3> QED
      BY <3>1, SeatsTyped
  <2> QED
    BY <1>3, <1>4, <1>5, <1>6, <1>7, <2>1
<1>10. inventory'.seats + t <= inventory'.total
  BY <1>4, <1>5, <1>7, <1>8, <1>9
<1> QED
  BY <1>2, <1>5, <1>10 DEF SeatsFit

-----------------------------------------------------------------------------
(* Whose seats are taken after a step *)

\* Before a step that disturbs nothing nothing was disturbed.
LEMMA UndisturbedBefore ==
    ASSUME AmendmentInv, Onward, Undisturbed'
    PROVE  Undisturbed
BY DEF Onward, Undisturbed

LEMMA UndisturbedKnown ==
    ASSUME AmendmentInv, Undisturbed
    PROVE  /\ \A b \in Bookings : CreatorKnown(b) /\ LockKnown(b)
           /\ \A m \in Amendments : Drafted(m) /\ RefundTold(m)
BY DEF AmendmentInv, Undisturbed, Orderly

LEMMA SeatStep ==
    ASSUME AmendmentInv, ReleaseKnown, NEW c \in Calls, Apart(c), NEW b \in Bookings \cup {None},
           \A e \in Bookings \ {b} : doc'[e] = doc[e],
           pc'[c] \in Moving => Of(c)' = b /\ b \in Bookings,
           b \in Bookings =>
              /\ doc[b].status = "EXPIRED" => doc'[b].status = "EXPIRED" /\ pc'[c] # "release"
              /\ pc'[c] = "release" => doc'[b].status = "EXPIRED"
              /\ doc'[b].status \in Occupying \/ pc'[c] \in Moving => Takes(b),
           \A m \in Amendments : amendment'[m].booking \in Bookings /\ HoldsSeats(m)' =>
              Takes(amendment'[m].booking)
    PROVE  ReleaseKnown' /\ Taken' \subseteq Taken
<1>1. \A d \in Calls \ {c} : pc'[d] = pc[d] /\ Of(d)' = Of(d)
  BY DEF Apart
<1>2. \A e \in Bookings : doc[e].status = "EXPIRED" => doc'[e].status = "EXPIRED"
  OBVIOUS
<1>3. \A d \in Calls : pc[d] = "release" => Of(d) \in Bookings /\ doc[Of(d)].status = "EXPIRED"
  BY Known DEF ReleaseKnown
<1>4. pc'[c] = "release" => b \in Bookings /\ Of(c)' = b /\ doc[b].status # "EXPIRED"
  BY DEF Moving
<1>5. \A d \in Calls : pc'[d] = "release" => doc'[Of(d)'].status = "EXPIRED"
  BY <1>1, <1>2, <1>3, <1>4
<1>6. \A d, e \in Calls : pc'[d] = "release" /\ pc'[e] = "release" /\ Of(d)' = Of(e)' => d = e
  BY <1>1, <1>3, <1>4 DEF ReleaseKnown
<1>7. ReleaseKnown'
  BY <1>5, <1>6 DEF ReleaseKnown
<1>8. ASSUME NEW e \in Bookings, Takes(e)' PROVE Takes(e)
  <2>1. CASE doc'[e].status \in Occupying
    BY <2>1 DEF Takes
  <2>2. CASE \E d \in Calls : Of(d)' = e /\ pc'[d] \in Moving
    <3>1. PICK d \in Calls : Of(d)' = e /\ pc'[d] \in Moving
      BY <2>2
    <3>2. CASE d = c
      BY <3>1, <3>2
    <3>3. CASE d # c
      BY <1>1, <3>1, <3>3 DEF Takes
    <3> QED
      BY <3>2, <3>3
  <2>3. CASE \E m \in Amendments : amendment'[m].booking = e /\ HoldsSeats(m)'
    BY <2>3
  <2> QED
    BY <1>8, <2>1, <2>2, <2>3 DEF Takes
<1> QED
  BY <1>7, <1>8 DEF Taken

\* A step of FlightBooking leaves the amendments alone.
LEMMA HoldsStay ==
    ASSUME AmendmentInv, NEW c \in Calls, Apart(c), UNCHANGED amendmentVars,
           pc[c] \notin AmendmentSteps
    PROVE  \A m \in Amendments : /\ HoldsSeats(m)' => HoldsSeats(m)
                                 /\ amendment'[m] = amendment[m]
<1>1. UNCHANGED <<amendment, desk>> /\ At(c) = None /\ At(c)' = None
  BY Known DEF amendmentVars, At
<1>2. ASSUME NEW m \in Amendments PROVE HoldsSeats(m)' <=> HoldsSeats(m)
  <2>1. \A d \in Calls : At(d)' = At(d) /\ (At(d) = m => pc'[d] = pc[d])
    BY <1>1, Known DEF Apart
  <2> QED
    BY <1>1, <2>1 DEF HoldsSeats, Holding, Freeing
<1> QED
  BY <1>1, <1>2

LEMMA FlightSeats ==
    ASSUME AmendmentInv, ReleaseKnown, NEW c \in Calls, Apart(c), NEW b \in Bookings \cup {None},
           UNCHANGED amendmentVars, pc[c] \notin AmendmentSteps,
           \A e \in Bookings \ {b} : doc'[e] = doc[e],
           pc'[c] \in Moving => Of(c)' = b /\ b \in Bookings,
           b \in Bookings =>
              /\ doc[b].status = "EXPIRED" => doc'[b].status = "EXPIRED" /\ pc'[c] # "release"
              /\ pc'[c] = "release" => doc'[b].status = "EXPIRED"
              /\ doc'[b].status \in Occupying \/ pc'[c] \in Moving => Takes(b)
    PROVE  ReleaseKnown' /\ Taken' \subseteq Taken
<1>1. \A m \in Amendments : amendment'[m].booking \in Bookings /\ HoldsSeats(m)' =>
         Takes(amendment'[m].booking)
  BY HoldsStay DEF Takes
<1> QED
  BY <1>1, SeatStep

-----------------------------------------------------------------------------
(* The operations of FlightBooking *)

LEMMA OneCallMoves ==
    ASSUME AmendmentInv, NEW c \in Calls, NEW step \in Steps \cup AmendmentSteps, Goto(c, step),
           \A d \in Calls \ {c} : call'[d] = call[d] /\ desk'[d] = desk[d]
    PROVE  Apart(c) /\ pc'[c] = step
<1>1. pc'[c] = step /\ \A d \in Calls \ {c} : pc'[d] = pc[d]
  BY Known DEF Goto
<1> QED
  BY <1>1 DEF Apart, Of, At

LEMMA BeginDoes ==
    ASSUME AmendmentInv, NEW c \in Calls, NEW b, NEW status, NEW step, Begin(c, b, status, step)
    PROVE  Goto(c, step) /\ Of(c)' = b /\ \A d \in Calls \ {c} : call'[d] = call[d]
<1>1. PICK k : k = [NoCall EXCEPT !.booking = b, !.seen = status]
  OBVIOUS
<1>2. k.booking = b
  BY <1>1 DEF NoCall
<1> QED
  BY <1>1, <1>2, Known DEF Begin, Of

\* Steps that neither write a document nor touch the seats of the inventory.
LEMMA QuietSeats ==
    ASSUME AmendmentInv, ReleaseKnown, NEW c \in Calls, pc[c] \notin AmendmentSteps,
           UNCHANGED amendmentVars,
           \/ ReleaseSeats(c) \/ IssueConflict(c) \/ FeeRefused(c) \/ EditRefused(c) \/ Crash(c)
           \/ \E total \in NewTotals : SaveInventory(c, total)
           \/ Debit(c) \/ DebitFails(c) \/ RouteToSupplier(c) \/ Ticket(c) \/ TicketFails(c)
           \/ RefundTicket(c) \/ CancelSeats(c) \/ CancelAtSupplier(c) \/ RefundCancelled(c)
           \/ ChargeFee(c)
           \/ ReadInventory(c) \/ \E b \in Bookings : ReadManual(c, b) \/ ReadForCancel(c, b)
    PROVE  Apart(c) /\ pc'[c] \notin Moving /\ ReleaseKnown' /\ Taken' \subseteq Taken
<1>1. UNCHANGED doc
  BY DEF ReleaseSeats, IssueConflict, FeeRefused, EditRefused, Crash, SaveInventory, Debit, DebitFails,
     RouteToSupplier, Ticket, TicketFails, RefundTicket, CancelSeats, CancelAtSupplier,
     RefundCancelled, ChargeFee, ReadInventory, ReadManual, ReadForCancel
<1>2. PICK step \in Steps \cup AmendmentSteps : Goto(c, step) /\ step \notin Moving
  <2>1. CASE \/ ReleaseSeats(c) \/ IssueConflict(c) \/ FeeRefused(c) \/ EditRefused(c) \/ Crash(c)
             \/ \E total \in NewTotals : SaveInventory(c, total)
    BY <2>1, IdleFits DEF ReleaseSeats, IssueConflict, FeeRefused, EditRefused, Crash, SaveInventory,
       Leave, Moving
  <2>2. CASE \/ Debit(c) \/ DebitFails(c) \/ RouteToSupplier(c) \/ Ticket(c) \/ TicketFails(c)
             \/ RefundTicket(c)
    BY <2>2 DEF Debit, DebitFails, RouteToSupplier, Ticket, TicketFails, RefundTicket, Steps, Moving
  <2>3. CASE CancelSeats(c) \/ CancelAtSupplier(c) \/ RefundCancelled(c) \/ ChargeFee(c)
    BY <2>3 DEF CancelSeats, CancelAtSupplier, RefundCancelled, ChargeFee, Steps, Moving
  <2>4. CASE ReadInventory(c) \/ \E b \in Bookings : ReadManual(c, b) \/ ReadForCancel(c, b)
    <3>1. Goto(c, "edit") \/ Goto(c, "issue") \/ Goto(c, "request")
      BY <2>4 DEF ReadInventory, ReadManual, ReadForCancel, Begin
    <3> QED
      BY <3>1 DEF Steps, Moving
  <2> QED
    BY <2>1, <2>2, <2>3, <2>4
<1>3. UNCHANGED desk
  BY DEF amendmentVars
<1>4. \A d \in Calls \ {c} : call'[d] = call[d]
  <2>1. CASE UNCHANGED call
    BY <2>1
  <2>2. CASE \E k : call' = [call EXCEPT ![c] = k]
    BY <2>2, Known
  <2>3. CASE CancelAtSupplier(c) \/ RefundCancelled(c)
    BY <2>3, Known DEF CancelAtSupplier, RefundCancelled
  <2>4. CASE ReadInventory(c) \/ \E b \in Bookings : ReadManual(c, b) \/ ReadForCancel(c, b)
    BY <2>4, Known DEF ReadInventory, ReadManual, ReadForCancel, Begin
  <2>5. CASE \/ ReleaseSeats(c) \/ IssueConflict(c) \/ FeeRefused(c) \/ EditRefused(c) \/ Crash(c)
             \/ \E total \in NewTotals : SaveInventory(c, total)
    BY <2>5, <2>2 DEF ReleaseSeats, IssueConflict, FeeRefused, EditRefused, Crash, SaveInventory, Leave
  <2>6. CASE \/ Debit(c) \/ DebitFails(c) \/ RouteToSupplier(c) \/ Ticket(c) \/ TicketFails(c)
             \/ RefundTicket(c) \/ CancelSeats(c) \/ ChargeFee(c)
    BY <2>6, <2>1 DEF Debit, DebitFails, RouteToSupplier, Ticket, TicketFails, RefundTicket,
       CancelSeats, ChargeFee
  <2> QED
    BY <2>3, <2>4, <2>5, <2>6
<1>5. Apart(c) /\ pc'[c] \notin Moving
  BY <1>2, <1>3, <1>4, OneCallMoves
<1>6. None \notin Bookings /\ \A e \in Bookings \ {None} : doc'[e] = doc[e]
  BY <1>1, Known
<1> QED
  BY <1>5, <1>6, FlightSeats

\* A call takes the hold of b over, or its creator makes it one.
LEMMA HoldSeatsMove ==
    ASSUME AmendmentInv, ReleaseKnown, NEW c \in Calls, pc[c] \notin AmendmentSteps,
           UNCHANGED amendmentVars,
           CreateBooking(c) \/ \E b \in Bookings : ExpireHold(c, b) \/ Claim(c, b)
    PROVE  ReleaseKnown' /\ Taken' \subseteq Taken
<1>0. UNCHANGED desk
  BY DEF amendmentVars
<1>1. CASE CreateBooking(c)
  <2>1. PICK b \in Bookings : b = Of(c)
    BY <1>1, Known DEF CreateBooking
  <2>2. doc[b].status = "NONE" /\ Takes(b)
    BY <1>1, <2>1, Known DEF CreateBooking, CreatorKnown, Takes, Moving
  <2>3. /\ Goto(c, "idle") /\ \A d \in Calls \ {c} : call'[d] = call[d]
        /\ \A e \in Bookings \ {b} : doc'[e] = doc[e]
    BY <1>1, <2>1, Known DEF CreateBooking, Leave
  <2>4. Apart(c) /\ pc'[c] = "idle"
    BY <1>0, <2>3, IdleFits, OneCallMoves
  <2>5. pc'[c] \notin Moving
    BY <2>4 DEF Moving
  <2> QED
    BY <2>2, <2>3, <2>4, <2>5, FlightSeats
<1>2. ASSUME NEW b \in Bookings, ExpireHold(c, b) \/ Claim(c, b)
      PROVE  ReleaseKnown' /\ Taken' \subseteq Taken
  <2>1. doc[b].status = "HOLD" /\ Takes(b)
    BY <1>2 DEF ExpireHold, StillHeld, Claim, Claimable, Takes, Occupying
  <2>2. PICK step \in {"release", "lapsed", "debit"} :
           /\ Goto(c, step) /\ Of(c)' = b
           /\ \A d \in Calls \ {c} : call'[d] = call[d]
           /\ \A e \in Bookings \ {b} : doc'[e] = doc[e]
           /\ step = "release" => doc'[b].status = "EXPIRED"
    <3>1. CASE ExpireHold(c, b)
      <4>1. doc' = [doc EXCEPT ![b].status = "EXPIRED"] /\ Begin(c, b, "EXPIRED", "release")
        BY <3>1 DEF ExpireHold
      <4>2. doc'[b].status = "EXPIRED" /\ \A e \in Bookings \ {b} : doc'[e] = doc[e]
        BY <4>1, Known DEF Document
      <4> QED
        BY <4>1, <4>2, BeginDoes
    <3>2. CASE Claim(c, b)
      <4>1. PICK step \in {"lapsed", "debit"} : Begin(c, b, "TICKETING_IN_PROGRESS", step)
        BY <3>2 DEF Claim
      <4>2. \A e \in Bookings \ {b} : doc'[e] = doc[e]
        BY <3>2, Known DEF Claim
      <4> QED
        BY <4>1, <4>2, BeginDoes
    <3> QED
      BY <1>2, <3>1, <3>2
  <2>3. Apart(c) /\ pc'[c] = step
    BY <1>0, <2>2, OneCallMoves DEF Steps
  <2> QED
    BY <2>1, <2>2, <2>3, FlightSeats DEF Moving
<1> QED
  BY <1>1, <1>2

LEMMA SavesMove ==
    ASSUME AmendmentInv, ReleaseKnown, clobbered' = {}, NEW c \in Calls, pc[c] \notin AmendmentSteps,
           UNCHANGED amendmentVars,
           \/ BackToHold(c) \/ RouteToManual(c) \/ SaveTicketed(c) \/ SaveFailed(c)
           \/ IssueManually(c) \/ SaveCancelled(c) \/ Lapsed(c) \/ RequestCancel(c)
    PROVE  ReleaseKnown' /\ Taken' \subseteq Taken
<1>1. PICK b \in Bookings : b = Of(c)
  BY Known DEF BackToHold, Undo, RouteToManual, SaveTicketed, SaveFailed, IssueManually,
     SaveCancelled, Lapsed, RequestCancel
<1>2. PICK new \in Document, step \in {"idle", "release", "cancelSeats"}, k \in Call :
         /\ Save(c, new)
         /\ new.status = "TICKETED" => new.numbered
         /\ \/ /\ step = "idle"
               /\ \/ pc[c] = "undo" /\ new.status = "HOLD"
                  \/ pc[c] = "route" /\ new.status = "PENDING_MANUAL"
                  \/ pc[c] \in {"ticketed", "issue"} /\ new.status = "TICKETED"
                  \/ pc[c] = "failed" /\ new.status = "FAILED"
                  \/ pc[c] = "cancelled" /\ new.status = "CANCELLED"
            \/ pc[c] = "lapsed" /\ new.status = "EXPIRED" /\ step = "release"
            \/ pc[c] = "request" /\ new.status = "CANCEL_REQUESTED" /\ step = "cancelSeats"
         /\ Goes(c, step, k, None)
         /\ Of(c)' = IF step = "idle" THEN None ELSE b
  BY <1>1, FlightWrites
<1>3. /\ doc'[b] = new /\ doc[b].status = call[c].seen
      /\ \A e \in Bookings \ {b} : doc'[e] = doc[e]
  BY <1>1, <1>2, SaveDoes
<1>4. CallMatches(pc[c], call[c])
  BY Known
<1>5. /\ doc[b].status # "EXPIRED"
      /\ new.status \in Occupying \/ step \in Moving => doc[b].status \in Occupying
  BY <1>2, <1>3, <1>4 DEF CallMatches, Occupying, Moving, ClaimSteps, UnpaidSteps, PaidSteps, CancelSteps
<1>6. Apart(c) /\ pc'[c] = step
  BY <1>2 DEF Goes
<1> QED
  BY <1>1, <1>2, <1>3, <1>5, <1>6, FlightSeats DEF Takes, Moving

\* The steps that give seats back.
LEMMA ReleaseGives ==
    ASSUME AmendmentInv, AmendmentInv', ReleaseKnown, Undisturbed, SeatsFit,
           NEW c \in Calls, pc[c] \notin AmendmentSteps, UNCHANGED amendmentVars,
           ReleaseSeats(c) \/ CancelSeats(c)
    PROVE  SeatsFit'
<1>1. PICK b \in Bookings : b = Of(c)
  BY Known DEF ReleaseSeats, CancelSeats
<1>2. pc[c] \in {"release", "cancelSeats"} /\ Release(b) /\ UNCHANGED doc
  BY <1>1 DEF ReleaseSeats, CancelSeats
<1>3. Apart(c) /\ pc'[c] \notin Moving /\ Taken' \subseteq Taken
  BY QuietSeats
<1>4. CreatorKnown(b) /\ LockKnown(b)
  BY UndisturbedKnown
<1>5. /\ pc[c] = "release" => doc[b].status = "EXPIRED"
      /\ pc[c] = "cancelSeats" => doc[b].status = "CANCEL_REQUESTED"
  BY <1>1, <1>4 DEF ReleaseKnown, LockKnown, WorkKnown, CancelSteps
<1>6. doc'[b].status \notin Occupying
  BY <1>2, <1>5 DEF Occupying
<1>7. ASSUME NEW d \in Calls, d # c, Of(d) = b, pc[d] \in Moving
      PROVE  FALSE
  <2>1. pc[d] # "create"
    BY <1>2, <1>4, <1>5, <1>7 DEF CreatorKnown
  <2>2. pc[d] = "release" => doc[b].status = "EXPIRED" /\ pc[c] # "release"
    BY <1>1, <1>7 DEF ReleaseKnown
  <2>3. pc[d] = "cancelSeats" => doc[b].status = "CANCEL_REQUESTED" /\ pc[c] # "cancelSeats"
    BY <1>1, <1>4, <1>7 DEF LockKnown, WorkKnown, CancelSteps
  <2> QED
    BY <1>2, <1>5, <1>7, <2>1, <2>2, <2>3 DEF Moving
<1>8. \A d \in Calls : ~(Of(d)' = b /\ pc'[d] \in Moving)
  BY <1>3, <1>7 DEF Apart
<1>9. \A m \in Amendments : ~(amendment[m].booking = b /\ Holding(m))
  BY <1>1, <1>2, <1>4, <1>5 DEF LockKnown, HeldKnown, CancelSteps
<1>10. \A m \in Amendments : ~(amendment'[m].booking = b /\ HoldsSeats(m)')
  BY <1>3, <1>9, HoldsStay DEF HoldsSeats
<1>11. b \notin Taken'
  BY <1>6, <1>8, <1>10 DEF Taken, Takes
<1>12. b \in Taken /\ Taken' \subseteq Taken \ {b}
  BY <1>1, <1>2, <1>3, <1>11 DEF Taken, Takes, Moving
<1> QED
  BY <1>2, <1>12, SeatsGiven

\* holdBooking sells the seats of a booking nobody knows of yet.
LEMMA HoldSells ==
    ASSUME AmendmentInv, AmendmentInv', ReleaseKnown, SeatsFit,
           NEW c \in Calls, pc[c] \notin AmendmentSteps, UNCHANGED amendmentVars,
           NEW b \in Bookings, HoldSeats(c, b)
    PROVE  ReleaseKnown' /\ SeatsFit'
<1>1. /\ SeatsLeft(b) /\ inventory' = [inventory EXCEPT !.seats = @ - SeatsOf[b]]
      /\ UNCHANGED doc /\ UNCHANGED desk /\ Begin(c, b, "NONE", "create")
  BY DEF HoldSeats, amendmentVars
<1>2. Apart(c) /\ pc'[c] = "create" /\ Of(c)' = b
  BY <1>1, BeginDoes, OneCallMoves DEF Steps
<1>3. \A d \in Calls : pc'[d] = "release" => d # c /\ pc[d] = "release" /\ Of(d)' = Of(d)
  BY <1>2 DEF Apart
<1>4. ReleaseKnown'
  BY <1>1, <1>3 DEF ReleaseKnown
<1>5. ASSUME NEW e \in Bookings, e # b, Takes(e)' PROVE Takes(e)
  <2>1. \A d \in Calls : Of(d)' = e => d # c /\ Of(d) = e /\ pc'[d] = pc[d]
    BY <1>2, <1>5 DEF Apart
  <2>2. \A m \in Amendments : /\ HoldsSeats(m)' => HoldsSeats(m)
                              /\ amendment'[m] = amendment[m]
    BY <1>2, HoldsStay
  <2> QED
    BY <1>1, <1>5, <2>1, <2>2 DEF Takes
<1>6. Taken' \subseteq Taken \cup {b}
  BY <1>5 DEF Taken
<1> QED
  BY <1>1, <1>4, <1>6, SeatsSold

\* updateInventory changes the total and the seats left by the same.
LEMMA EditKeeps ==
    ASSUME AmendmentInv, AmendmentInv', SeatsFit, clobbered' = {}, NEW c \in Calls,
           NEW total \in NewTotals, SaveInventory(c, total), Taken' \subseteq Taken
    PROVE  SeatsFit'
<1>1. /\ call[c].total \in Nat /\ call[c].seats \in Nat /\ total \in Nat
      /\ inventory.total \in Nat /\ inventory.seats \in Nat
  BY Known, SeatsTyped, BookingAssumption DEF Call
<1>2. CASE UNCHANGED inventory
  BY <1>2, SeatsKept
<1>3. CASE inventory' # inventory
  <2>1. /\ inventory' = [total |-> total, seats |-> total - (call[c].total - call[c].seats)]
        /\ inventory = [total |-> call[c].total, seats |-> call[c].seats]
    BY <1>3 DEF SaveInventory
  <2>2. /\ inventory'.total = total /\ inventory'.seats = total - (call[c].total - call[c].seats)
        /\ inventory.total = call[c].total /\ inventory.seats = call[c].seats
    BY <2>1
  <2>3. inventory'.total - inventory'.seats = inventory.total - inventory.seats
    BY <1>1, <2>2
  <2> QED
    BY <2>3, SeatsKept
<1> QED
  BY <1>2, <1>3

-----------------------------------------------------------------------------
(* The operations of FlightAmendment *)

LEMMA DeskSeats ==
    ASSUME AmendmentInv, ReleaseKnown, NEW c \in Calls, Apart(c), NEW b \in Bookings,
           NEW m \in Amendments, pc'[c] \notin Moving,
           \A e \in Bookings \ {b} : doc'[e] = doc[e],
           \A n \in Amendments \ {m} : amendment'[n] = amendment[n],
           At(c) \in {m, None}, At(c)' \in {m, None},
           doc[b].status = "EXPIRED" => doc'[b].status = "EXPIRED",
           doc'[b].status \in Occupying => Takes(b),
           HoldsSeats(m)' => amendment'[m].booking = b /\ Takes(b)
    PROVE  ReleaseKnown' /\ Taken' \subseteq Taken
<1>1. ASSUME NEW n \in Amendments \ {m} PROVE HoldsSeats(n)' => HoldsSeats(n)
  <2>1. At(c) # n /\ At(c)' # n
    BY Known
  <2>2. \A d \in Calls : (At(d)' = n <=> At(d) = n) /\ (At(d) = n => pc'[d] = pc[d])
    BY <2>1 DEF Apart
  <2> QED
    BY <2>2 DEF HoldsSeats, Holding, Freeing
<1>2. \A n \in Amendments : amendment'[n].booking \in Bookings /\ HoldsSeats(n)' =>
         Takes(amendment'[n].booking)
  BY <1>1 DEF Takes
<1>3. pc'[c] # "release"
  BY DEF Moving
<1> QED
  BY <1>2, <1>3, SeatStep

\* Where a decision is, and what it knows.
LEMMA DeskAlone ==
    ASSUME AmendmentInv, Undisturbed, NEW c \in Calls, pc[c] \in AmendmentSteps, pc[c] # "amend"
    PROVE  /\ At(c) \in Amendments /\ Of(c) \in Bookings /\ amendment[At(c)].booking = Of(c)
           /\ RefundTold(At(c)) /\ \A d \in Calls : At(d) = At(c) => d = c
           /\ LockKnown(Of(c))
BY AtDesk, UndisturbedKnown DEF RefundTold

\* A decision that still holds its booking keeps its seats.
LEMMA DecidingHolds ==
    ASSUME AmendmentInv, Undisturbed, NEW c \in Calls, pc[c] \in Deciding \cup {"rollback"},
           Freeing(At(c))
    PROVE  /\ Holding(At(c))
           /\ pc[c] # "amendBooking" => HoldsSeats(At(c)) /\ Takes(Of(c))
<1>1. pc[c] \in AmendmentSteps /\ pc[c] # "amend"
  BY DEF Deciding, AmendmentSteps
<1>2. /\ At(c) \in Amendments /\ amendment[At(c)].booking = Of(c)
      /\ RefundTold(At(c)) /\ \A d \in Calls : At(d) = At(c) => d = c
  BY <1>1, DeskAlone
<1>3. Holding(At(c))
  BY <1>2 DEF Holding, RefundTold, Deciding
<1> QED
  BY <1>2, <1>3 DEF HoldsSeats, Takes

LEMMA NobodyAtDesk ==
    ASSUME NEW c \in Calls, NEW m, Apart(c), At(c)' # m, \A d \in Calls \ {c} : At(d) # m,
           amendment'[m].status # "PENDING_APPROVAL"
    PROVE  ~HoldsSeats(m)'
BY DEF Apart, HoldsSeats, Holding

\* The steps that leave the documents of the bookings alone.
LEMMA DeskReadsSeats ==
    ASSUME AmendmentInv, ReleaseKnown, Undisturbed, Undisturbed', NEW c \in Calls,
           NEW m \in Amendments, ReadAmendment(c, m) \/ \E b \in Bookings : ReadToAmend(c, m, b)
    PROVE  ReleaseKnown' /\ Taken' \subseteq Taken
<1>1. CASE ReadAmendment(c, m)
  <2>1. PICK b \in Bookings : b = amendment[m].booking
    BY <1>1, Known DEF ReadAmendment, Open, Drafted, AmendmentInv, Typed, AmendmentTypeOK
  <2>2. /\ UNCHANGED <<doc, amendment>> /\ desk' = [desk EXCEPT ![c] = m]
        /\ amendment[m].status = "PENDING_APPROVAL" /\ \A d \in Calls : At(d) # m
    BY <1>1 DEF ReadAmendment, Open, Undisturbed
  <2>3. PICK step \in {"approve", "reject"} :
           Goto(c, step) /\ \A d \in Calls \ {c} : call'[d] = call[d]
    BY <1>1, Known DEF ReadAmendment
  <2>4. Apart(c) /\ pc'[c] = step /\ At(c) = None /\ At(c)' = m
    <3>1. step \in Steps \cup AmendmentSteps /\ pc[c] \notin AmendmentSteps
      BY <1>1 DEF ReadAmendment, AmendmentSteps
    <3>2. \A d \in Calls \ {c} : desk'[d] = desk[d]
      BY <2>2, Known
    <3>3. Apart(c) /\ pc'[c] = step
      BY <2>3, <3>1, <3>2, OneCallMoves
    <3> QED
      BY <2>2, <3>1, <3>3, Known DEF At
  <2>5. HoldsSeats(m)' => Takes(b)
    <3>1. Freeing(m)' <=> Freeing(m)
      BY <2>2 DEF Freeing
    <3> QED
      BY <2>1, <2>2, <3>1 DEF HoldsSeats, Holding, Takes
  <2> QED
    BY <2>1, <2>2, <2>4, <2>5, DeskSeats DEF Takes, Moving
<1>2. ASSUME NEW b \in Bookings, ReadToAmend(c, m, b)
      PROVE  ReleaseKnown' /\ Taken' \subseteq Taken
  <2>1. /\ UNCHANGED <<doc, amendment>> /\ desk' = [desk EXCEPT ![c] = m]
        /\ amendment[m].status = "NONE" /\ \A d \in Calls : At(d) # m
        /\ Begin(c, b, doc[b].status, "amend")
    BY <1>2 DEF ReadToAmend
  <2>2. Apart(c) /\ pc'[c] = "amend" /\ At(c) = None /\ At(c)' = m
    <3>1. "amend" \in Steps \cup AmendmentSteps /\ pc[c] \notin AmendmentSteps
      BY <2>1 DEF Begin, AmendmentSteps
    <3>2. \A d \in Calls \ {c} : desk'[d] = desk[d]
      BY <2>1, Known
    <3>3. Apart(c) /\ pc'[c] = "amend"
      BY <2>1, <3>1, <3>2, BeginDoes, OneCallMoves
    <3> QED
      BY <2>1, <3>1, <3>3, Known DEF At
  <2>3. ~HoldsSeats(m)'
    BY <2>1, <2>2 DEF Apart, HoldsSeats, Holding
  <2> QED
    BY <2>1, <2>2, <2>3, DeskSeats DEF Takes, Moving
<1> QED
  BY <1>1, <1>2

LEMMA DeskMovesSeats ==
    ASSUME AmendmentInv, ReleaseKnown, Undisturbed, NEW c \in Calls,
           RefundAmended(c) \/ FeeAmended(c)
    PROVE  ReleaseKnown' /\ Taken' \subseteq Taken
<1>1. pc[c] \in {"approve", "amendFee"} /\ pc[c] \in AmendmentSteps /\ pc[c] \in Deciding
  BY DEF RefundAmended, FeeAmended, AmendmentSteps, Deciding
<1>2. PICK m \in Amendments, b \in Bookings : m = At(c) /\ b = Of(c) /\ amendment[m].booking = b
  BY <1>1, DeskAlone
<1>3. /\ UNCHANGED <<doc, desk, call>>
      /\ amendment'[m].booking = b /\ amendment'[m].type = amendment[m].type
      /\ \A n \in Amendments \ {m} : amendment'[n] = amendment[n]
  BY <1>1, <1>2 DEF RefundAmended, FeeAmended, amendmentVars, AmendmentInv, Typed, AmendmentTypeOK
<1>4. PICK step \in {"amendFee", "amendSeats", "settle"} : Goto(c, step)
  BY DEF RefundAmended, FeeAmended
<1>5. Apart(c) /\ pc'[c] = step /\ At(c)' = m
  BY <1>2, <1>3, <1>4, OneCallMoves DEF AmendmentSteps, At
<1>6. HoldsSeats(m)' => Takes(b)
  <2>1. HoldsSeats(m)' => Freeing(m)
    BY <1>3 DEF HoldsSeats, Holding, Freeing
  <2> QED
    BY <1>1, <1>2, <2>1, DecidingHolds
<1> QED
  BY <1>2, <1>3, <1>5, <1>6, DeskSeats DEF Takes, Moving

LEMMA CreateAmendmentSeats ==
    ASSUME AmendmentInv, ReleaseKnown, NEW c \in Calls, CreateAmendment(c)
    PROVE  ReleaseKnown' /\ Taken' \subseteq Taken
<1>1. pc[c] = "amend" /\ pc[c] \in AmendmentSteps
  BY DEF CreateAmendment, AmendmentSteps
<1>2. PICK m \in Amendments, b \in Bookings :
         m = At(c) /\ b = Of(c) /\ \A d \in Calls : At(d) = m => d = c
  BY <1>1, AtDesk
<1>3. /\ UNCHANGED <<doc, desk, call>> /\ Goto(c, "lock")
      /\ \A n \in Amendments \ {m} : amendment'[n] = amendment[n]
  BY <1>2 DEF CreateAmendment, AmendmentInv, Typed, AmendmentTypeOK
<1>4. Apart(c) /\ pc'[c] = "lock" /\ At(c)' = m
  BY <1>2, <1>3, OneCallMoves DEF AmendmentSteps, At
<1>5. ~HoldsSeats(m)'
  BY <1>2, <1>4 DEF Apart, HoldsSeats, Holding
<1> QED
  BY <1>2, <1>3, <1>4, <1>5, DeskSeats DEF Takes, Moving

LEMMA DeskEndsSeats ==
    ASSUME AmendmentInv, ReleaseKnown, Undisturbed, Undisturbed', NEW c \in Calls,
           \/ RefundRefused(c) \/ SettleAmendment(c) \/ CrashAtDesk(c)
           \/ RejectAmendment(c) /\ call[c].seen # "CANCEL_REQUESTED"
    PROVE  ReleaseKnown' /\ Taken' \subseteq Taken
<1>0. CrashAtDesk(c) => pc[c] = "amend"
  <2> SUFFICES ASSUME CrashAtDesk(c) PROVE pc[c] = "amend"
    OBVIOUS
  <2>1. At(c) # None
    BY Known, AtDesk DEF CrashAtDesk
  <2> QED
    BY <2>1 DEF CrashAtDesk, Undisturbed
<1>1. /\ pc[c] \in AmendmentSteps /\ UNCHANGED doc /\ LeaveDesk(c)
      /\ CrashAtDesk(c) => pc[c] = "amend"
  <2>1. CASE CrashAtDesk(c)
    BY <1>0, <2>1 DEF CrashAtDesk
  <2>2. CASE RefundRefused(c) \/ SettleAmendment(c)
    BY <1>0, <2>2 DEF RefundRefused, SettleAmendment, AmendmentSteps
  <2>3. CASE RejectAmendment(c) /\ call[c].seen # "CANCEL_REQUESTED"
    BY <1>0, <2>3 DEF RejectAmendment, AmendmentSteps
  <2> QED
    BY <2>1, <2>2, <2>3
<1>2. PICK m \in Amendments, b \in Bookings :
         m = At(c) /\ b = Of(c) /\ \A d \in Calls : At(d) = m => d = c
  BY <1>1, AtDesk, DeskAlone
<1>3. Apart(c) /\ pc'[c] = "idle" /\ At(c)' = None
  BY <1>1, LeaveGoes DEF LeaveDesk, Goes
<1>4. /\ \A n \in Amendments \ {m} : amendment'[n] = amendment[n]
      /\ amendment'[m].status # "PENDING_APPROVAL"
  <2>1. CASE CrashAtDesk(c)
    <3>1. amendment[m].status = "NONE" /\ UNCHANGED amendment
      BY <1>1, <1>2, <2>1, AtDesk DEF CrashAtDesk
    <3> QED
      BY <3>1
  <2>2. CASE ~CrashAtDesk(c)
    <3>1. PICK status \in {"FAILED", "COMPLETED", "REJECTED"} : Decide(c, status)
      BY <2>2 DEF RefundRefused, SettleAmendment, RejectAmendment
    <3> QED
      BY <1>2, <3>1 DEF Decide, AmendmentInv, Typed, AmendmentTypeOK
  <2> QED
    BY <2>1, <2>2
<1>5. ~HoldsSeats(m)'
  BY <1>2, <1>3, <1>4, NobodyAtDesk, Known
<1> QED
  BY <1>1, <1>2, <1>3, <1>4, <1>5, DeskSeats DEF Takes, Moving

\* A rejection keeps the seats until it has rolled the booking back.
LEMMA RejectSeats ==
    ASSUME AmendmentInv, ReleaseKnown, Undisturbed, NEW c \in Calls, RejectAmendment(c),
           call[c].seen = "CANCEL_REQUESTED"
    PROVE  ReleaseKnown' /\ Taken' \subseteq Taken
<1>1. pc[c] = "reject" /\ pc[c] \in AmendmentSteps /\ pc[c] \in Deciding
  BY DEF RejectAmendment, AmendmentSteps, Deciding
<1>2. PICK m \in Amendments, b \in Bookings : m = At(c) /\ b = Of(c) /\ amendment[m].booking = b
  BY <1>1, DeskAlone
<1>3. /\ UNCHANGED <<doc, desk, call>> /\ Goto(c, "rollback") /\ Decide(c, "REJECTED")
  BY DEF RejectAmendment
<1>4. /\ amendment'[m].booking = b
      /\ \A n \in Amendments \ {m} : amendment'[n] = amendment[n]
  BY <1>2, <1>3 DEF Decide, AmendmentInv, Typed, AmendmentTypeOK
<1>5. Apart(c) /\ pc'[c] = "rollback" /\ At(c)' = m
  BY <1>2, <1>3, OneCallMoves DEF AmendmentSteps, At
<1>6. Takes(b)
  <2>1. Freeing(m)
    BY <1>1, <1>2, DeskAlone DEF LockKnown, SeenKnown
  <2> QED
    BY <1>1, <1>2, <2>1, DecidingHolds
<1> QED
  BY <1>2, <1>3, <1>4, <1>5, <1>6, DeskSeats DEF Moving

\* The saves.
LEMMA LockSeats ==
    ASSUME AmendmentInv, ReleaseKnown, Undisturbed, Undisturbed', NEW c \in Calls, LockBooking(c)
    PROVE  ReleaseKnown' /\ Taken' \subseteq Taken
<1>1. pc[c] = "lock" /\ pc[c] \in AmendmentSteps
  BY DEF LockBooking, AmendmentSteps
<1>2. PICK m \in Amendments, b \in Bookings :
         m = At(c) /\ b = Of(c) /\ amendment[m].booking = b /\ LockKnown(b)
  BY <1>1, DeskAlone
<1>3. LeaveDesk(c) /\ UNCHANGED amendment
  BY DEF LockBooking
<1>4. Apart(c) /\ pc'[c] = "idle" /\ At(c)' = None
  BY <1>3, LeaveGoes DEF LeaveDesk, Goes
<1>5. call[c].seen \in {"HOLD", "TICKETED"}
  BY <1>1, <1>2 DEF LockKnown, SeenKnown
<1>6. CASE Freeing(m)
  <2>1. PICK new : new = [doc[b] EXCEPT !.status = "CANCEL_REQUESTED"]
    OBVIOUS
  <2>2. new \in Document /\ new.status = "CANCEL_REQUESTED"
    BY <2>1, Known DEF Document, Statuses
  <2>3. Save(c, new)
    BY <1>2, <1>5, <1>6, <2>1 DEF LockBooking, Frees, Freeing
  <2>4. /\ doc'[b] = new /\ doc[b].status = call[c].seen
        /\ \A e \in Bookings \ {b} : doc'[e] = doc[e]
    BY <1>2, <2>2, <2>3, SaveDoes DEF Undisturbed
  <2>5. Takes(b) /\ doc[b].status # "EXPIRED"
    BY <1>5, <2>4 DEF Takes, Occupying
  <2> QED
    BY <1>2, <1>3, <1>4, <2>4, <2>5, DeskSeats DEF Moving
<1>7. CASE ~Freeing(m)
  <2>1. UNCHANGED doc
    BY <1>2, <1>7 DEF LockBooking, Frees, Freeing
  <2>2. ~HoldsSeats(m)'
    BY <1>3, <1>7 DEF HoldsSeats, Holding, Freeing
  <2> QED
    BY <1>2, <1>3, <1>4, <2>1, <2>2, DeskSeats DEF Takes, Moving
<1> QED
  BY <1>6, <1>7

LEMMA CancelAmendedSeats ==
    ASSUME AmendmentInv, ReleaseKnown, Undisturbed, Undisturbed', NEW c \in Calls, CancelAmended(c)
    PROVE  ReleaseKnown' /\ Taken' \subseteq Taken
<1>1. pc[c] = "amendBooking" /\ pc[c] \in AmendmentSteps /\ pc[c] \in Deciding
  BY DEF CancelAmended, AmendmentSteps, Deciding
<1>2. PICK m \in Amendments, b \in Bookings :
         /\ m = At(c) /\ b = Of(c) /\ amendment[m].booking = b /\ LockKnown(b)
         /\ RefundTold(m) /\ \A d \in Calls : At(d) = m => d = c
  BY <1>1, DeskAlone
<1>3. PICK new : new = [doc[b] EXCEPT !.status = "CANCELLED", !.payment = "REFUNDED"]
  OBVIOUS
<1>4. new \in Document /\ new.status = "CANCELLED"
  BY <1>3, Known DEF Document, Statuses
<1>5. /\ Save(c, new) /\ Goto(c, "settle") /\ UNCHANGED <<desk, amendment>>
      /\ \A d \in Calls \ {c} : call'[d] = call[d]
  BY <1>2, <1>3, <1>4, Known DEF CancelAmended, SaveAndGo, amendmentVars
<1>6. doc'[b] = new /\ \A e \in Bookings \ {b} : doc'[e] = doc[e]
  BY <1>2, <1>4, <1>5, SaveDoes
<1>7. Apart(c) /\ pc'[c] = "settle" /\ At(c)' = m
  BY <1>2, <1>5, OneCallMoves DEF AmendmentSteps, At
<1>8. Holding(m) /\ doc[b].status = "CANCEL_REQUESTED"
  <2>1. Freeing(m)
    BY <1>1, <1>2, Known DEF DeskKnown
  <2>2. Holding(m)
    BY <1>1, <1>2, <2>1, DecidingHolds
  <2> QED
    BY <1>2, <2>2 DEF LockKnown, HeldKnown
<1>9. ~HoldsSeats(m)'
  BY <1>2, <1>7 DEF Apart, HoldsSeats, Holding
<1>10. doc'[b].status \notin Occupying
  BY <1>4, <1>6 DEF Occupying
<1> QED
  BY <1>2, <1>5, <1>6, <1>7, <1>8, <1>9, <1>10, DeskSeats DEF Moving

LEMMA RollBackSeats ==
    ASSUME AmendmentInv, ReleaseKnown, Undisturbed, NEW c \in Calls, RollBack(c)
    PROVE  ReleaseKnown' /\ Taken' \subseteq Taken
<1>1. pc[c] = "rollback" /\ pc[c] \in AmendmentSteps
  BY DEF RollBack, AmendmentSteps
<1>2. PICK m \in Amendments, b \in Bookings :
         m = At(c) /\ b = Of(c) /\ amendment[m].booking = b /\ LockKnown(b)
  BY <1>1, DeskAlone
<1>3. PICK new : new = [doc[b] EXCEPT !.status = Prior(b)]
  OBVIOUS
<1>4. new \in Document
  BY <1>3, Known DEF Document, Statuses, Prior
<1>5. Save(c, new) /\ LeaveDesk(c) /\ UNCHANGED amendment
  BY <1>2, <1>3 DEF RollBack
<1>6. \A e \in Bookings \ {b} : doc'[e] = doc[e]
  BY <1>2, <1>4, <1>5, SaveDoes
<1>7. Apart(c) /\ pc'[c] = "idle" /\ At(c)' = None
  BY <1>5, LeaveGoes DEF LeaveDesk, Goes
<1>8. Holding(m) /\ Takes(b) /\ doc[b].status = "CANCEL_REQUESTED"
  <2>1. Freeing(m)
    BY <1>1, <1>2 DEF LockKnown, SeenKnown
  <2>2. Holding(m) /\ Takes(b)
    BY <1>1, <1>2, <2>1, DecidingHolds
  <2> QED
    BY <1>2, <2>2 DEF LockKnown, HeldKnown
<1> QED
  BY <1>2, <1>5, <1>6, <1>7, <1>8, DeskSeats DEF Moving

\* An approval releases the seats its amendment has held.
LEMMA ApprovalGives ==
    ASSUME AmendmentInv, AmendmentInv', ReleaseKnown, Undisturbed, Undisturbed', SeatsFit,
           NEW c \in Calls, ReleaseAmended(c)
    PROVE  ReleaseKnown' /\ SeatsFit'
<1>1. pc[c] = "amendSeats" /\ pc[c] \in AmendmentSteps /\ pc[c] \in Deciding
  BY DEF ReleaseAmended, AmendmentSteps, Deciding
<1>2. PICK m \in Amendments, b \in Bookings :
         /\ m = At(c) /\ b = Of(c) /\ amendment[m].booking = b /\ LockKnown(b)
         /\ RefundTold(m) /\ \A d \in Calls : At(d) = m => d = c
  BY <1>1, DeskAlone
<1>3. /\ UNCHANGED <<doc, amendment, desk, call>> /\ Goto(c, "amendBooking") /\ Release(b)
  BY <1>2 DEF ReleaseAmended, amendmentVars
<1>4. Apart(c) /\ pc'[c] = "amendBooking" /\ At(c)' = m
  BY <1>2, <1>3, OneCallMoves DEF AmendmentSteps, At
<1>5. Holding(m) /\ Takes(b) /\ doc[b].status = "CANCEL_REQUESTED"
  <2>1. Freeing(m)
    BY <1>1, <1>2, Known DEF DeskKnown
  <2>2. Holding(m) /\ Takes(b)
    BY <1>1, <1>2, <2>1, DecidingHolds
  <2> QED
    BY <1>2, <2>2 DEF LockKnown, HeldKnown
<1>6. ~HoldsSeats(m)'
  BY <1>2, <1>4 DEF Apart, HoldsSeats, Holding
<1>7. ReleaseKnown' /\ Taken' \subseteq Taken
  BY <1>2, <1>3, <1>4, <1>5, <1>6, DeskSeats DEF Takes, Moving
<1>8. ~Takes(b)'
  <2>1. doc'[b].status \notin Occupying
    BY <1>3, <1>5 DEF Occupying
  <2>2. \A d \in Calls : ~(Of(d)' = b /\ pc'[d] \in Moving)
    <3> SUFFICES ASSUME NEW d \in Calls, Of(d)' = b, pc'[d] \in Moving PROVE FALSE
      OBVIOUS
    <3>1. d # c /\ Of(d) = b /\ pc[d] \in Moving
      BY <1>4 DEF Apart, Moving
    <3>2. pc[d] # "create"
      BY <1>5, <3>1, Known DEF CreatorKnown
    <3>3. pc[d] # "release"
      BY <1>5, <3>1 DEF ReleaseKnown
    <3>4. pc[d] # "cancelSeats"
      BY <1>2, <1>5, <3>1 DEF LockKnown, HeldKnown, CancelSteps
    <3> QED
      BY <3>1, <3>2, <3>3, <3>4 DEF Moving
  <2>3. ASSUME NEW n \in Amendments, amendment'[n].booking = b, HoldsSeats(n)' PROVE FALSE
    <3>1. n # m
      BY <1>6, <2>3
    <3>2. At(c) # n /\ At(c)' # n
      BY <1>2, <1>4, <3>1
    <3>3. \A d \in Calls : (At(d)' = n <=> At(d) = n) /\ (At(d) = n => pc'[d] = pc[d])
      BY <1>4, <3>2 DEF Apart
    <3>4. Holding(n)
      BY <1>3, <2>3, <3>3 DEF HoldsSeats, Holding, Freeing
    <3> QED
      BY <1>2, <1>3, <1>5, <2>3, <3>1, <3>4 DEF LockKnown, HeldKnown
  <2> QED
    BY <2>1, <2>2, <2>3 DEF Takes
<1>9. b \in Taken /\ Taken' \subseteq Taken \ {b}
  BY <1>5, <1>7, <1>8 DEF Taken
<1> QED
  BY <1>3, <1>7, <1>9, SeatsGiven

-----------------------------------------------------------------------------
(* The invariant *)

LEMMA UnmovedSeats ==
    ASSUME AmendmentInv, AmendmentInv', SeatsFit, Taken' \subseteq Taken, UNCHANGED inventory
    PROVE  SeatsFit'
BY SeatsKept

LEMMA FlightSeatsInv ==
    ASSUME AmendmentInv, AmendmentInv', SeatsInv, Undisturbed', NEW c \in Calls,
           pc[c] \notin AmendmentSteps, UNCHANGED amendmentVars,
           \/ Proceed(c) \/ ReadInventory(c) \/ Crash(c)
           \/ \E b \in Bookings : Start(c, b)
    PROVE  ReleaseKnown' /\ SeatsFit'
<1>1. clobbered = {}
  <2>1. CASE \/ CreateBooking(c) \/ ReleaseSeats(c) \/ Debit(c) \/ DebitFails(c) \/ RouteToSupplier(c)
             \/ Ticket(c) \/ TicketFails(c) \/ RefundTicket(c) \/ IssueConflict(c) \/ CancelSeats(c)
             \/ CancelAtSupplier(c) \/ RefundCancelled(c) \/ ChargeFee(c) \/ FeeRefused(c)
             \/ EditRefused(c) \/ ReadInventory(c) \/ Crash(c)
             \/ \E b \in Bookings : Start(c, b)
    BY <2>1 DEF Undisturbed, CreateBooking, ReleaseSeats, Debit, DebitFails, RouteToSupplier, Ticket,
       TicketFails, RefundTicket, IssueConflict, CancelSeats, CancelAtSupplier, RefundCancelled,
       ChargeFee, FeeRefused, EditRefused, ReadInventory, Crash, Start, HoldSeats, ExpireHold, Claim,
       ReadManual, ReadForCancel
  <2>2. CASE \E total \in NewTotals : SaveInventory(c, total)
    BY <2>2 DEF Undisturbed, SaveInventory
  <2>3. CASE \/ BackToHold(c) \/ RouteToManual(c) \/ SaveTicketed(c) \/ SaveFailed(c)
             \/ IssueManually(c) \/ SaveCancelled(c) \/ Lapsed(c) \/ RequestCancel(c)
    <3>1. PICK new : Save(c, new)
      BY <2>3 DEF BackToHold, RouteToManual, SaveTicketed, SaveFailed, IssueManually, SaveCancelled,
         Lapsed, RequestCancel, SaveAndGo
    <3> QED
      BY <3>1 DEF Save, Undisturbed
  <2> QED
    BY <2>1, <2>2, <2>3 DEF Proceed
<1>2. Undisturbed /\ ReleaseKnown /\ SeatsFit
  BY <1>1 DEF Undisturbed, SeatsInv, amendmentVars
<1>3. CASE ReleaseSeats(c) \/ CancelSeats(c)
  BY <1>2, <1>3, QuietSeats, ReleaseGives
<1>4. CASE \E total \in NewTotals : SaveInventory(c, total)
  <2>1. ReleaseKnown' /\ Taken' \subseteq Taken
    BY <1>2, <1>4, QuietSeats
  <2> QED
    BY <1>2, <1>4, <2>1, EditKeeps DEF Undisturbed
<1>5. CASE \/ IssueConflict(c) \/ FeeRefused(c) \/ EditRefused(c) \/ Crash(c)
           \/ Debit(c) \/ DebitFails(c) \/ RouteToSupplier(c) \/ Ticket(c) \/ TicketFails(c)
           \/ RefundTicket(c) \/ CancelAtSupplier(c) \/ RefundCancelled(c) \/ ChargeFee(c)
           \/ ReadInventory(c) \/ \E b \in Bookings : ReadManual(c, b) \/ ReadForCancel(c, b)
  <2>1. ReleaseKnown' /\ Taken' \subseteq Taken
    BY <1>2, <1>5, QuietSeats
  <2>2. UNCHANGED inventory
    BY <1>5 DEF IssueConflict, FeeRefused, EditRefused, Crash, Debit, DebitFails, RouteToSupplier,
       Ticket, TicketFails, RefundTicket, CancelAtSupplier, RefundCancelled, ChargeFee,
       ReadInventory, ReadManual, ReadForCancel
  <2> QED
    BY <1>2, <2>1, <2>2, UnmovedSeats
<1>6. CASE \/ BackToHold(c) \/ RouteToManual(c) \/ SaveTicketed(c) \/ SaveFailed(c)
           \/ IssueManually(c) \/ SaveCancelled(c) \/ Lapsed(c) \/ RequestCancel(c)
  <2>1. ReleaseKnown' /\ Taken' \subseteq Taken
    BY <1>2, <1>6, SavesMove DEF Undisturbed
  <2>2. UNCHANGED inventory
    BY <1>6 DEF BackToHold, RouteToManual, SaveTicketed, SaveFailed, IssueManually, SaveCancelled,
       Lapsed, RequestCancel
  <2> QED
    BY <1>2, <2>1, <2>2, UnmovedSeats
<1>7. CASE CreateBooking(c) \/ \E b \in Bookings : ExpireHold(c, b) \/ Claim(c, b)
  <2>1. ReleaseKnown' /\ Taken' \subseteq Taken
    BY <1>2, <1>7, HoldSeatsMove
  <2>2. UNCHANGED inventory
    BY <1>7 DEF CreateBooking, ExpireHold, Claim
  <2> QED
    BY <1>2, <2>1, <2>2, UnmovedSeats
<1>8. CASE \E b \in Bookings : HoldSeats(c, b)
  BY <1>2, <1>8, HoldSells
<1> QED
  BY <1>3, <1>4, <1>5, <1>6, <1>7, <1>8 DEF Proceed, Start

LEMMA AmendmentSeatsInv ==
    ASSUME AmendmentInv, AmendmentInv', SeatsInv, Undisturbed', NEW c \in Calls, AmendmentStep(c)
    PROVE  ReleaseKnown' /\ SeatsFit'
<1>1. Undisturbed
  <2>1. CASE \E m \in Amendments : (\E b \in Bookings : ReadToAmend(c, m, b)) \/ ReadAmendment(c, m)
    BY <2>1 DEF Undisturbed, ReadToAmend, ReadAmendment
  <2>2. CASE \/ CreateAmendment(c) \/ RefundAmended(c) \/ RefundRefused(c) \/ FeeAmended(c)
             \/ ReleaseAmended(c) \/ SettleAmendment(c) \/ RejectAmendment(c) \/ CrashAtDesk(c)
    BY <2>2 DEF Undisturbed, CreateAmendment, RefundAmended, RefundRefused, FeeAmended,
       ReleaseAmended, SettleAmendment, RejectAmendment, CrashAtDesk, amendmentVars
  <2>3. CASE LockBooking(c) \/ CancelAmended(c) \/ RollBack(c)
    <3>1. UNCHANGED <<torn, strayed>>
      BY <2>3 DEF LockBooking, CancelAmended, RollBack, amendmentVars
    <3>2. UNCHANGED clobbered \/ \E new : Save(c, new)
      BY <2>3 DEF LockBooking, CancelAmended, RollBack, SaveAndGo
    <3> QED
      BY <3>1, <3>2 DEF Undisturbed, Save
  <2> QED
    BY <2>1, <2>2, <2>3 DEF AmendmentStep
<1>2. ReleaseKnown /\ SeatsFit
  BY <1>1 DEF SeatsInv
<1>3. CASE ReleaseAmended(c)
  BY <1>1, <1>2, <1>3, ApprovalGives
<1>4. CASE ~ReleaseAmended(c)
  <2>1. ReleaseKnown' /\ Taken' \subseteq Taken
    BY <1>1, <1>2, <1>4, DeskReadsSeats, DeskMovesSeats, CreateAmendmentSeats, DeskEndsSeats,
       RejectSeats, LockSeats, CancelAmendedSeats, RollBackSeats DEF AmendmentStep
  <2>2. UNCHANGED inventory
    BY <1>4 DEF AmendmentStep, ReadToAmend, ReadAmendment, CreateAmendment, LockBooking, RefundAmended,
       RefundRefused, FeeAmended, CancelAmended, SettleAmendment, RejectAmendment, RollBack, CrashAtDesk
  <2> QED
    BY <1>2, <2>1, <2>2, UnmovedSeats
<1> QED
  BY <1>3, <1>4

LEMMA UnmovedCalls ==
    ASSUME AmendmentInv, AmendmentInv', ReleaseKnown, SeatsFit,
           UNCHANGED <<inventory, doc, pc, call, amendment, desk>>
    PROVE  ReleaseKnown' /\ SeatsFit'
<1>1. Taken' = Taken
  BY DEF Taken, Takes, HoldsSeats, Holding, Freeing, At, Of
<1>2. ReleaseKnown'
  BY DEF ReleaseKnown, Of
<1> QED
  BY <1>1, <1>2, UnmovedSeats

LEMMA NextSeatsInv ==
    ASSUME AmendmentInv, AmendmentInv', SeatsInv, [AmendmentNext]_amendedVars
    PROVE  SeatsInv'
<1> SUFFICES ASSUME Undisturbed' PROVE ReleaseKnown' /\ SeatsFit'
  BY DEF SeatsInv
<1>1. CASE \E b \in Bookings : HoldLapses(b) /\ UNCHANGED amendmentVars
  <2>1. UNCHANGED <<inventory, doc, pc, call, amendment, desk, clobbered, torn, strayed>>
    BY <1>1 DEF HoldLapses, amendmentVars
  <2> QED
    BY <2>1, UnmovedCalls DEF SeatsInv, Undisturbed
<1>2. CASE \E c \in Calls :
              /\ pc[c] \notin AmendmentSteps /\ UNCHANGED amendmentVars
              /\ \/ Proceed(c) \/ ReadInventory(c) \/ Crash(c)
                 \/ \E b \in Bookings : Start(c, b)
  <2>1. PICK c \in Calls :
              /\ pc[c] \notin AmendmentSteps /\ UNCHANGED amendmentVars
              /\ \/ Proceed(c) \/ ReadInventory(c) \/ Crash(c)
                 \/ \E b \in Bookings : Start(c, b)
    BY <1>2
  <2> QED
    BY <2>1, FlightSeatsInv
<1>3. CASE \E c \in Calls : AmendmentStep(c)
  BY <1>3, AmendmentSeatsInv
<1>4. CASE UNCHANGED amendedVars
  <2>1. UNCHANGED <<inventory, doc, pc, call, amendment, desk, clobbered, torn, strayed>>
    BY <1>4 DEF amendedVars, vars, amendmentVars
  <2> QED
    BY <2>1, UnmovedCalls DEF SeatsInv, Undisturbed
<1> QED
  BY <1>1, <1>2, <1>3, <1>4 DEF AmendmentNext

\* The seats that SeatsConserved counts are seats taken.
LEMMA SeatsCounted ==
    ASSUME AmendmentInv, SeatsInv
    PROVE  AmendedSeatsConserved
<1> SUFFICES ASSUME Undisturbed PROVE SeatsConserved
  BY DEF AmendedSeatsConserved, SeatsConserved, Undisturbed
<1> DEFINE Live == {b \in Bookings : doc[b].status \in Occupying}
           OnTheWay == {Of(c) : c \in {d \in Calls : pc[d] \in {"create", "release", "cancelSeats"}}}
<1>1. Live \subseteq Taken
  BY DEF Taken, Takes
<1>2. OnTheWay \subseteq Taken
  <2> SUFFICES ASSUME NEW c \in Calls, pc[c] \in Moving PROVE Of(c) \in Taken
    BY DEF Moving
  <2>1. Of(c) \in Bookings
    BY Known DEF Moving
  <2> QED
    BY <2>1 DEF Taken, Takes
<1>3. Live \cap OnTheWay = {}
  <2> SUFFICES ASSUME NEW c \in Calls, pc[c] \in Moving, Of(c) \in Bookings
               PROVE  doc[Of(c)].status \notin Occupying
    BY DEF Moving
  <2>1. pc[c] = "create" => doc[Of(c)].status = "NONE"
    BY UndisturbedKnown DEF CreatorKnown
  <2>2. pc[c] = "release" => doc[Of(c)].status = "EXPIRED"
    BY DEF SeatsInv, ReleaseKnown
  <2>3. pc[c] = "cancelSeats" => doc[Of(c)].status = "CANCEL_REQUESTED"
    BY UndisturbedKnown DEF LockKnown, WorkKnown, CancelSteps
  <2> QED
    BY <2>1, <2>2, <2>3 DEF Moving, Occupying
<1>4. PICK S \in SUBSET Bookings : S = Taken
  BY DEF Taken
<1>5. PICK L \in SUBSET Bookings : L = Live
  OBVIOUS
<1>6. PICK W \in SUBSET Bookings : W = OnTheWay
  BY <1>2, <1>4
<1> HIDE DEF Live, OnTheWay
<1>7. /\ IsFiniteSet(L) /\ IsFiniteSet(W) /\ IsFiniteSet(S) /\ L \cap W = {} /\ L \cup W \in SUBSET S
      /\ \A x \in L \cup W : SeatsOf[x] \in Int
      /\ \A x \in S : SeatsOf[x] \in Nat
  BY <1>1, <1>2, <1>3, <1>4, <1>5, <1>6, SeatsTyped
<1>8. SumOf(SeatsOf, L \cup W) = SumOf(SeatsOf, L) + SumOf(SeatsOf, W)
  BY <1>7, SumUnion
<1>9. SumOf(SeatsOf, L \cup W) <= SumOf(SeatsOf, S)
  BY <1>7, SumOfSubset
<1>10. PICK l \in Nat, w \in Nat, s \in Nat :
          l = SumOf(SeatsOf, L) /\ w = SumOf(SeatsOf, W) /\ s = SumOf(SeatsOf, S)
  BY SeatsTyped
<1>11. inventory.seats + s <= inventory.total
  BY <1>4, <1>10 DEF SeatsInv, SeatsFit
<1>12. inventory.seats + l + w <= inventory.total
  BY <1>8, <1>9, <1>10, <1>11, SeatsTyped
<1>13. l = SeatsUsed(Live) /\ w = SeatsUsed(OnTheWay)
  BY <1>5, <1>6, <1>10 DEF SeatsUsed, SumOf
<1>14. inventory.seats + SeatsUsed(Live) + SeatsUsed(OnTheWay) <= inventory.total
  BY <1>12, <1>13
<1> QED
  BY <1>14 DEF SeatsConserved, Live, OnTheWay

\* Beside any number of agents, sweeps and operators no seat of an inventory is sold
\* twice, whatever crashes lose, for as long as no save clobbers a document and no
\* amendment is torn or stray.
THEOREM SeatsAreConserved == AmendmentSpec => []AmendedSeatsConserved
<1>1. AmendmentInit => SeatsInv
  <2> SUFFICES ASSUME AmendmentInit PROVE SeatsInv
    OBVIOUS
  <2>1. AmendmentInv
    BY InitAmendmentInv
  <2>2. /\ \A c \in Calls : pc[c] = "idle" /\ desk[c] = None
        /\ \A b \in Bookings : doc[b].status = "NONE"
        /\ \A m \in Amendments : amendment[m].status = "NONE"
        /\ inventory.seats = TotalSeats /\ inventory.total = TotalSeats
    BY DEF AmendmentInit, Init
  <2>3. ReleaseKnown
    BY <2>2 DEF ReleaseKnown
  <2>4. Taken = {}
    BY <2>2 DEF Taken, Takes, Occupying, Moving, HoldsSeats, Holding
  <2>5. SumOf(SeatsOf, Taken) = 0
    BY <2>4, SumEmpty
  <2> QED
    BY <2>2, <2>3, <2>5, BookingAssumption DEF SeatsInv, SeatsFit
<1>2. AmendmentInv /\ AmendmentInv' /\ SeatsInv /\ [AmendmentNext]_amendedVars => SeatsInv'
  BY NextSeatsInv
<1>3. AmendmentInv /\ SeatsInv => AmendedSeatsConserved
  BY SeatsCounted
<1> QED
  BY <1>1, <1>2, <1>3, AmendmentInvariance, PTL DEF AmendmentSpec
=============================================================================
