---------------------- MODULE HotelCancellationProofs ----------------------
(***************************************************************************)
(* Theorems about HotelCancellation, for any number of bookings, calls,    *)
(* price changes, polls and deliveries: a debit has one outcome, a room is *)
(* booked once, a voucher is real, a cancellation settles once.            *)
(*                                                                         *)
(* The idea is freshness.  A call that is not stale knows the status of    *)
(* its document, and a stale one tears the document when it saves.  So     *)
(* until a booking is torn its status moves forward only, one call at a    *)
(* time runs the attempt or the poll that money hangs on, and one call or  *)
(* one waiting job holds the cancellation.                                 *)
(***************************************************************************)
EXTENDS HotelCancellation, Integers, FiniteSetTheorems, TLAPS

-----------------------------------------------------------------------------
(* Calls *)

Cancelling == {"CANCEL_REQUESTED", "CANCELLED", "CANCEL_REJECTED"}
Early == {"DRAFT", "AWAITING_APPROVAL", "APPROVED"}
CancelSteps == {"status", "requeueCancel", "credit", "tag", "terminal", "finish"}

\* What a call remembers fits the step it is at.
Shape(step, k) ==
    /\ step = "idle" => k = NoCall
    /\ step # "idle" => k.booking \in Bookings
    /\ k.checked => step \in {"book", "refund", "save", "enqueue"} /\ k.job = None
    /\ step = "book" => k.checked
    /\ step \in {"fetch", "still", "requeue"} => k.job = "poll"
    /\ k.job = "poll" => step \in {"fetch", "still", "requeue", "refund", "save"}
    /\ step \in CancelSteps <=> k.job = "poll-cancel"
    /\ k.job = "voucher" => step \in {"generate", "save"}
    /\ step = "refund" => \/ k.checked /\ k.target \in {"DRAFT", "BOOK_FAILED"}
                          \/ k.job = "poll" /\ k.target = "BOOK_FAILED"
    /\ step = "save" =>
         \/ k.checked /\ k.target \in {"DRAFT", "BOOK_FAILED", "PENDING_SUPPLIER", "HELD", "VOUCHERED"}
         \/ k.job = "poll" /\ k.target \in {"BOOK_FAILED", "HELD", "VOUCHERED"}
         \/ k.job # "poll" /\ ~k.checked /\ k.target = "VOUCHERED"
    /\ step = "enqueue" => k.target \in {"PENDING_SUPPLIER", "HELD"}
    /\ step \in {"credit", "tag"} => k.target = "CANCELLED"
    /\ step \in {"terminal", "finish"} => k.target \in {"CANCELLED", "CANCEL_REJECTED"}
    /\ step \in {"status", "credit"} => ~k.credited
    /\ step = "tag" => k.credited
    /\ k.left <= Deliveries

\* The call that money hangs on: an attempt to book, or a poll that knows its answer.
Runs(c) == \/ pc[c] = "book"
           \/ pc[c] \in {"refund", "save"} /\ (call[c].checked \/ call[c].job = "poll")

\* A call about to save a voucher.
SavesVoucher(c) == pc[c] = "save" /\ ~call[c].checked /\ call[c].job # "poll"

\* The one that goes on with a pending booking.
HoldsPoll(c) == call[c].job = "poll" \/ (pc[c] = "enqueue" /\ call[c].target = "PENDING_SUPPLIER")

\* The one that goes on with a cancellation.
HoldsCancel(c) == pc[c] \in {"createJob", "request", "enqueueCancel"} \cup CancelSteps

-----------------------------------------------------------------------------
(* A booking that is not torn *)

\* What a call knows of the document that nobody has saved since.
Copied(c, b) == /\ call[c].debited <=> doc[b].debited
                /\ call[c].refunded <=> doc[b].refunded

FreshKnows(b) ==
    \A c \in Calls : Of(c) = b /\ ~call[c].stale =>
        /\ pc[c] \in {"gate", "block", "askApproval"} => doc[b].status = "DRAFT" /\ Copied(c, b)
        /\ pc[c] \in {"approve", "reject"} => doc[b].status = "AWAITING_APPROVAL" /\ Copied(c, b)
        /\ pc[c] \in {"debit", "debited"} => doc[b].status \in {"DRAFT", "APPROVED"} /\ Copied(c, b)
        /\ pc[c] \in {"fetch", "still", "requeue"} => doc[b].status = "PENDING_SUPPLIER" /\ Copied(c, b)
        /\ pc[c] = "generate" \/ SavesVoucher(c) => doc[b].status = "HELD" /\ Copied(c, b)
        /\ pc[c] \in {"send", "createJob", "request"} => doc[b].status = "VOUCHERED" /\ Copied(c, b)

\* The runner is fresh, and no debit beside it is.
OneRuns(b) ==
    /\ \A c \in Calls : Of(c) = b /\ Runs(c) =>
         /\ ~call[c].stale
         /\ doc[b].status = IF call[c].checked THEN "APPROVED" ELSE "PENDING_SUPPLIER"
         /\ \A d \in Calls : Of(d) = b /\ pc[d] \in {"debit", "debited"} => call[d].stale
    /\ \A c, d \in Calls : Of(c) = b /\ Of(d) = b /\ Runs(c) /\ Runs(d) => c = d

\* A pending booking is polled by one call or waits for one.
OnePolls(b) ==
    /\ \A c \in Calls : Of(c) = b /\ HoldsPoll(c) =>
         /\ doc[b].status = "PENDING_SUPPLIER"
         /\ queued[b]["poll"] = 0
         /\ call[c].job = "poll" => ~call[c].stale
    /\ \A c, d \in Calls : Of(c) = b /\ Of(d) = b /\ HoldsPoll(c) /\ HoldsPoll(d) => c = d
    /\ queued[b]["poll"] > 0 => doc[b].status \notin Early

\* The status only moves forward: calls of a later part find no earlier status.
Forward(b) ==
    /\ \A c \in Calls : Of(c) = b =>
         /\ pc[c] = "generate" \/ SavesVoucher(c) => doc[b].status \in {"HELD", "VOUCHERED"} \cup Cancelling
         /\ pc[c] = "send" => doc[b].status \in {"VOUCHERED"} \cup Cancelling
         /\ pc[c] \in {"enqueueCancel"} \cup CancelSteps => doc[b].status \in Cancelling
    /\ queued[b]["poll-cancel"] > 0 => doc[b].status \in Cancelling

\* The change request has one holder, a call or a waiting job.
OneCancels(b) ==
    /\ \A c \in Calls : Of(c) = b /\ HoldsCancel(c) =>
         change[b] # "none" /\ queued[b]["poll-cancel"] = 0
    /\ \A c, d \in Calls : Of(c) = b /\ Of(d) = b /\ HoldsCancel(c) /\ HoldsCancel(d) => c = d
    /\ queued[b]["poll-cancel"] > 0 => change[b] # "none"
    /\ change[b] = "none" <=>
         /\ doc[b].status \notin Cancelling
         /\ \A c \in Calls : Of(c) = b => pc[c] \notin {"createJob", "request"}
    /\ change[b] # "none" => doc[b].status \in {"VOUCHERED"} \cup Cancelling

\* What the supplier has, at each status.
RoomFor(status, b) ==
    /\ status \in Early => room[b] = "none"
    /\ status = "PENDING_SUPPLIER" => room[b] \in {"pending", "held", "confirmed", "failed"}
    /\ status = "HELD" => room[b] \in {"held", "confirmed"}
    /\ status = "VOUCHERED" => room[b] = "confirmed"

RoomKnown(b) ==
    /\ b \notin doubled
    /\ \/ doc[b].status = "VOUCHERED" /\ change[b] \in GivenUp
       \/ doc[b].status = "APPROVED" /\ (\E c \in Calls : Of(c) = b /\ Runs(c))
       \/ RoomFor(doc[b].status, b)
    /\ change[b] \in GivenUp => room[b] = "cancelled"
    /\ \A c \in Calls : Of(c) = b =>
         /\ pc[c] = "book" => room[b] = "none"
         /\ Runs(c) /\ pc[c] # "book" => RoomFor(call[c].target, b)
         /\ SavesVoucher(c) /\ doc[b].status = "HELD" => room[b] = "confirmed"

-----------------------------------------------------------------------------
(* Its money *)

\* Debits that a save has followed.
Committed(b) == money[b].debit - Cardinality(InFlight(b))

\* What is to show for the debits: a room, or their refund.
Stands(b) ==
    /\ money[b].refund < Committed(b)
    /\ b \notin refused => money[b].refund = IF Committed(b) = 1 THEN 0 ELSE 1

Fell(b) ==
    /\ money[b].refund <= Committed(b)
    /\ b \notin refused => money[b].refund = IF Committed(b) = 0 THEN 0 ELSE 1

MoneyKnown(b) ==
    /\ money[b].refund \in {0, 1}
    /\ \/ \E c \in Calls : Of(c) = b /\ Runs(c)
       \/ /\ doc[b].status \in Early \cup {"BOOK_FAILED"} => Fell(b)
          /\ doc[b].status \in {"PENDING_SUPPLIER", "HELD", "VOUCHERED"} \cup Cancelling => Stands(b)
          /\ doc[b].status = "PENDING_SUPPLIER" => doc[b].debited
          /\ doc[b].status \notin Cancelling => (doc[b].refunded <=> money[b].refund = 1)
    /\ \A c \in Calls : Of(c) = b /\ Runs(c) =>
         /\ call[c].debited
         /\ call[c].refunded <=> money[b].refund = 1
         /\ doc[b].refunded => call[c].refunded
         /\ IF pc[c] = "save" /\ call[c].target \in {"DRAFT", "BOOK_FAILED"}
            THEN Fell(b) /\ Committed(b) > 0 ELSE Stands(b)

\* The refund of a cancellation: what can have become of it.
Decided(b) == settled[b] = 1 \/ b \in refused \/ change[b] = "forfeited"

SettledKnown(b) ==
    /\ settled[b] \in {0, 1}
    /\ settled[b] = 1 => change[b] = "processed"
    /\ queued[b]["poll-cancel"] > 0 => settled[b] = 0
    /\ doc[b].status = "CANCELLED" => Decided(b)
    /\ \A c \in Calls : Of(c) = b =>
         /\ pc[c] \in {"createJob", "request", "enqueueCancel", "status", "requeueCancel", "credit"} => settled[b] = 0
         /\ pc[c] = "credit" => change[b] = "processed"
         /\ pc[c] = "tag" \/ (pc[c] = "terminal" /\ call[c].target = "CANCELLED") =>
              Decided(b)

Consistent(b) ==
    /\ FreshKnows(b) /\ OneRuns(b) /\ OnePolls(b) /\ Forward(b) /\ OneCancels(b)
    /\ RoomKnown(b) /\ MoneyKnown(b) /\ SettledKnown(b)

IInv ==
    /\ TypeOK
    /\ \A c \in Calls : Shape(pc[c], call[c])
    /\ \A b \in Bookings : cancelJob[b].credited => cancelJob[b].completed
    /\ \A b \in Bookings \ torn : Consistent(b)

-----------------------------------------------------------------------------
(* Frames *)

LEMMA BookingTyped ==
    ASSUME TypeOK, NEW b \in Bookings
    PROVE  /\ b # None
           /\ doc[b] \in Document
           /\ queued[b] \in [Jobs -> 0 .. Deliveries]
           /\ queued[b]["poll"] \in Nat /\ queued[b]["voucher"] \in Nat
           /\ queued[b]["poll-cancel"] \in Nat
           /\ room[b] \in Rooms
           /\ money[b] \in [debit : Nat, refund : Nat]
           /\ change[b] \in Changes
           /\ cancelJob[b] \in CancelJob
           /\ settled[b] \in Nat
           /\ torn \subseteq Bookings /\ refused \subseteq Bookings /\ doubled \subseteq Bookings
           /\ IsFiniteSet(InFlight(b))
           /\ Cardinality(InFlight(b)) \in Nat
<1>1. IsFiniteSet(InFlight(b))
  BY HotelAssumption, FS_Subset DEF InFlight
<1> QED
  BY <1>1, FS_CardinalityType, HotelAssumption DEF TypeOK, HotelTypeOK, Jobs

LEMMA Typed ==
    ASSUME TypeOK, NEW c \in Calls, NEW b \in Bookings
    PROVE  /\ pc[c] \in Steps /\ call[c] \in Call
           /\ Of(c) \in Bookings \cup {None} /\ b # None
           /\ doc[b] \in Document
           /\ queued[b] \in [Jobs -> 0 .. Deliveries]
           /\ queued[b]["poll"] \in Nat /\ queued[b]["voucher"] \in Nat
           /\ queued[b]["poll-cancel"] \in Nat
           /\ room[b] \in Rooms
           /\ money[b] \in [debit : Nat, refund : Nat]
           /\ change[b] \in Changes
           /\ cancelJob[b] \in CancelJob
           /\ settled[b] \in Nat
           /\ torn \subseteq Bookings /\ refused \subseteq Bookings /\ doubled \subseteq Bookings
           /\ IsFiniteSet(InFlight(b))
           /\ Cardinality(InFlight(b)) \in Nat
BY BookingTyped DEF TypeOK, HotelTypeOK, Of, Call

Resting == {"idle", "load", "unlock", "delete"}

\* The call had b in hand for one of the jobs, and hands it to the queue.
PollGivenBack(b) == \E c \in Calls : Of(c) = b /\ HoldsPoll(c) /\ ~HoldsPoll(c)'
CancelGivenBack(b) ==
    /\ settled[b] = 0 /\ doc[b].status \in Cancelling
    /\ \E c \in Calls : Of(c) = b /\ HoldsCancel(c) /\ ~HoldsCancel(c)'

\* Nothing that the invariant speaks of changes, but for jobs that are taken or given back.
SameBut(b) ==
    /\ doc'[b].status = doc[b].status
    /\ doc'[b].debited = doc[b].debited /\ doc'[b].refunded = doc[b].refunded
    /\ room'[b] = room[b] /\ change'[b] = change[b]
    /\ settled'[b] = settled[b] /\ money'[b] = money[b]
    /\ \/ queued'[b]["poll"] \in {0, queued[b]["poll"]}
       \/ PollGivenBack(b)
    /\ \/ queued'[b]["poll-cancel"] \in {0, queued[b]["poll-cancel"]}
       \/ CancelGivenBack(b)
    /\ b \in doubled' => b \in doubled
    /\ b \in refused => b \in refused'

\* A call that nothing hangs on retires.
Retires(c) ==
    /\ ~Runs(c) /\ pc[c] \notin {"debited", "createJob", "request"}
    /\ pc'[c] \in Resting /\ ~call'[c].checked /\ call'[c].job # "poll"

\* What calls do elsewhere, and calls that retire, leave a booking consistent.
LEMMA Frame ==
    ASSUME TypeOK, NEW b \in Bookings, Consistent(b), SameBut(b),
           \A c \in Calls :
             \/ pc'[c] = pc[c] /\ call'[c] = call[c]
             \/ Of(c) # b /\ Of(c)' # b
             \/ Retires(c)
    PROVE  Consistent(b)'
<1>1. InFlight(b)' = InFlight(b) /\ Committed(b)' = Committed(b)
  BY DEF InFlight, Committed, Of, Resting, Retires, SameBut
<1>2. \A c \in Calls : Of(c)' = b /\ pc'[c] \notin Resting =>
                        pc'[c] = pc[c] /\ call'[c] = call[c] /\ Of(c) = b
  BY DEF Of, Retires
<1>3. \A c \in Calls : Of(c)' = b /\ (call'[c].checked \/ call'[c].job = "poll") =>
                        pc'[c] = pc[c] /\ call'[c] = call[c] /\ Of(c) = b
  BY DEF Of, Retires
<1>4. \A c \in Calls : Of(c) = b /\ (Runs(c) \/ pc[c] \in {"createJob", "request"}) =>
                        pc'[c] = pc[c] /\ call'[c] = call[c] /\ Of(c)' = b
  BY DEF Of, Retires
<1>5. FreshKnows(b)'
  BY <1>2 DEF Consistent, FreshKnows, Copied, SavesVoucher, Resting, SameBut
<1>6. OneRuns(b)'
  BY <1>2 DEF Consistent, OneRuns, Runs, Resting, SameBut
<1>7. OnePolls(b)'
  <2>1. \A c \in Calls : Of(c)' = b /\ HoldsPoll(c)' =>
          Of(c) = b /\ HoldsPoll(c) /\ pc'[c] = pc[c] /\ call'[c] = call[c]
    BY <1>2, <1>3 DEF HoldsPoll, Resting
  <2>2. PollGivenBack(b) => /\ doc[b].status = "PENDING_SUPPLIER"
                           /\ \A c \in Calls : Of(c)' = b => ~HoldsPoll(c)'
    BY <2>1 DEF PollGivenBack, Consistent, OnePolls
  <2>3. CASE PollGivenBack(b)
    BY <2>2, <2>3 DEF OnePolls, SameBut, Early
  <2>4. CASE queued'[b]["poll"] \in {0, queued[b]["poll"]}
    BY <2>1, <2>4 DEF Consistent, OnePolls, SameBut
  <2> QED
    BY <2>3, <2>4 DEF SameBut
<1>8. Forward(b)'
  BY <1>2 DEF Consistent, Forward, SavesVoucher, Resting, CancelSteps, SameBut, CancelGivenBack
<1>9. OneCancels(b)'
  <2>1. \A c \in Calls : Of(c)' = b /\ HoldsCancel(c)' => Of(c) = b /\ HoldsCancel(c)
    BY <1>2 DEF HoldsCancel, Resting, CancelSteps
  <2>2. change[b] = "none" <=>
          /\ doc[b].status \notin Cancelling
          /\ \A c \in Calls : Of(c)' = b => pc'[c] \notin {"createJob", "request"}
    BY <1>2, <1>4 DEF Consistent, OneCancels, Resting
  <2>3. CancelGivenBack(b) => change[b] # "none" /\ \A c \in Calls : Of(c)' = b => ~HoldsCancel(c)'
    BY <2>1 DEF CancelGivenBack, Consistent, OneCancels
  <2>4. CASE CancelGivenBack(b)
    BY <2>1, <2>2, <2>3, <2>4 DEF Consistent, OneCancels, SameBut
  <2>5. CASE queued'[b]["poll-cancel"] \in {0, queued[b]["poll-cancel"]}
    BY <2>1, <2>2, <2>5 DEF Consistent, OneCancels, SameBut
  <2> QED
    BY <2>4, <2>5 DEF SameBut
<1>10. RoomKnown(b)'
  <2>1. \A c \in Calls : Of(c)' = b /\ (pc'[c] = "book" \/ Runs(c)' \/ SavesVoucher(c)') =>
          pc'[c] = pc[c] /\ call'[c] = call[c] /\ Of(c) = b
    BY <1>2 DEF Runs, SavesVoucher, Resting
  <2> QED
    BY <2>1, <1>4 DEF Consistent, RoomKnown, RoomFor, Runs, SavesVoucher, SameBut
<1>11. MoneyKnown(b)'
  <2>1. Stands(b) => Stands(b)'
    BY <1>1 DEF Stands, SameBut
  <2>2. Fell(b) => Fell(b)'
    BY <1>1 DEF Fell, SameBut
  <2>3. \A c \in Calls : Of(c)' = b /\ Runs(c)' =>
          pc'[c] = pc[c] /\ call'[c] = call[c] /\ Of(c) = b /\ Runs(c)
    BY <1>2 DEF Runs, Resting
  <2>4. \A c \in Calls : Of(c) = b /\ Runs(c) => Of(c)' = b /\ Runs(c)'
    BY <1>4 DEF Runs
  <2> QED
    BY <1>1, <2>1, <2>2, <2>3, <2>4 DEF Consistent, MoneyKnown, SameBut
<1>12. SettledKnown(b)'
  BY <1>2 DEF Consistent, SettledKnown, Decided, Resting, SameBut, CancelGivenBack
<1> QED
  BY <1>5, <1>6, <1>7, <1>8, <1>9, <1>10, <1>11, <1>12 DEF Consistent

\* A call fits a step that no money, room or request hangs on.
Fits(c, b) ==
    /\ ~Runs(c)
    /\ pc[c] \notin {"debited", "save", "createJob", "request", "enqueue", "enqueueCancel"}
    /\ ~call[c].stale =>
         /\ pc[c] \in {"gate", "block", "askApproval", "debit"} => doc[b].status = "DRAFT" /\ Copied(c, b)
         /\ pc[c] \in {"approve", "reject"} => doc[b].status = "AWAITING_APPROVAL" /\ Copied(c, b)
         /\ pc[c] \in {"fetch", "still", "requeue"} => doc[b].status = "PENDING_SUPPLIER" /\ Copied(c, b)
         /\ pc[c] = "generate" => doc[b].status = "HELD" /\ Copied(c, b)
         /\ pc[c] = "send" => doc[b].status = "VOUCHERED" /\ Copied(c, b)
    /\ call[c].job = "poll" =>
         /\ doc[b].status = "PENDING_SUPPLIER" /\ queued[b]["poll"] = 0 /\ ~call[c].stale
         /\ \A d \in Calls \ {c} : Of(d) = b => ~HoldsPoll(d)
    /\ pc[c] = "generate" => doc[b].status \in {"HELD", "VOUCHERED"} \cup Cancelling
    /\ pc[c] = "send" => doc[b].status \in {"VOUCHERED"} \cup Cancelling
    /\ pc[c] \in CancelSteps =>
         /\ doc[b].status \in Cancelling /\ change[b] # "none" /\ queued[b]["poll-cancel"] = 0
         /\ \A d \in Calls \ {c} : Of(d) = b => ~HoldsCancel(d)
    /\ pc[c] \in {"status", "requeueCancel", "credit"} => settled[b] = 0
    /\ pc[c] = "credit" => change[b] = "processed"
    /\ pc[c] = "tag" \/ (pc[c] = "terminal" /\ call[c].target = "CANCELLED") =>
         Decided(b)

LEMMA Enter ==
    ASSUME TypeOK, NEW b \in Bookings, NEW c \in Calls, Consistent(b),
           doc'[b].status = doc[b].status, doc'[b].debited = doc[b].debited,
           doc'[b].refunded = doc[b].refunded, room'[b] = room[b], change'[b] = change[b],
           settled'[b] = settled[b], money'[b] = money[b],
           queued'[b]["poll"] \in {0, queued[b]["poll"]},
           queued'[b]["poll-cancel"] \in {0, queued[b]["poll-cancel"]},
           UNCHANGED <<doubled, refused>>,
           \A d \in Calls \ {c} : pc'[d] = pc[d] /\ call'[d] = call[d],
           Of(c) = b => ~Runs(c) /\ pc[c] \notin {"debited", "createJob", "request"},
           Of(c)' = b, Fits(c, b)'
    PROVE  Consistent(b)'
<1>1. InFlight(b)' = InFlight(b) /\ Committed(b)' = Committed(b)
  BY SMTT(30) DEF InFlight, Committed, Of, Fits
<1>2. \A d \in Calls \ {c} : pc'[d] = pc[d] /\ call'[d] = call[d] /\ Of(d)' = Of(d)
  BY DEF Of
<1>3. \A d \in Calls : Of(d)' = b /\ (Runs(d)' \/ SavesVoucher(d)' \/ pc'[d] \in {"createJob", "request", "debited"}) =>
         d # c /\ Of(d) = b
  BY <1>2 DEF SavesVoucher, Fits
<1>4. \A d \in Calls : Of(d) = b /\ (Runs(d) \/ pc[d] \in {"createJob", "request", "debited"}) => d # c
  OBVIOUS
<1>5. \A d \in Calls : d # c => (Runs(d)' <=> Runs(d)) /\ (SavesVoucher(d)' <=> SavesVoucher(d))
                               /\ (HoldsPoll(d)' <=> HoldsPoll(d)) /\ (HoldsCancel(d)' <=> HoldsCancel(d))
  BY DEF Runs, SavesVoucher, HoldsPoll, HoldsCancel
<1>6. FreshKnows(b)'
  BY <1>2, <1>3, <1>5 DEF Consistent, FreshKnows, Copied, Fits
<1>7. OneRuns(b)'
  <2>1. pc'[c] = "debit" /\ ~call'[c].stale => \A d \in Calls : Of(d) = b => ~Runs(d)
    BY DEF Consistent, OneRuns, Fits
  <2> QED
    BY <1>2, <1>3, <1>5, <2>1 DEF Consistent, OneRuns
<1>8. OnePolls(b)'
  <2>1. HoldsPoll(c)' <=> call'[c].job = "poll"
    BY DEF HoldsPoll, Fits
  <2> QED
    BY <1>2, <1>5, <2>1 DEF Consistent, OnePolls, Fits
<1>9. Forward(b)'
  BY <1>2, <1>3, <1>5 DEF Consistent, Forward, Fits
<1>10. OneCancels(b)'
  <2>1. HoldsCancel(c)' <=> pc'[c] \in CancelSteps
    BY DEF HoldsCancel, Fits
  <2>2. change[b] = "none" <=>
          /\ doc[b].status \notin Cancelling
          /\ \A d \in Calls : Of(d)' = b => pc'[d] \notin {"createJob", "request"}
    BY <1>2, <1>3, <1>4 DEF Consistent, OneCancels
  <2> QED
    BY <1>2, <1>5, <2>1, <2>2 DEF Consistent, OneCancels, Fits
<1>11. RoomKnown(b)'
  <2>1. \A d \in Calls : Of(d)' = b /\ pc'[d] = "book" => Of(d) = b /\ pc[d] = "book"
    BY <1>2 DEF Runs, Fits
  <2>2. (\E d \in Calls : Of(d) = b /\ Runs(d)) => (\E d \in Calls : Of(d)' = b /\ Runs(d)')
    BY <1>2, <1>4, <1>5
  <2> QED
    BY <1>2, <1>3, <1>4, <1>5, <2>1, <2>2 DEF Consistent, RoomKnown, RoomFor
<1>12. MoneyKnown(b)'
  <2>1. Stands(b) <=> Stands(b)'
    BY <1>1 DEF Stands
  <2>2. Fell(b) <=> Fell(b)'
    BY <1>1 DEF Fell
  <2>3. (\E d \in Calls : Of(d) = b /\ Runs(d)) => (\E d \in Calls : Of(d)' = b /\ Runs(d)')
    BY <1>2, <1>4, <1>5
  <2> QED
    BY <1>1, <1>2, <1>3, <1>5, <2>1, <2>2, <2>3 DEF Consistent, MoneyKnown
<1>13. SettledKnown(b)'
  BY <1>2 DEF Consistent, SettledKnown, Decided, Fits
<1> QED
  BY <1>6, <1>7, <1>8, <1>9, <1>10, <1>11, <1>12, <1>13 DEF Consistent

\* A step of c changes nothing but b, and of other calls only that their copy of b is stale.
OnlyAt(b) ==
    /\ torn \subseteq torn' /\ torn' \subseteq torn \cup {b}
    /\ refused \subseteq refused' /\ doubled' \subseteq doubled \cup {b}
    /\ \A e \in Bookings \ {b} :
         /\ doc'[e] = doc[e] /\ queued'[e] = queued[e] /\ room'[e] = room[e] /\ money'[e] = money[e]
         /\ change'[e] = change[e] /\ cancelJob'[e] = cancelJob[e] /\ settled'[e] = settled[e]

Others(c, b) ==
    \A d \in Calls \ {c} :
        /\ pc'[d] = pc[d]
        /\ \/ call'[d] = call[d]
           \/ Of(d) = b /\ call'[d] = [call[d] EXCEPT !.stale = TRUE]

LEMMA Acts ==
    ASSUME IInv, TypeOK', NEW b \in Bookings, NEW c \in Calls, OnlyAt(b), Others(c, b),
           Of(c) \in {b, None}, Of(c)' \in {b, None},
           Shape(pc'[c], call'[c]),
           cancelJob'[b].credited => cancelJob'[b].completed,
           b \notin torn' => Consistent(b)'
    PROVE  IInv'
<1>1. ASSUME NEW d \in Calls \ {c} PROVE Shape(pc'[d], call'[d]) /\ Of(d)' = Of(d)
  <2>1. Shape(pc[d], call[d]) /\ call[d] \in Call /\ b # None
    BY Typed DEF IInv
  <2>2. CASE call'[d] = call[d]
    BY <2>1, <2>2 DEF Others, Of
  <2>3. CASE Of(d) = b /\ call'[d] = [call[d] EXCEPT !.stale = TRUE]
    <3>1. pc[d] # "idle"
      BY <2>1, <2>3 DEF Shape, NoCall, Of
    <3>2. /\ call'[d].booking = call[d].booking /\ call'[d].checked = call[d].checked
          /\ call'[d].job = call[d].job /\ call'[d].target = call[d].target
          /\ call'[d].credited = call[d].credited /\ call'[d].left = call[d].left
          /\ pc'[d] = pc[d]
      BY <2>1, <2>3 DEF Call, Others
    <3> QED
      BY <2>1, <3>1, <3>2 DEF Shape, Of
  <2> QED
    BY <2>2, <2>3 DEF Others
<1>2. ASSUME NEW e \in Bookings \ torn', e # b PROVE Consistent(e)'
  <2>1. Consistent(e) /\ e # None
    BY <1>2, Typed DEF IInv, OnlyAt
  <2>2. /\ doc'[e] = doc[e] /\ queued'[e] = queued[e] /\ room'[e] = room[e] /\ money'[e] = money[e]
        /\ change'[e] = change[e] /\ settled'[e] = settled[e]
        /\ e \in doubled' => e \in doubled
        /\ e \in refused => e \in refused'
    BY <1>2 DEF OnlyAt
  <2>3. ASSUME NEW d \in Calls
        PROVE  \/ pc'[d] = pc[d] /\ call'[d] = call[d]
               \/ Of(d) # e /\ Of(d)' # e
    <3>1. CASE d = c
      BY <1>2, <2>1, <3>1
    <3>2. CASE d # c
      <4>1. Of(d)' = Of(d)
        BY <1>1, <3>2
      <4>2. CASE Of(d) = b
        BY <1>2, <4>1, <4>2
      <4>3. CASE Of(d) # b
        BY <3>2, <4>3 DEF Others
      <4> QED
        BY <4>2, <4>3
    <3> QED
      BY <3>1, <3>2
  <2>4. SameBut(e)
    BY <2>2 DEF SameBut
  <2> QED
    BY <2>1, <2>3, <2>4, Frame DEF IInv
<1>3. \A e \in Bookings : cancelJob'[e].credited => cancelJob'[e].completed
  BY DEF IInv, OnlyAt
<1> QED
  BY <1>1, <1>2, <1>3 DEF IInv

LEMMA Quiet ==
    ASSUME IInv, TypeOK', UNCHANGED <<cancelJob, torn>>,
           \A e \in Bookings \ torn : SameBut(e),
           \A d \in Calls :
             \/ pc'[d] = pc[d] /\ call'[d] = call[d]
             \/ Retires(d) /\ Shape(pc'[d], call'[d])
    PROVE  IInv'
<1>1. \A d \in Calls : Shape(pc'[d], call'[d])
  BY DEF IInv
<1>2. \A e \in Bookings \ torn : Consistent(e)'
  BY Frame DEF IInv
<1> QED
  BY <1>1, <1>2 DEF IInv

LEMMA Enters ==
    ASSUME IInv, TypeOK', NEW b \in Bookings, NEW c \in Calls,
           UNCHANGED <<doc, room, doubled, money, refused, torn, change, cancelJob, settled>>,
           \A e \in Bookings \ {b} : queued'[e] = queued[e],
           queued'[b]["poll"] \in {0, queued[b]["poll"]},
           queued'[b]["poll-cancel"] \in {0, queued[b]["poll-cancel"]},
           \A d \in Calls \ {c} : pc'[d] = pc[d] /\ call'[d] = call[d],
           Of(c) \in {b, None}, ~Runs(c), pc[c] \notin {"debited", "createJob", "request"},
           Of(c)' = b, Shape(pc'[c], call'[c]),
           b \notin torn => Fits(c, b)'
    PROVE  IInv'
<1>1. OnlyAt(b) /\ Others(c, b)
  BY DEF OnlyAt, Others
<1>2. cancelJob'[b].credited => cancelJob'[b].completed
  BY DEF IInv
<1>3. ASSUME b \notin torn' PROVE Consistent(b)'
  BY <1>3, Enter DEF IInv
<1> QED
  BY <1>1, <1>2, <1>3, Acts

\* Leave: the call has only its lock left to care for.
LEMMA Leaves ==
    ASSUME TypeOK, NEW c \in Calls, Shape(pc[c], call[c]), pc[c] # "idle", Leave(c)
    PROVE  /\ pc' \in [Calls -> Steps] /\ call' \in [Calls -> Call]
           /\ pc'[c] \in Resting /\ Shape(pc'[c], call'[c])
           /\ ~call'[c].checked /\ call'[c].job = None
           /\ Of(c)' \in {Of(c), None}
           /\ \A d \in Calls \ {c} : pc'[d] = pc[d] /\ call'[d] = call[d]
<1>1. Of(c) \in Bookings /\ call[c] \in Call
  BY Typed DEF Shape, TypeOK, HotelTypeOK, Of
<1>2. pc' = [pc EXCEPT ![c] = IF call[c].locked THEN "unlock" ELSE "idle"]
  BY DEF Leave, Goto
<1>3. CASE call[c].locked
  <2> DEFINE k == [NoCall EXCEPT !.booking = Of(c), !.locked = TRUE]
  <2>1. k \in Call /\ k.booking = Of(c) /\ ~k.checked /\ k.job = None /\ k.left = 0
    BY <1>1 DEF NoCall, Call
  <2>2. Shape("unlock", k)
    BY <1>1, <2>1, HotelAssumption DEF Shape, CancelSteps
  <2>3. call' = [call EXCEPT ![c] = k] /\ pc' = [pc EXCEPT ![c] = "unlock"]
    BY <1>2, <1>3 DEF Leave, Released
  <2> HIDE DEF k
  <2> QED
    BY <1>1, <2>1, <2>2, <2>3 DEF Resting, TypeOK, HotelTypeOK, Steps, Of
<1>4. CASE ~call[c].locked
  <2>1. NoCall \in Call /\ NoCall.booking = None /\ ~NoCall.checked /\ NoCall.job = None /\ NoCall.left = 0
    BY DEF NoCall, Call
  <2>2. Shape("idle", NoCall)
    BY <2>1, HotelAssumption DEF Shape, CancelSteps
  <2>3. call' = [call EXCEPT ![c] = NoCall] /\ pc' = [pc EXCEPT ![c] = "idle"]
    BY <1>2, <1>4 DEF Leave, Released
  <2> QED
    BY <1>1, <2>1, <2>2, <2>3 DEF Resting, TypeOK, HotelTypeOK, Steps, Of
<1> QED
  BY <1>3, <1>4

-----------------------------------------------------------------------------
(* Steps after which nothing hangs on the call *)

\* The fields that the invariant looks at stay as they are.
StillAll == UNCHANGED <<doc, room, doubled, money, refused, torn, change, cancelJob, settled>>

QueueMoves(e) ==
    /\ \/ queued'[e]["poll"] \in {0, queued[e]["poll"]}
       \/ PollGivenBack(e)
    /\ \/ queued'[e]["poll-cancel"] \in {0, queued[e]["poll-cancel"]}
       \/ CancelGivenBack(e)

LEMMA TypesStill ==
    ASSUME TypeOK, StillAll, lock' \in [Bookings -> Calls \cup {None}],
           queued' \in [Bookings -> [Jobs -> 0 .. Deliveries]],
           pc' \in [Calls -> Steps], call' \in [Calls -> Call]
    PROVE  TypeOK'
BY DEF TypeOK, HotelTypeOK, StillAll

LEMMA LeaveQuietly ==
    ASSUME IInv, NEW c \in Calls, Leave(c), StillAll, lock' = lock,
           pc[c] \notin {"idle", "debited", "createJob", "request"}, ~Runs(c),
           queued' \in [Bookings -> [Jobs -> 0 .. Deliveries]],
           \A e \in Bookings \ torn : QueueMoves(e)
    PROVE  IInv'
<1>1. TypeOK /\ Shape(pc[c], call[c])
  BY DEF IInv
<1>2. /\ pc' \in [Calls -> Steps] /\ call' \in [Calls -> Call]
      /\ pc'[c] \in Resting /\ Shape(pc'[c], call'[c])
      /\ ~call'[c].checked /\ call'[c].job = None
      /\ \A d \in Calls \ {c} : pc'[d] = pc[d] /\ call'[d] = call[d]
  BY <1>1, Leaves
<1>3. TypeOK'
  BY <1>1, <1>2, TypesStill DEF TypeOK, HotelTypeOK
<1>4. \A e \in Bookings \ torn : SameBut(e)
  BY DEF SameBut, StillAll, QueueMoves
<1>5. Retires(c)
  BY <1>2, HotelAssumption DEF Retires
<1> QED
  BY <1>2, <1>3, <1>4, <1>5, Quiet DEF StillAll

LEMMA LockSteps ==
    ASSUME IInv, NEW c \in Calls,
           (\E b \in Bookings : LockDraft(c, b)) \/ CheckLock(c) \/ DeleteLock(c),
           UNCHANGED cancelVars
    PROVE  IInv'
<1>1. TypeOK /\ Shape(pc[c], call[c])
  BY DEF IInv
<1>2. StillAll /\ queued' = queued /\ lock' \in [Bookings -> Calls \cup {None}]
  <2>1. StillAll /\ queued' = queued
    BY DEF LockDraft, CheckLock, DeleteLock, supplier, books, cancelVars, StillAll
  <2>2. \/ lock' = lock
        \/ \E b \in Bookings : lock' = [lock EXCEPT ![b] = c]
        \/ lock' = [lock EXCEPT ![Of(c)] = None]
    BY DEF LockDraft, CheckLock, DeleteLock
  <2>3. lock \in [Bookings -> Calls \cup {None}]
    BY <1>1 DEF TypeOK, HotelTypeOK
  <2> QED
    BY <2>1, <2>2, <2>3
<1>3. pc[c] \in {"idle", "unlock", "delete"}
  BY DEF LockDraft, CheckLock, DeleteLock
<1>4. PICK k \in Call, step \in Resting :
         /\ call' = [call EXCEPT ![c] = k] /\ pc' = [pc EXCEPT ![c] = step]
         /\ ~k.checked /\ k.job \in {None, call[c].job} /\ Shape(step, k)
  <2>1. Shape("idle", NoCall) /\ NoCall \in Call /\ ~NoCall.checked /\ NoCall.job = None
    BY HotelAssumption DEF Shape, CancelSteps, NoCall, Call
  <2>2. ASSUME NEW b \in Bookings, LockDraft(c, b)
        PROVE  \E k \in Call, step \in Resting :
                 /\ call' = [call EXCEPT ![c] = k] /\ pc' = [pc EXCEPT ![c] = step]
                 /\ ~k.checked /\ k.job \in {None, call[c].job} /\ Shape(step, k)
    <3> DEFINE k == [NoCall EXCEPT !.booking = b, !.locked = TRUE]
    <3>1. k \in Call /\ k.booking = b /\ ~k.checked /\ k.job = None /\ k.left = 0
      BY DEF NoCall, Call
    <3>2. Shape("load", k)
      BY <3>1, HotelAssumption DEF Shape, CancelSteps
    <3>3. call' = [call EXCEPT ![c] = k] /\ pc' = [pc EXCEPT ![c] = "load"]
      BY <2>2 DEF LockDraft, Goto
    <3> HIDE DEF k
    <3> QED
      BY <3>1, <3>2, <3>3 DEF Resting
  <2>3. CASE CheckLock(c) /\ UNCHANGED call
    <3>1. call[c] \in Call /\ ~call[c].checked /\ call[c].job # "poll"
      BY <1>1, <2>3, Typed DEF CheckLock, Shape, TypeOK, HotelTypeOK
    <3>2. /\ call' = [call EXCEPT ![c] = call[c]]
          /\ \/ pc' = [pc EXCEPT ![c] = "delete"]
             \/ pc' = [pc EXCEPT ![c] = "idle"] /\ call[c] = NoCall
      BY <1>1, <2>3 DEF CheckLock, Goto, TypeOK, HotelTypeOK
    <3>3. Shape("delete", call[c])
      BY <1>1, <2>3, HotelAssumption DEF CheckLock, Shape, CancelSteps
    <3> QED
      BY <2>1, <3>1, <3>2, <3>3 DEF Resting
  <2>4. CASE (CheckLock(c) \/ DeleteLock(c)) /\ pc' = [pc EXCEPT ![c] = "idle"] /\ call' = [call EXCEPT ![c] = NoCall]
    BY <2>1, <2>4 DEF Resting
  <2> QED
    BY <2>2, <2>3, <2>4 DEF CheckLock, DeleteLock, Goto
<1>5. call[c].job # "poll" /\ ~Runs(c)
  BY <1>1, <1>3, HotelAssumption DEF Shape, NoCall, Runs
<1>6. pc' \in [Calls -> Steps] /\ call' \in [Calls -> Call]
      /\ \A d \in Calls \ {c} : pc'[d] = pc[d] /\ call'[d] = call[d]
  BY <1>1, <1>4 DEF TypeOK, HotelTypeOK, Resting, Steps
<1>7. pc'[c] \in Resting /\ Shape(pc'[c], call'[c]) /\ ~call'[c].checked /\ call'[c].job # "poll"
  BY <1>1, <1>4, <1>5, HotelAssumption DEF TypeOK, HotelTypeOK
<1>8. TypeOK' /\ Retires(c)
  BY <1>1, <1>2, <1>3, <1>5, <1>6, <1>7, TypesStill DEF Retires, TypeOK, HotelTypeOK
<1> QED
  BY <1>2, <1>6, <1>7, <1>8, Quiet DEF StillAll, SameBut

LEMMA LockExpiresStep ==
    ASSUME IInv, NEW b \in Bookings, LockExpires(b), UNCHANGED cancelVars
    PROVE  IInv'
<1>1. StillAll /\ UNCHANGED <<queued, pc, call>> /\ lock' \in [Bookings -> Calls \cup {None}]
  BY DEF IInv, LockExpires, supplier, books, cancelVars, StillAll, TypeOK, HotelTypeOK
<1>2. TypeOK'
  BY <1>1, TypesStill DEF IInv, TypeOK, HotelTypeOK
<1> QED
  BY <1>1, <1>2, Quiet DEF StillAll, SameBut

\* Steps that come to nothing.
LEMMA GiveUpSteps ==
    ASSUME IInv, NEW c \in Calls, UNCHANGED cancelVars,
           \/ LoadDraft(c) /\ ~Bookable(Of(c))
           \/ AskApproval(c) /\ call[c].stale
           \/ DebitRefused(c)
           \/ ChangeRefused(c)
           \/ StatusFails(c)
    PROVE  IInv'
<1>1. /\ Leave(c) /\ StillAll /\ lock' = lock /\ queued' = queued
      /\ pc[c] \in {"load", "askApproval", "debit", "send", "status"}
  BY DEF LoadDraft, AskApproval, DebitRefused, ChangeRefused, StatusFails, StillAll, supplier, books, cancelVars
<1>2. ~Runs(c)
  BY <1>1 DEF Runs
<1> QED
  BY <1>1, <1>2, LeaveQuietly DEF QueueMoves, IInv, TypeOK, HotelTypeOK

\* A job that a worker gives back is its own.
LEMMA Redelivers ==
    ASSUME IInv, NEW c \in Calls, Of(c) \in Bookings, Redeliver(c)
    PROVE  /\ queued' \in [Bookings -> [Jobs -> 0 .. Deliveries]]
           /\ \A e \in Bookings \ {Of(c)} : queued'[e] = queued[e]
           /\ \A j \in Jobs : call[c].job # j => queued'[Of(c)][j] = queued[Of(c)][j]
<1>1. /\ queued \in [Bookings -> [Jobs -> 0 .. Deliveries]]
      /\ call[c].job \in Jobs \cup {None} /\ call[c].left \in 0 .. Deliveries
  BY Typed DEF IInv, TypeOK, HotelTypeOK, Call, Shape
<1>2. None \notin Jobs
  BY HotelAssumption DEF Jobs
<1>3. PICK n \in 0 .. Deliveries :
         queued' = IF call[c].job = None THEN queued
                   ELSE [queued EXCEPT ![Of(c)] = [@ EXCEPT ![call[c].job] = n]]
  <2>1. CASE call[c].job = None
    BY <2>1, HotelAssumption DEF Redeliver
  <2>2. CASE call[c].job # None /\ call[c].left > queued[Of(c)][call[c].job]
    BY <1>1, <2>2 DEF Redeliver
  <2>3. CASE call[c].job # None /\ ~(call[c].left > queued[Of(c)][call[c].job])
    BY <1>1, <2>3 DEF Redeliver
  <2> QED
    BY <2>1, <2>2, <2>3
<1> QED
  BY <1>1, <1>2, <1>3

\* EnqueueNext, EnqueueCancel, RequeuePoll, RequeueCancel: what the call held waits in the queue.
LEMMA EnqueueSteps ==
    ASSUME IInv, NEW c \in Calls, UNCHANGED cancelVars,
           EnqueueNext(c) \/ EnqueueCancel(c) \/ RequeuePoll(c) \/ RequeueCancel(c)
    PROVE  IInv'
<1>1. /\ Leave(c) /\ StillAll /\ lock' = lock /\ pc[c] \in {"enqueue", "enqueueCancel", "requeue", "requeueCancel"}
  BY DEF EnqueueNext, EnqueueCancel, RequeuePoll, RequeueCancel, StillAll, supplier, books, cancelVars
<1>2. PICK b \in Bookings : b = Of(c)
  BY <1>1 DEF IInv, Shape, Of
<1>3. PICK j \in Jobs :
         /\ queued' = [queued EXCEPT ![b] = [@ EXCEPT ![j] = Deliveries]]
         /\ pc[c] = "enqueue" => j = JobAfter[call[c].target]
         /\ pc[c] = "requeue" => j = "poll"
         /\ pc[c] \in {"enqueueCancel", "requeueCancel"} => j = "poll-cancel"
  <2>1. CASE EnqueueNext(c)
    <3>1. call[c].target \in {"PENDING_SUPPLIER", "HELD"}
      BY <2>1 DEF EnqueueNext, IInv, Shape
    <3> QED
      BY <1>2, <2>1, <3>1 DEF EnqueueNext, Enqueue, JobAfter, Jobs
  <2>2. CASE EnqueueCancel(c)
    BY <1>2, <2>2 DEF EnqueueCancel, Enqueue, Jobs
  <2>3. CASE RequeuePoll(c)
    BY <1>2, <2>3 DEF RequeuePoll, Enqueue, Jobs
  <2>4. CASE RequeueCancel(c)
    BY <1>2, <2>4 DEF RequeueCancel, Enqueue, Jobs
  <2> QED
    BY <2>1, <2>2, <2>3, <2>4
<1>4. pc[c] = "enqueue" =>
        \/ j = "voucher"
        \/ j = "poll" /\ call[c].target = "PENDING_SUPPLIER"
  BY <1>3 DEF JobAfter, IInv, Shape
<1>9. pc[c] = "requeue" => call[c].job = "poll"
  BY DEF IInv, Shape
<1>5. queued' \in [Bookings -> [Jobs -> 0 .. Deliveries]]
  BY <1>3, HotelAssumption DEF IInv, TypeOK, HotelTypeOK
<1>6. /\ pc'[c] \in Resting /\ call'[c].job = None
  BY <1>1, Leaves DEF IInv
<1>7. ~HoldsPoll(c)' /\ ~HoldsCancel(c)'
  BY <1>6, HotelAssumption DEF HoldsPoll, HoldsCancel, Resting, CancelSteps
<1>8. ASSUME NEW e \in Bookings \ torn PROVE QueueMoves(e)
  <2>1. CASE e # b
    BY <1>3, <2>1, <1>5 DEF QueueMoves
  <2>2. CASE e = b /\ j = "voucher"
    BY <1>3, <2>2, Typed DEF QueueMoves, IInv, TypeOK, HotelTypeOK, Jobs
  <2>3. CASE e = b /\ j = "poll"
    <3>1. PollGivenBack(b)
      BY <1>1, <1>2, <1>3, <1>4, <1>7, <1>9, <2>3 DEF PollGivenBack, HoldsPoll
    <3> QED
      BY <1>3, <2>3, <3>1 DEF QueueMoves, IInv, TypeOK, HotelTypeOK, Jobs
  <2>4. CASE e = b /\ j = "poll-cancel"
    <3>1. CancelGivenBack(b)
      BY <1>1, <1>2, <1>3, <1>4, <1>7, <1>8, <2>4
         DEF CancelGivenBack, HoldsCancel, CancelSteps, IInv, Consistent, SettledKnown, Decided, Forward
    <3> QED
      BY <1>3, <2>4, <3>1 DEF QueueMoves, IInv, TypeOK, HotelTypeOK, Jobs
  <2> QED
    BY <2>1, <2>2, <2>3, <2>4 DEF Jobs
<1> QED
  BY <1>1, <1>5, <1>8, LeaveQuietly DEF Runs

\* PollAgain, PollCancelAgain: the attempt is counted; the call goes on to queue the next
\* one, or leaves after the last.
LEMMA AgainSteps ==
    ASSUME IInv, NEW c \in Calls,
           \/ PollAgain(c) /\ UNCHANGED cancelVars
           \/ PollCancelAgain(c)
    PROVE  IInv'
<1>1. /\ UNCHANGED <<lock, queued, room, doubled, money, refused, torn, change, settled>>
      /\ pc[c] \in {"still", "status"}
  BY DEF PollAgain, PollCancelAgain, supplier, books, cancelVars
<1>2. PICK b \in Bookings : b = Of(c)
  BY <1>1 DEF IInv, Shape, Of
<1>3. /\ Shape(pc[c], call[c]) /\ call[c] \in Call
      /\ call[c].job = IF pc[c] = "still" THEN "poll" ELSE "poll-cancel"
  BY <1>1, Typed DEF IInv, Shape, CancelSteps
<1>4. /\ \/ doc' = doc
         \/ doc' = [doc EXCEPT ![b].polls = doc[b].polls + 1]
      /\ \/ cancelJob' = cancelJob
         \/ cancelJob' = [cancelJob EXCEPT ![b].polls = @ + 1]
      /\ \/ Leave(c)
         \/ /\ call' = call
            /\ pc' = [pc EXCEPT ![c] = IF pc[c] = "still" THEN "requeue" ELSE "requeueCancel"]
  <2>1. CASE PollAgain(c) /\ UNCHANGED cancelVars
    BY <1>2, <2>1 DEF PollAgain, cancelVars, Goto
  <2>2. CASE PollCancelAgain(c)
    BY <1>2, <2>2 DEF PollCancelAgain, Goto
  <2> QED
    BY <2>1, <2>2
<1>5. /\ doc' \in [Bookings -> Document] /\ cancelJob' \in [Bookings -> CancelJob]
      /\ \A e \in Bookings : doc'[e].status = doc[e].status /\ doc'[e].debited = doc[e].debited
                             /\ doc'[e].refunded = doc[e].refunded
      /\ \A e \in Bookings : /\ cancelJob'[e].credited = cancelJob[e].credited
                             /\ cancelJob'[e].completed = cancelJob[e].completed
      /\ \A e \in Bookings \ {b} : doc'[e] = doc[e] /\ cancelJob'[e] = cancelJob[e]
  <2>1. doc \in [Bookings -> Document] /\ cancelJob \in [Bookings -> CancelJob]
    BY DEF IInv, TypeOK, HotelTypeOK
  <2>2. doc[b].polls + 1 \in Nat /\ cancelJob[b].polls + 1 \in Nat
    BY <2>1 DEF Document, CancelJob
  <2>3. /\ doc' \in [Bookings -> Document]
        /\ \A e \in Bookings : doc'[e].status = doc[e].status /\ doc'[e].debited = doc[e].debited
                               /\ doc'[e].refunded = doc[e].refunded
        /\ \A e \in Bookings \ {b} : doc'[e] = doc[e]
    <3>1. CASE doc' = doc
      BY <2>1, <3>1
    <3>2. CASE doc' = [doc EXCEPT ![b].polls = doc[b].polls + 1]
      BY <2>1, <2>2, <3>2 DEF Document
    <3> QED
      BY <1>4, <3>1, <3>2
  <2>4. /\ cancelJob' \in [Bookings -> CancelJob]
        /\ \A e \in Bookings : /\ cancelJob'[e].credited = cancelJob[e].credited
                               /\ cancelJob'[e].completed = cancelJob[e].completed
        /\ \A e \in Bookings \ {b} : cancelJob'[e] = cancelJob[e]
    <3>1. CASE cancelJob' = cancelJob
      BY <2>1, <3>1
    <3>2. CASE cancelJob' = [cancelJob EXCEPT ![b].polls = @ + 1]
      BY <2>1, <2>2, <3>2 DEF CancelJob
    <3> QED
      BY <1>4, <3>1, <3>2
  <2> QED
    BY <2>3, <2>4
<1>6. /\ pc' \in [Calls -> Steps] /\ call' \in [Calls -> Call] /\ Shape(pc'[c], call'[c])
      /\ Of(c)' \in {b, None}
      /\ \A d \in Calls \ {c} : pc'[d] = pc[d] /\ call'[d] = call[d]
      /\ \/ pc'[c] \in Resting /\ ~call'[c].checked /\ call'[c].job = None
         \/ /\ Of(c)' = b /\ call'[c] = call[c]
            /\ pc'[c] = IF pc[c] = "still" THEN "requeue" ELSE "requeueCancel"
  <2>1. CASE Leave(c)
    BY <1>1, <1>2, <1>3, <2>1, Leaves DEF IInv
  <2>2. CASE /\ call' = call
             /\ pc' = [pc EXCEPT ![c] = IF pc[c] = "still" THEN "requeue" ELSE "requeueCancel"]
    <3>1. /\ pc' \in [Calls -> Steps] /\ Of(c)' = b
          /\ pc'[c] = IF pc[c] = "still" THEN "requeue" ELSE "requeueCancel"
          /\ \A d \in Calls \ {c} : pc'[d] = pc[d]
      BY <1>2, <2>2 DEF IInv, TypeOK, HotelTypeOK, Steps, Of
    <3>2. Shape(pc'[c], call[c])
      BY <1>1, <1>3, <3>1 DEF Shape, CancelSteps
    <3> QED
      BY <2>2, <3>1, <3>2 DEF IInv, TypeOK, HotelTypeOK
  <2> QED
    BY <1>4, <2>1, <2>2
<1>7. TypeOK' /\ OnlyAt(b) /\ Others(c, b)
  BY <1>1, <1>5, <1>6 DEF IInv, TypeOK, HotelTypeOK, OnlyAt, Others
<1>8. ASSUME b \notin torn' PROVE Consistent(b)'
  <2>1. Consistent(b) /\ Of(c) = b /\ TypeOK /\ ~Runs(c)
    BY <1>1, <1>2, <1>8 DEF IInv, Runs
  <2>2. CASE pc'[c] \in Resting /\ ~call'[c].checked /\ call'[c].job = None
    <3>1. Retires(c)
      BY <1>1, <2>1, <2>2, HotelAssumption DEF Retires
    <3>2. SameBut(b)
      BY <1>1, <1>5 DEF SameBut
    <3> QED
      BY <1>6, <2>1, <3>1, <3>2, Frame
  <2>3. CASE /\ Of(c)' = b /\ call'[c] = call[c]
             /\ pc'[c] = IF pc[c] = "still" THEN "requeue" ELSE "requeueCancel"
    <3>1. \A d \in Calls \ {c} : Of(d)' = Of(d) /\ (HoldsPoll(d)' <=> HoldsPoll(d))
                                  /\ (HoldsCancel(d)' <=> HoldsCancel(d))
      BY <1>6 DEF Of, HoldsPoll, HoldsCancel
    <3>2. ~Runs(c)' /\ (Copied(c, b) => Copied(c, b)')
      BY <1>5, <2>3 DEF Runs, Copied
    <3>3. pc[c] = "still" =>
            /\ doc[b].status = "PENDING_SUPPLIER" /\ queued[b]["poll"] = 0 /\ ~call[c].stale
            /\ Copied(c, b) /\ \A d \in Calls \ {c} : Of(d) = b => ~HoldsPoll(d)
      BY <1>3, <2>1 DEF Consistent, OnePolls, HoldsPoll, FreshKnows
    <3>4. pc[c] = "status" =>
            /\ doc[b].status \in Cancelling /\ change[b] # "none" /\ queued[b]["poll-cancel"] = 0
            /\ settled[b] = 0 /\ \A d \in Calls \ {c} : Of(d) = b => ~HoldsCancel(d)
      BY <2>1 DEF Consistent, OneCancels, Forward, SettledKnown, Decided, HoldsCancel, CancelSteps
    <3>5. Fits(c, b)'
      BY <1>1, <1>3, <1>5, <2>3, <3>1, <3>2, <3>3, <3>4 DEF Fits, CancelSteps
    <3> QED
      BY <1>1, <1>5, <1>6, <2>1, <2>3, <3>5, Enter
  <2> QED
    BY <1>6, <2>2, <2>3
<1>9. cancelJob'[b].credited => cancelJob'[b].completed
  BY <1>5 DEF IInv
<1> QED
  BY <1>2, <1>6, <1>7, <1>8, <1>9, Acts

\* VoucherFails, and a process that dies without a trace: a job is repeated.
LEMMA DropsVoucher ==
    ASSUME IInv, NEW c \in Calls, NEW b \in Bookings, UNCHANGED cancelVars,
           DropVoucher(c, b)
    PROVE  IInv'
<1>1. StillAll /\ UNCHANGED <<lock, pc, call>> /\ queued' = [queued EXCEPT ![b]["voucher"] = 0]
  BY DEF DropVoucher, TakeJob, StillAll, supplier, books, cancelVars
<1>2. queued' \in [Bookings -> [Jobs -> 0 .. Deliveries]]
      /\ \A e \in Bookings : /\ queued'[e]["poll"] = queued[e]["poll"]
                             /\ queued'[e]["poll-cancel"] = queued[e]["poll-cancel"]
  BY <1>1, HotelAssumption DEF IInv, TypeOK, HotelTypeOK, Jobs
<1>3. TypeOK'
  BY <1>1, <1>2, TypesStill DEF IInv, TypeOK, HotelTypeOK
<1> QED
  BY <1>1, <1>2, <1>3, Quiet DEF StillAll, SameBut

LEMMA VoucherFailsStep ==
    ASSUME IInv, NEW c \in Calls, UNCHANGED cancelVars, VoucherFails(c)
    PROVE  IInv'
<1>1. Leave(c) /\ StillAll /\ lock' = lock /\ pc[c] = "generate" /\ Redeliver(c)
  BY DEF VoucherFails, StillAll, supplier, books, cancelVars
<1>2. Of(c) \in Bookings /\ call[c].job \notin {"poll", "poll-cancel"}
  BY <1>1 DEF IInv, Shape, Of, CancelSteps
<1>3. \A e \in Bookings : QueueMoves(e)
  BY <1>1, <1>2, Redelivers DEF QueueMoves, Jobs
<1> QED
  BY <1>1, <1>2, <1>3, Redelivers, LeaveQuietly DEF Runs

\* CrashAt: either the booking is torn, or the call had done nothing yet.
LEMMA CrashStep ==
    ASSUME IInv, NEW c \in Calls, Crash(c)
    PROVE  IInv'
<1>1. /\ pc[c] # "idle" /\ Redeliver(c)
      /\ UNCHANGED <<doc, lock, room, doubled, money, refused, change, cancelJob, settled>>
      /\ pc' = [pc EXCEPT ![c] = "idle"] /\ call' = [call EXCEPT ![c] = NoCall]
      /\ torn' \in {torn, torn \cup {Of(c)}}
      /\ pc[c] \in {"debited", "book", "refund", "save", "enqueue", "createJob", "request",
                   "enqueueCancel", "tag", "terminal", "finish"} => Of(c) \in torn'
  BY DEF Crash, CrashAt, Untold, UntoldCancel, Goto, supplier, books, cancelVars
<1>2. PICK b \in Bookings : b = Of(c)
  BY <1>1 DEF IInv, Shape, Of
<1>3. /\ queued' \in [Bookings -> [Jobs -> 0 .. Deliveries]]
      /\ \A e \in Bookings \ {b} : queued'[e] = queued[e]
      /\ \A j \in Jobs : call[c].job # j => queued'[b][j] = queued[b][j]
  BY <1>1, <1>2, Redelivers
<1>4. NoCall \in Call /\ NoCall.booking = None /\ ~NoCall.checked /\ NoCall.job = None /\ NoCall.left = 0
  BY DEF NoCall, Call
<1>5. Shape("idle", NoCall)
  BY <1>4, HotelAssumption DEF Shape, CancelSteps
<1>6. /\ pc' \in [Calls -> Steps] /\ call' \in [Calls -> Call]
      /\ pc'[c] = "idle" /\ call'[c] = NoCall /\ Of(c)' = None
      /\ \A d \in Calls \ {c} : pc'[d] = pc[d] /\ call'[d] = call[d]
  BY <1>1, <1>4 DEF IInv, TypeOK, HotelTypeOK, Steps, Of
<1>7. TypeOK'
  BY <1>1, <1>2, <1>3, <1>6 DEF IInv, TypeOK, HotelTypeOK
<1>8. OnlyAt(b) /\ Others(c, b) /\ Shape(pc'[c], call'[c])
  BY <1>1, <1>2, <1>3, <1>5, <1>6 DEF OnlyAt, Others
<1>9. ASSUME b \notin torn' PROVE Consistent(b)'
  <2>1. /\ Consistent(b) /\ Shape(pc[c], call[c])
        /\ pc[c] \notin {"debited", "book", "refund", "save", "enqueue", "createJob", "request",
                        "enqueueCancel", "tag", "terminal", "finish"}
    BY <1>1, <1>2, <1>9 DEF IInv
  <2>2. Retires(c)
    BY <1>4, <1>6, <2>1, HotelAssumption DEF Retires, Runs, Resting
  <2>3. ~HoldsPoll(c)' /\ ~HoldsCancel(c)'
    BY <1>4, <1>6, HotelAssumption DEF HoldsPoll, HoldsCancel, CancelSteps
  <2>4. queued'[b]["poll"] = queued[b]["poll"] \/ PollGivenBack(b)
    BY <1>2, <1>3, <2>3 DEF PollGivenBack, HoldsPoll, Jobs
  <2>5. queued'[b]["poll-cancel"] = queued[b]["poll-cancel"] \/ CancelGivenBack(b)
    <3>1. CASE call[c].job # "poll-cancel"
      BY <1>3, <3>1 DEF Jobs
    <3>2. CASE call[c].job = "poll-cancel"
      <4>1. pc[c] \in {"status", "requeueCancel", "credit"}
        BY <2>1, <3>2 DEF Shape, CancelSteps
      <4> QED
        BY <1>2, <2>1, <2>3, <4>1
           DEF CancelGivenBack, HoldsCancel, CancelSteps, Consistent, SettledKnown, Decided, Forward
    <3> QED
      BY <3>1, <3>2
  <2>6. SameBut(b)
    BY <1>1, <2>4, <2>5 DEF SameBut
  <2> QED
    BY <1>6, <2>1, <2>2, <2>6, Frame DEF IInv
<1>10. cancelJob'[b].credited => cancelJob'[b].completed
  BY <1>1 DEF IInv
<1> QED
  BY <1>2, <1>6, <1>7, <1>8, <1>9, <1>10, Acts


-----------------------------------------------------------------------------
(* Reads *)

LEMMA LoadedFacts ==
    ASSUME IInv, NEW c \in Calls, NEW b \in Bookings
    PROVE  /\ Loaded(c, b) \in Call
           /\ Loaded(c, b).booking = b /\ ~Loaded(c, b).stale
           /\ Loaded(c, b).debited = doc[b].debited
           /\ Loaded(c, b).refunded = doc[b].refunded
           /\ Loaded(c, b).checked = call[c].checked /\ Loaded(c, b).job = call[c].job
           /\ Loaded(c, b).target = call[c].target /\ Loaded(c, b).credited = call[c].credited
           /\ Loaded(c, b).left = call[c].left
<1>1. call[c] \in Call /\ doc[b] \in Document
  BY Typed DEF IInv
<1>2. doc[b].debited \in BOOLEAN /\ doc[b].refunded \in BOOLEAN
  BY <1>1 DEF Document
<1>3. PICK x, y : x = doc[b].debited /\ y = doc[b].refunded /\ x \in BOOLEAN /\ y \in BOOLEAN
  BY <1>2
<1>4. Loaded(c, b) = [call[c] EXCEPT !.booking = b, !.stale = FALSE, !.debited = x, !.refunded = y]
  BY <1>3 DEF Loaded
<1>5. Loaded(c, b) \in Call
  BY <1>1, <1>3, <1>4 DEF Call
<1>6. /\ Loaded(c, b).booking = b /\ ~Loaded(c, b).stale
      /\ Loaded(c, b).debited = x /\ Loaded(c, b).refunded = y
      /\ Loaded(c, b).checked = call[c].checked /\ Loaded(c, b).job = call[c].job
      /\ Loaded(c, b).target = call[c].target /\ Loaded(c, b).credited = call[c].credited
      /\ Loaded(c, b).left = call[c].left
  BY <1>1, <1>3, <1>4 DEF Call
<1> QED
  BY <1>3, <1>5, <1>6

\* The status that a call acts on is the one it has read.
ReadsFor(c, b, step) ==
    \/ step = "gate" /\ doc[b].status = "DRAFT"
    \/ step \in {"approve", "reject"} /\ doc[b].status = "AWAITING_APPROVAL"
    \/ step = "generate" /\ doc[b].status = "HELD"
    \/ step = "send" /\ doc[b].status = "VOUCHERED"
    \/ /\ step = "fetch" /\ doc[b].status = "PENDING_SUPPLIER"
       /\ queued[b]["poll"] > 0 /\ queued'[b]["poll"] = 0
    \/ /\ step = "status"
       /\ queued[b]["poll-cancel"] > 0 /\ queued'[b]["poll-cancel"] = 0

LEMMA Reads ==
    ASSUME IInv, NEW c \in Calls, NEW b \in Bookings, NEW k \in Call, NEW step \in Steps,
           StillAll, lock' = lock, queued' \in [Bookings -> [Jobs -> 0 .. Deliveries]],
           \A e \in Bookings \ {b} : queued'[e] = queued[e],
           queued'[b]["poll"] \in {0, queued[b]["poll"]},
           queued'[b]["poll-cancel"] \in {0, queued[b]["poll-cancel"]},
           call' = [call EXCEPT ![c] = k], pc' = [pc EXCEPT ![c] = step],
           Of(c) \in {b, None}, pc[c] \in {"idle", "load"},
           k.booking = b, ~k.stale, k.debited = doc[b].debited, k.refunded = doc[b].refunded,
           Shape(step, k), ReadsFor(c, b, step)
    PROVE  IInv'
<1>1. /\ pc' \in [Calls -> Steps] /\ call' \in [Calls -> Call]
      /\ pc'[c] = step /\ call'[c] = k /\ Of(c)' = b
      /\ \A d \in Calls \ {c} : pc'[d] = pc[d] /\ call'[d] = call[d]
  BY DEF IInv, TypeOK, HotelTypeOK, Of
<1>2. TypeOK'
  BY <1>1, TypesStill DEF IInv, TypeOK, HotelTypeOK
<1>3. ASSUME b \notin torn PROVE Fits(c, b)'
  <2>1. Consistent(b) /\ \A d \in Calls \ {c} : Of(d)' = Of(d) /\ (HoldsPoll(d)' <=> HoldsPoll(d))
                                               /\ (HoldsCancel(d)' <=> HoldsCancel(d))
    BY <1>1, <1>3 DEF IInv, Of, HoldsPoll, HoldsCancel
  <2>2. /\ doc' = doc /\ change' = change /\ settled' = settled /\ refused' = refused
        /\ Copied(c, b)'
        /\ step \in {"gate", "approve", "reject", "generate", "send", "fetch", "status"}
    BY <1>1 DEF StillAll, Copied, ReadsFor
  <2>3. step = "fetch" =>
          /\ doc[b].status = "PENDING_SUPPLIER" /\ queued'[b]["poll"] = 0
          /\ \A d \in Calls : Of(d) = b => ~HoldsPoll(d)
    BY <2>1 DEF ReadsFor, Consistent, OnePolls
  <2>4. step = "status" =>
          /\ doc[b].status \in Cancelling /\ change[b] # "none" /\ queued'[b]["poll-cancel"] = 0
          /\ settled[b] = 0
          /\ \A d \in Calls : Of(d) = b => ~HoldsCancel(d)
    BY <2>1 DEF ReadsFor, Consistent, OneCancels, Forward, SettledKnown, Decided
  <2>5. k.job = "poll" => step = "fetch"
    BY <2>2 DEF Shape
  <2> QED
    BY <1>1, <2>1, <2>2, <2>3, <2>4, <2>5 DEF Fits, Runs, ReadsFor, CancelSteps
<1>4. ~Runs(c)
  BY DEF Runs
<1> QED
  BY <1>1, <1>2, <1>3, <1>4, Enters DEF StillAll

\* The five handlers that read a document, and the two workers that take a job.
LEMMA ReadSteps ==
    ASSUME IInv, NEW c \in Calls, NEW b \in Bookings, UNCHANGED cancelVars,
           \/ LoadDraft(c) /\ Bookable(Of(c)) /\ b = Of(c)
           \/ ReadForApproval(c, b)
           \/ ReadForCancel(c, b)
           \/ ReadHeld(c, b) /\ UNCHANGED queued
    PROVE  IInv'
<1>1. /\ StillAll /\ lock' = lock /\ queued' = queued
      /\ call' = [call EXCEPT ![c] = Loaded(c, b)]
  <2>1. CASE LoadDraft(c) /\ Bookable(Of(c)) /\ b = Of(c)
    BY <2>1 DEF LoadDraft, StillAll, supplier, books, cancelVars
  <2>2. CASE ReadForApproval(c, b)
    BY <2>2 DEF ReadForApproval, StillAll, supplier, books, cancelVars
  <2>3. CASE ReadForCancel(c, b)
    BY <2>3 DEF ReadForCancel, StillAll, supplier, books, cancelVars
  <2>4. CASE ReadHeld(c, b) /\ UNCHANGED queued
    <3>1. ~TakeJob(c, b, "voucher")
      BY <2>4, HotelAssumption DEF TakeJob, IInv, TypeOK, HotelTypeOK, Jobs
    <3> QED
      BY <2>4, <3>1 DEF ReadHeld, StillAll, supplier, books, cancelVars
  <2> QED
    BY <2>1, <2>2, <2>3, <2>4
<1>2. PICK step \in Steps :
         /\ pc' = [pc EXCEPT ![c] = step]
         /\ ReadsFor(c, b, step) /\ step \in {"gate", "approve", "reject", "generate", "send"}
  BY DEF LoadDraft, Bookable, ReadForApproval, ReadForCancel, ReadHeld, Goto, ReadsFor, Steps
<1>3. pc[c] \in {"idle", "load"} /\ Of(c) \in {b, None} /\ Shape(pc[c], call[c])
  <2>1. Shape(pc[c], call[c])
    BY DEF IInv
  <2>2. pc[c] = "idle" \/ (pc[c] = "load" /\ b = Of(c))
    BY DEF LoadDraft, ReadForApproval, ReadForCancel, ReadHeld, TakeJob
  <2>3. pc[c] = "idle" => Of(c) = None
    BY <2>1 DEF Shape, NoCall, Of
  <2> QED
    BY <2>1, <2>2, <2>3
<1>4. Shape(step, Loaded(c, b))
  BY <1>2, <1>3, LoadedFacts, HotelAssumption DEF Shape, CancelSteps, NoCall
<1> QED
  BY ZenonT(40), <1>1, <1>2, <1>3, <1>4, LoadedFacts, Reads DEF IInv, TypeOK, HotelTypeOK

LEMMA TakeSteps ==
    ASSUME IInv, NEW c \in Calls, NEW b \in Bookings,
           \/ ReadPending(c, b) /\ UNCHANGED cancelVars
           \/ ReadHeld(c, b) /\ TakeJob(c, b, "voucher") /\ UNCHANGED cancelVars
           \/ ReadJob(c, b)
    PROVE  IInv'
<1>1. PICK job \in Jobs :
         /\ TakeJob(c, b, job)
         /\ StillAll /\ lock' = lock
         /\ \/ job = "poll" /\ ReadPending(c, b)
            \/ job = "voucher" /\ ReadHeld(c, b)
            \/ job = "poll-cancel" /\ ReadJob(c, b)
  BY DEF ReadPending, ReadHeld, ReadJob, StillAll, supplier, books, cancelVars, Jobs
<1>2. /\ queued \in [Bookings -> [Jobs -> 0 .. Deliveries]]
      /\ queued' \in [Bookings -> [Jobs -> 0 .. Deliveries]]
      /\ \A e \in Bookings \ {b} : queued'[e] = queued[e]
      /\ queued'[b][job] = 0 /\ queued[b][job] > 0
      /\ \A j \in Jobs : queued'[b][j] \in {0, queued[b][j]}
      /\ pc[c] = "idle" /\ call[c] = NoCall /\ Of(c) = None
  BY <1>1, HotelAssumption DEF TakeJob, IInv, TypeOK, HotelTypeOK, Shape, NoCall, Of
<1>3. CASE UNCHANGED <<pc, call>>
  <2>1. \A e \in Bookings : SameBut(e)
    BY <1>1, <1>2 DEF SameBut, StillAll, Jobs
  <2>2. TypeOK'
    BY <1>1, <1>2, <1>3, TypesStill DEF IInv, TypeOK, HotelTypeOK
  <2> QED
    BY <1>1, <1>3, <2>1, <2>2, Quiet DEF StillAll
<1>4. ASSUME NEW k \in Call, NEW step \in Steps,
             call' = [call EXCEPT ![c] = k], pc' = [pc EXCEPT ![c] = step],
             k.booking = b, ~k.stale, k.debited = doc[b].debited, k.refunded = doc[b].refunded,
             Shape(step, k), ReadsFor(c, b, step)
      PROVE  IInv'
  BY <1>1, <1>2, <1>4, Reads DEF Jobs
<1>5. /\ WithJob(c, b, job) \in Call
      /\ WithJob(c, b, job).booking = b /\ ~WithJob(c, b, job).stale
      /\ WithJob(c, b, job).debited = doc[b].debited
      /\ WithJob(c, b, job).refunded = doc[b].refunded
      /\ ~WithJob(c, b, job).checked /\ WithJob(c, b, job).job = job
      /\ ~WithJob(c, b, job).credited
      /\ WithJob(c, b, job).left <= Deliveries
  <2>1. queued[b][job] - 1 \in Nat /\ queued[b][job] - 1 <= Deliveries
    BY <1>2, HotelAssumption
  <2>2. ~call[c].checked /\ ~call[c].credited
    BY <1>2 DEF NoCall
  <2>3. Loaded(c, b) \in Call
    BY LoadedFacts
  <2> QED
    BY <2>1, <2>2, <2>3, LoadedFacts DEF WithJob, Call
<1>6. CASE ReadPending(c, b) /\ job = "poll" /\ ~UNCHANGED <<pc, call>>
  <2>1. /\ doc[b].status = "PENDING_SUPPLIER" /\ call' = [call EXCEPT ![c] = WithJob(c, b, "poll")]
        /\ pc' = [pc EXCEPT ![c] = "fetch"]
    BY <1>6 DEF ReadPending, Goto
  <2>2. Shape("fetch", WithJob(c, b, "poll")) /\ "fetch" \in Steps
    BY <1>5, <1>6 DEF Shape, CancelSteps, Steps
  <2> QED
    BY <1>2, <1>4, <1>5, <1>6, <2>1, <2>2 DEF ReadsFor
<1>7. CASE ReadHeld(c, b) /\ job = "voucher"
  <2>1. /\ doc[b].status = "HELD" /\ call' = [call EXCEPT ![c] = WithJob(c, b, "voucher")]
        /\ pc' = [pc EXCEPT ![c] = "generate"]
    <3>1. queued' # queued
      BY <1>2, <1>7
    <3> QED
      BY <1>7, <3>1 DEF ReadHeld, Goto
  <2>2. Shape("generate", WithJob(c, b, "voucher")) /\ "generate" \in Steps
    BY <1>5, <1>7 DEF Shape, CancelSteps, Steps
  <2> QED
    BY <1>4, <1>5, <1>7, <2>1, <2>2 DEF ReadsFor
<1>8. CASE ReadJob(c, b) /\ job = "poll-cancel" /\ ~UNCHANGED <<pc, call>>
  <2> DEFINE k == [WithJob(c, b, "poll-cancel") EXCEPT !.credited = cancelJob[b].credited]
  <2>1. /\ ~cancelJob[b].completed /\ call' = [call EXCEPT ![c] = k]
        /\ pc' = [pc EXCEPT ![c] = "status"]
    BY <1>8 DEF ReadJob, Goto
  <2>2. ~cancelJob[b].credited /\ cancelJob[b].credited \in BOOLEAN
    BY <2>1, Typed DEF IInv, CancelJob
  <2>3. /\ k \in Call /\ k.booking = b /\ ~k.stale
        /\ k.debited = doc[b].debited /\ k.refunded = doc[b].refunded
        /\ ~k.checked /\ k.job = "poll-cancel" /\ ~k.credited /\ k.left <= Deliveries
    BY <1>5, <1>8, <2>2 DEF Call
  <2>4. Shape("status", k) /\ "status" \in Steps
    BY <2>3 DEF Shape, CancelSteps, Steps
  <2> HIDE DEF k
  <2> QED
    BY <1>2, <1>4, <1>8, <2>1, <2>3, <2>4 DEF ReadsFor
<1> QED
  BY <1>1, <1>3, <1>6, <1>7, <1>8

\* Gate, FetchNothing, StatusKnown: the call decides what to do next.
LEMMA DecideSteps ==
    ASSUME IInv, NEW c \in Calls,
           \/ Gate(c) /\ UNCHANGED cancelVars
           \/ FetchNothing(c) /\ UNCHANGED cancelVars
           \/ StatusKnown(c)
    PROVE  IInv'
<1>1. /\ StillAll /\ lock' = lock /\ queued' = queued /\ pc[c] \in {"gate", "fetch", "status"}
  BY DEF Gate, FetchNothing, StatusKnown, StillAll, supplier, books, cancelVars
<1>2. PICK b \in Bookings : b = Of(c)
  BY <1>1 DEF IInv, Shape, Of
<1>3. /\ Shape(pc[c], call[c]) /\ call[c] \in Call /\ change[b] \in Changes
  BY Typed DEF IInv
<1>4. PICK k \in Call, step \in Steps :
         /\ call' = [call EXCEPT ![c] = k] /\ pc' = [pc EXCEPT ![c] = step]
         /\ k.booking = call[c].booking /\ (k.stale <=> call[c].stale)
         /\ (k.debited <=> call[c].debited) /\ (k.refunded <=> call[c].refunded)
         /\ (k.checked <=> call[c].checked) /\ k.job = call[c].job /\ (k.credited <=> call[c].credited)
         /\ k.left = call[c].left
         /\ \/ pc[c] = "gate" /\ step \in {"block", "askApproval", "debit"}
            \/ pc[c] = "fetch" /\ step = "still"
            \/ pc[c] = "status" /\ step = "credit" /\ k.target = "CANCELLED" /\ change[b] = "processed"
            \/ /\ pc[c] = "status" /\ step = "terminal"
               /\ k.target = "CANCEL_REJECTED" \/ change[b] = "forfeited"
               /\ k.target \in {"CANCELLED", "CANCEL_REJECTED"}
  <2>1. CASE (Gate(c) \/ FetchNothing(c)) /\ UNCHANGED call
    <3>1. call' = [call EXCEPT ![c] = call[c]]
      BY <2>1 DEF IInv, TypeOK, HotelTypeOK
    <3> QED
      BY <1>3, <2>1, <3>1 DEF Gate, FetchNothing, Goto, Steps
  <2>2. CASE StatusKnown(c) /\ change[b] = "processed"
    <3> DEFINE k == [call[c] EXCEPT !.target = "CANCELLED"]
    <3>1. call' = [call EXCEPT ![c] = k] /\ pc' = [pc EXCEPT ![c] = "credit"]
      BY <1>2, <1>3, <2>2 DEF StatusKnown, CancelOutcome, CreditDue, GivenUp, Goto, Shape
    <3>2. k \in Call /\ k.target = "CANCELLED"
      BY <1>3 DEF Call, Statuses
    <3> QED
      BY ZenonT(40), <1>1, <1>3, <2>2, <3>1, <3>2 DEF Steps, StatusKnown, Call
  <2>3. CASE StatusKnown(c) /\ change[b] = "rejected"
    <3> DEFINE k == [call[c] EXCEPT !.target = "CANCEL_REJECTED"]
    <3>1. call' = [call EXCEPT ![c] = k] /\ pc' = [pc EXCEPT ![c] = "terminal"]
      BY <1>2, <1>3, <2>3 DEF StatusKnown, CancelOutcome, GivenUp, Goto, Shape
    <3>2. k \in Call /\ k.target = "CANCEL_REJECTED"
      BY <1>3 DEF Call, Statuses
    <3> QED
      BY ZenonT(40), <1>1, <1>3, <2>3, <3>1, <3>2 DEF Steps, StatusKnown, Call
  <2>4. CASE StatusKnown(c) /\ change[b] = "forfeited"
    <3> DEFINE k == [call[c] EXCEPT !.target = "CANCELLED"]
    <3>1. call' = [call EXCEPT ![c] = k] /\ pc' = [pc EXCEPT ![c] = "terminal"]
      BY <1>2, <1>3, <2>4 DEF StatusKnown, CancelOutcome, CreditDue, GivenUp, Goto, Shape
    <3>2. k \in Call /\ k.target = "CANCELLED"
      BY <1>3 DEF Call, Statuses
    <3> QED
      BY ZenonT(40), <1>1, <1>3, <2>4, <3>1, <3>2 DEF Steps, StatusKnown, Call
  <2> QED
    BY <1>2, <2>1, <2>2, <2>3, <2>4 DEF Gate, FetchNothing, StatusKnown, CancelOutcome, GivenUp
<1>5. Shape(step, k)
  BY <1>3, <1>4 DEF Shape, CancelSteps
<1>6. /\ pc' \in [Calls -> Steps] /\ call' \in [Calls -> Call]
      /\ pc'[c] = step /\ call'[c] = k /\ Of(c)' = b
      /\ \A d \in Calls \ {c} : pc'[d] = pc[d] /\ call'[d] = call[d]
  BY <1>2, <1>4 DEF IInv, TypeOK, HotelTypeOK, Of
<1>7. TypeOK'
  BY <1>1, <1>6, TypesStill DEF IInv, TypeOK, HotelTypeOK
<1>8. ASSUME b \notin torn PROVE Fits(c, b)'
  <2>1. Consistent(b) /\ \A d \in Calls \ {c} : Of(d)' = Of(d) /\ (HoldsPoll(d)' <=> HoldsPoll(d))
                                               /\ (HoldsCancel(d)' <=> HoldsCancel(d))
    BY <1>6, <1>8 DEF IInv, Of, HoldsPoll, HoldsCancel
  <2>2. /\ doc' = doc /\ change' = change /\ settled' = settled /\ refused' = refused
        /\ Copied(c, b) => Copied(c, b)'
    BY <1>1, <1>4, <1>6 DEF StillAll, Copied
  <2>3. step = "still" =>
          /\ doc[b].status = "PENDING_SUPPLIER" /\ queued[b]["poll"] = 0 /\ ~call[c].stale
          /\ \A d \in Calls \ {c} : Of(d) = b => ~HoldsPoll(d)
    BY <1>2, <1>3, <1>4, <2>1 DEF Consistent, OnePolls, HoldsPoll, Shape
  <2>4. step \in {"credit", "terminal"} =>
          /\ doc[b].status \in Cancelling /\ change[b] # "none" /\ queued[b]["poll-cancel"] = 0
          /\ settled[b] = 0
          /\ \A d \in Calls \ {c} : Of(d) = b => ~HoldsCancel(d)
    BY <1>2, <1>4, <2>1 DEF Consistent, OneCancels, Forward, SettledKnown, Decided, HoldsCancel, CancelSteps
  <2>5. ~Runs(c)' /\ (k.job = "poll" => step = "still")
    BY <1>4, <1>5, <1>6 DEF Runs, Shape
  <2>6. ~call[c].stale /\ pc[c] = "gate" => doc[b].status = "DRAFT" /\ Copied(c, b)
    BY <1>2, <2>1 DEF Consistent, FreshKnows
  <2>7. ~call[c].stale /\ pc[c] = "fetch" => doc[b].status = "PENDING_SUPPLIER" /\ Copied(c, b)
    BY <1>2, <2>1 DEF Consistent, FreshKnows
  <2> QED
    BY <1>1, <1>4, <1>6, <2>1, <2>2, <2>3, <2>4, <2>5, <2>6, <2>7 DEF Fits, Decided, CancelSteps
<1>9. ~Runs(c)
  BY <1>1 DEF Runs
<1> QED
  BY <1>1, <1>2, <1>6, <1>5, <1>7, <1>8, <1>9, Enters DEF StillAll


-----------------------------------------------------------------------------
(* Saves *)

\* What others know of themselves when c acts on b.
LEMMA Bystanders ==
    ASSUME TypeOK, NEW b \in Bookings, NEW c \in Calls, Others(c, b), NEW d \in Calls, d # c
    PROVE  /\ pc'[d] = pc[d] /\ Of(d)' = Of(d)
           /\ call'[d].debited = call[d].debited /\ call'[d].refunded = call[d].refunded
           /\ call'[d].checked = call[d].checked /\ call'[d].target = call[d].target
           /\ call'[d].job = call[d].job /\ call'[d].credited = call[d].credited
           /\ call[d].stale => call'[d].stale
           /\ Runs(d)' <=> Runs(d)
           /\ SavesVoucher(d)' <=> SavesVoucher(d)
           /\ HoldsPoll(d)' <=> HoldsPoll(d)
           /\ HoldsCancel(d)' <=> HoldsCancel(d)
<1>1. call[d] \in Call /\ pc'[d] = pc[d]
  BY Typed DEF Others
<1>2. /\ Of(d)' = Of(d)
      /\ call'[d].debited = call[d].debited /\ call'[d].refunded = call[d].refunded
      /\ call'[d].checked = call[d].checked /\ call'[d].target = call[d].target
      /\ call'[d].job = call[d].job /\ call'[d].credited = call[d].credited
      /\ call[d].stale => call'[d].stale
  <2>1. CASE call'[d] = call[d]
    BY <2>1 DEF Of
  <2>2. CASE call'[d] = [call[d] EXCEPT !.stale = TRUE]
    BY <1>1, <2>2 DEF Of, Call
  <2> QED
    BY <2>1, <2>2 DEF Others
<1> QED
  BY <1>1, <1>2 DEF Runs, SavesVoucher, HoldsPoll, HoldsCancel

\* Push, seen from its booking.
LEMMA PushFacts ==
    ASSUME IInv, NEW c \in Calls, NEW b \in Bookings, b = Of(c), NEW status \in Statuses,
           NEW k \in Call, NEW step \in Steps, Push(c, status, k), Goto(c, step)
    PROVE  /\ doc' \in [Bookings -> Document] /\ torn' \subseteq Bookings
           /\ pc' \in [Calls -> Steps] /\ call' \in [Calls -> Call]
           /\ pc'[c] = step /\ call'[c] = k /\ Others(c, b)
           /\ doc'[b].status = status
           /\ doc'[b].debited <=> (doc[b].debited \/ call[c].debited)
           /\ doc'[b].refunded <=> (doc[b].refunded \/ call[c].refunded)
           /\ \A e \in Bookings \ {b} : doc'[e] = doc[e]
           /\ torn \subseteq torn' /\ torn' \subseteq torn \cup {b}
           /\ b \notin torn' => b \notin torn /\ ~call[c].stale
           /\ \A d \in Calls \ {c} : Of(d) = b => call'[d].stale
<1>1. /\ doc \in [Bookings -> Document] /\ call \in [Calls -> Call] /\ pc \in [Calls -> Steps]
      /\ torn \subseteq Bookings
  BY DEF IInv, TypeOK, HotelTypeOK
<1>2. PICK x \in BOOLEAN, y \in BOOLEAN :
         (x <=> (doc[b].debited \/ call[c].debited)) /\ (y <=> (doc[b].refunded \/ call[c].refunded))
  OBVIOUS
<1>3. (doc[b].debited \/ call[c].debited) = x /\ (doc[b].refunded \/ call[c].refunded) = y
  BY <1>2
<1>4. doc' = [doc EXCEPT ![b].status = status, ![b].debited = x, ![b].refunded = y]
  BY <1>3 DEF Push
<1>5. /\ doc' \in [Bookings -> Document]
      /\ doc'[b].status = status /\ doc'[b].debited = x /\ doc'[b].refunded = y
      /\ \A e \in Bookings \ {b} : doc'[e] = doc[e]
  <2> DEFINE r == [doc[b] EXCEPT !.status = status, !.debited = x, !.refunded = y]
  <2>1. r \in Document /\ r.status = status /\ r.debited = x /\ r.refunded = y
    BY <1>1 DEF Document
  <2>2. doc' = [doc EXCEPT ![b] = r]
    BY <1>1, <1>4
  <2> HIDE DEF r
  <2> QED
    BY <1>1, <2>1, <2>2
<1>6. call' = [d \in Calls |-> IF d = c THEN k
                               ELSE IF Of(d) = b THEN [call[d] EXCEPT !.stale = TRUE] ELSE call[d]]
  BY DEF Push
<1>7. call'[c] = k /\ \A d \in Calls \ {c} :
        call'[d] = IF Of(d) = b THEN [call[d] EXCEPT !.stale = TRUE] ELSE call[d]
  BY <1>6
<1>8. call' \in [Calls -> Call]
  <2>1. \A d \in Calls : [call[d] EXCEPT !.stale = TRUE] \in Call /\ call[d] \in Call
    BY <1>1 DEF Call
  <2> QED
    BY <1>6, <2>1
<1>9. \A d \in Calls \ {c} : Of(d) = b => call'[d].stale
  BY <1>1, <1>7 DEF Call
<1>10. pc' \in [Calls -> Steps] /\ pc'[c] = step /\ \A d \in Calls \ {c} : pc'[d] = pc[d]
  BY <1>1 DEF Goto
<1>11. torn' = IF call[c].stale THEN torn \cup {b} ELSE torn
  BY DEF Push
<1> QED
  BY <1>1, <1>2, <1>5, <1>7, <1>8, <1>9, <1>10, <1>11 DEF Others

\* A save keeps the invariant when it keeps it of its booking.
LEMMA Pushes ==
    ASSUME IInv, NEW c \in Calls, NEW b \in Bookings, b = Of(c), NEW status \in Statuses,
           NEW k \in Call, NEW step \in Steps, Push(c, status, k), Goto(c, step),
           UNCHANGED <<lock, queued, room, doubled, money, refused, change, cancelJob, settled>>,
           k.booking \in {b, None}, Shape(step, k),
           b \notin torn' => Consistent(b)'
    PROVE  IInv'
<1>1. /\ doc' \in [Bookings -> Document] /\ torn' \subseteq Bookings
      /\ pc' \in [Calls -> Steps] /\ call' \in [Calls -> Call]
      /\ pc'[c] = step /\ call'[c] = k /\ Others(c, b)
      /\ \A e \in Bookings \ {b} : doc'[e] = doc[e]
      /\ torn \subseteq torn' /\ torn' \subseteq torn \cup {b}
  BY PushFacts
<1>2. TypeOK'
  BY <1>1 DEF IInv, TypeOK, HotelTypeOK
<1>3. OnlyAt(b) /\ Of(c)' \in {b, None}
  BY <1>1 DEF OnlyAt, Of
<1>4. cancelJob'[b].credited => cancelJob'[b].completed
  BY DEF IInv
<1> QED
  BY <1>1, <1>2, <1>3, <1>4, Acts

\* The last save of a call leaves its lock at most.
LEMMA LastPush ==
    ASSUME IInv, NEW c \in Calls, pc[c] # "idle", NEW status, PushAndLeave(c, status)
    PROVE  \E k \in Call, step \in Resting :
             /\ Push(c, status, k) /\ Goto(c, step) /\ step \in Steps
             /\ ~k.checked /\ k.job = None /\ k.booking \in {Of(c), None} /\ Shape(step, k)
<1>1. Of(c) \in Bookings
  BY DEF IInv, Shape, Of
<1>2. CASE call[c].locked
  <2> DEFINE k == [NoCall EXCEPT !.booking = Of(c), !.locked = TRUE]
  <2>1. k \in Call /\ k.booking = Of(c) /\ ~k.checked /\ k.job = None /\ k.left = 0
    BY <1>1 DEF NoCall, Call
  <2>2. Shape("unlock", k)
    BY <1>1, <2>1, HotelAssumption DEF Shape, CancelSteps
  <2>3. Push(c, status, k) /\ Goto(c, "unlock")
    BY <1>2 DEF PushAndLeave, Released
  <2> HIDE DEF k
  <2> QED
    BY <2>1, <2>2, <2>3 DEF Resting, Steps
<1>3. CASE ~call[c].locked
  <2>1. NoCall \in Call /\ NoCall.booking = None /\ ~NoCall.checked /\ NoCall.job = None /\ NoCall.left = 0
    BY DEF NoCall, Call
  <2>2. Shape("idle", NoCall)
    BY <2>1, HotelAssumption DEF Shape, CancelSteps
  <2>3. Push(c, status, NoCall) /\ Goto(c, "idle")
    BY <1>3 DEF PushAndLeave, Released
  <2> QED
    BY <2>1, <2>2, <2>3 DEF Resting, Steps
<1> QED
  BY <1>2, <1>3

\* Block, AskApproval, Approve, Reject: a booking that nobody has booked yet.
LEMMA EarlySteps ==
    ASSUME IInv, NEW c \in Calls, UNCHANGED cancelVars,
           \/ Block(c) \/ Approve(c) \/ Reject(c)
           \/ AskApproval(c) /\ ~call[c].stale
    PROVE  IInv'
<1>1. /\ UNCHANGED <<lock, queued, room, doubled, money, refused, change, cancelJob, settled>>
      /\ pc[c] \in {"block", "askApproval", "approve", "reject"}
  BY DEF Block, Approve, Reject, AskApproval, supplier, books, cancelVars
<1>2. PICK b \in Bookings : b = Of(c)
  BY <1>1 DEF IInv, Shape, Of
<1>3. Shape(pc[c], call[c]) /\ call[c] \in Call /\ None # b
  BY Typed DEF IInv
<1>4. PICK status \in Statuses, k \in Call, step \in Steps :
         /\ Push(c, status, k) /\ Goto(c, step) /\ Shape(step, k) /\ k.booking \in {b, None}
         /\ ~k.checked /\ k.job # "poll"
         /\ \/ step \in Resting /\ status \in {"BOOK_FAILED", "AWAITING_APPROVAL"}
            \/ /\ step = "debit" /\ status = "APPROVED"
               /\ k.booking = b /\ k.debited = call[c].debited /\ k.refunded = call[c].refunded
  <2>1. CASE Approve(c)
    <3>1. Shape("debit", call[c]) /\ ~call[c].checked /\ call[c].job # "poll"
      BY <1>3, <2>1 DEF Approve, Shape, CancelSteps
    <3> QED
      BY <1>2, <1>3, <2>1, <3>1 DEF Approve, Statuses, Steps, Of
  <2>2. CASE ~Approve(c)
    <3>1. PICK status \in {"BOOK_FAILED", "AWAITING_APPROVAL"} : PushAndLeave(c, status)
      BY <2>2 DEF Block, Reject, AskApproval
    <3>2. PICK k \in Call, step \in Resting :
             /\ Push(c, status, k) /\ Goto(c, step) /\ step \in Steps
             /\ ~k.checked /\ k.job = None /\ k.booking \in {Of(c), None} /\ Shape(step, k)
      BY <1>1, <3>1, LastPush
    <3> QED
      BY <1>2, <3>1, <3>2, HotelAssumption DEF Statuses
  <2> QED
    BY <2>1, <2>2
<1>5. ASSUME b \notin torn' PROVE Consistent(b)'
  <2>1. /\ pc'[c] = step /\ call'[c] = k /\ Others(c, b)
        /\ doc'[b].status = status
        /\ doc'[b].debited <=> (doc[b].debited \/ call[c].debited)
        /\ doc'[b].refunded <=> (doc[b].refunded \/ call[c].refunded)
        /\ b \notin torn /\ ~call[c].stale
        /\ \A d \in Calls \ {c} : Of(d) = b => call'[d].stale
    BY <1>2, <1>4, <1>5, PushFacts
  <2>2. Consistent(b)
    BY <2>1 DEF IInv
  <2>3. /\ doc[b].status \in {"DRAFT", "AWAITING_APPROVAL"} /\ Copied(c, b)
    BY <1>1, <1>2, <2>1, <2>2 DEF Consistent, FreshKnows
  <2>4. (doc'[b].debited <=> doc[b].debited) /\ (doc'[b].refunded <=> doc[b].refunded)
    BY <2>1, <2>3 DEF Copied
  <2>5. /\ \A d \in Calls : Of(d) = b => ~Runs(d) /\ ~HoldsPoll(d) /\ ~HoldsCancel(d)
        /\ change[b] = "none"
    BY <2>2, <2>3 DEF Consistent, OneRuns, OnePolls, OneCancels, Early, Cancelling
  <2>6. \A d \in Calls : Of(d) = b => pc[d] \notin {"generate", "send", "createJob", "request", "enqueueCancel"} \cup CancelSteps
                                       /\ ~SavesVoucher(d)
    BY <2>2, <2>3, <2>5 DEF Consistent, Forward, Cancelling, HoldsCancel
  <2>7. /\ ~Runs(c)' /\ ~HoldsPoll(c)' /\ ~HoldsCancel(c)' /\ ~SavesVoucher(c)'
        /\ step \in Resting \cup {"debit"}
    BY <1>4, <2>1 DEF Runs, HoldsPoll, HoldsCancel, SavesVoucher, Resting, CancelSteps
  <2>8. \A d \in Calls : Of(d)' = b =>
          /\ ~Runs(d)' /\ ~HoldsPoll(d)' /\ ~HoldsCancel(d)' /\ ~SavesVoucher(d)'
          /\ d # c => call'[d].stale /\ pc'[d] = pc[d] /\ Of(d) = b
    BY <2>1, <2>2, <2>5, <2>6, <2>7, Bystanders DEF IInv
  <2>9. \A d \in Calls : Of(d)' = b => pc'[d] \notin {"generate", "send", "createJob", "request", "enqueueCancel"} \cup CancelSteps
    BY <2>1, <2>6, <2>7, <2>8 DEF Resting, CancelSteps
  <2>10. FreshKnows(b)'
    BY <1>2, <1>4, <2>1, <2>3, <2>4, <2>7, <2>8 DEF FreshKnows, Resting, Copied
  <2>11. OneRuns(b)' /\ OnePolls(b)' /\ Forward(b)' /\ OneCancels(b)'
    <3>1. queued'[b]["poll"] = 0 /\ queued'[b]["poll-cancel"] = 0
      BY <1>1, <2>2, <2>3, <2>5, Typed DEF Consistent, OnePolls, OneCancels, Early, IInv
    <3> QED
      BY <1>1, <1>4, <2>1, <2>5, <2>8, <2>9, <3>1
         DEF OneRuns, OnePolls, Forward, OneCancels, Cancelling, CancelSteps
  <2>12. RoomKnown(b)'
    <3>1. room[b] = "none" /\ b \notin doubled
      BY <2>2, <2>3 DEF Consistent, RoomKnown, RoomFor, Early
    <3> QED
      BY <1>1, <1>4, <2>1, <2>5, <2>8, <3>1 DEF RoomKnown, RoomFor, Runs, GivenUp
  <2>13. MoneyKnown(b)'
    <3>1. InFlight(b)' = InFlight(b)
      BY <1>1, <1>2, <2>1, <2>7, <2>8, Bystanders DEF InFlight, Resting, IInv
    <3>2. Fell(b)' <=> Fell(b)
      BY <1>1, <3>1 DEF Fell, Committed
    <3> QED
      BY <1>1, <1>4, <2>1, <2>2, <2>3, <2>4, <2>5, <2>8, <3>2 DEF Consistent, MoneyKnown, Early, Cancelling
  <2>14. SettledKnown(b)'
    BY <1>1, <1>4, <2>1, <2>2, <2>9 DEF Consistent, SettledKnown, Decided, CancelSteps
  <2> QED
    BY <2>10, <2>11, <2>12, <2>13, <2>14 DEF Consistent
<1> QED
  BY <1>1, <1>2, <1>4, <1>5, Pushes


-----------------------------------------------------------------------------
(* executeTboBook: the debit, the save before Book, Book, the refund *)

LEMMA DebitStep ==
    ASSUME IInv, NEW c \in Calls, UNCHANGED cancelVars, Debit(c)
    PROVE  IInv'
<1>1. /\ UNCHANGED <<doc, lock, queued, room, doubled, refused, torn, call, change, cancelJob, settled>>
      /\ pc[c] = "debit" /\ pc' = [pc EXCEPT ![c] = "debited"]
      /\ money' = [money EXCEPT ![Of(c)].debit = @ + 1]
  BY DEF Debit, Goto, supplier, cancelVars
<1>2. PICK b \in Bookings : b = Of(c)
  BY <1>1 DEF IInv, Shape, Of
<1>3. /\ Shape(pc[c], call[c]) /\ call[c] \in Call /\ money[b] \in [debit : Nat, refund : Nat]
      /\ IsFiniteSet(InFlight(b)) /\ Cardinality(InFlight(b)) \in Nat
  BY Typed DEF IInv
<1>4. /\ money' \in [Bookings -> [debit : Nat, refund : Nat]]
      /\ money'[b].debit = money[b].debit + 1 /\ money'[b].refund = money[b].refund
      /\ \A e \in Bookings \ {b} : money'[e] = money[e]
  <2> DEFINE r == [money[b] EXCEPT !.debit = @ + 1]
  <2>1. r \in [debit : Nat, refund : Nat] /\ r.debit = money[b].debit + 1 /\ r.refund = money[b].refund
    BY <1>3
  <2>2. money' = [money EXCEPT ![b] = r] /\ money \in [Bookings -> [debit : Nat, refund : Nat]]
    BY <1>1, <1>2 DEF IInv, TypeOK, HotelTypeOK
  <2> HIDE DEF r
  <2> QED
    BY <2>1, <2>2
<1>5. /\ pc' \in [Calls -> Steps] /\ pc'[c] = "debited" /\ \A d \in Calls \ {c} : pc'[d] = pc[d]
  BY <1>1 DEF IInv, TypeOK, HotelTypeOK, Steps
<1>6. TypeOK'
  BY <1>1, <1>4, <1>5 DEF IInv, TypeOK, HotelTypeOK
<1>7. Shape(pc'[c], call'[c])
  BY <1>1, <1>3, <1>5 DEF Shape, CancelSteps
<1>8. OnlyAt(b) /\ Others(c, b) /\ Of(c)' = b
  BY <1>1, <1>2, <1>4, <1>5 DEF OnlyAt, Others, Of
<1>9. Committed(b)' = Committed(b)
  <2>1. InFlight(b)' = InFlight(b) \cup {c} /\ c \notin InFlight(b)
    BY <1>1, <1>2, <1>5 DEF InFlight, Of
  <2>2. Cardinality(InFlight(b)') = Cardinality(InFlight(b)) + 1
    BY <1>3, <2>1, FS_AddElement
  <2> QED
    BY <1>3, <1>4, <2>2 DEF Committed
<1>10. ASSUME b \notin torn' PROVE Consistent(b)'
  <2>1. Consistent(b)
    BY <1>1, <1>10 DEF IInv
  <2>2. /\ Stands(b)' <=> Stands(b)
        /\ Fell(b)' <=> Fell(b)
    BY <1>1, <1>4, <1>9 DEF Stands, Fell
  <2>3. \A d \in Calls : /\ Of(d)' = Of(d) /\ call'[d] = call[d]
                         /\ Runs(d)' <=> Runs(d)
                         /\ SavesVoucher(d)' <=> SavesVoucher(d)
                         /\ HoldsPoll(d)' <=> HoldsPoll(d)
                         /\ HoldsCancel(d)' <=> HoldsCancel(d)
                         /\ pc'[d] = pc[d] \/ (d = c /\ pc[d] = "debit" /\ pc'[d] = "debited")
    <3>1. ASSUME NEW d \in Calls
          PROVE  /\ Of(d)' = Of(d) /\ call'[d] = call[d]
                 /\ pc'[d] = pc[d] \/ (d = c /\ pc[d] = "debit" /\ pc'[d] = "debited")
      BY <1>1, <1>5 DEF Of
    <3> QED
      BY <3>1 DEF Runs, SavesVoucher, HoldsPoll, HoldsCancel, CancelSteps
  <2>4. FreshKnows(b)'
    BY <1>1, <2>1, <2>3 DEF Consistent, FreshKnows, Copied
  <2>5. OneRuns(b)'
    BY <1>1, <2>1, <2>3 DEF Consistent, OneRuns
  <2>6. OnePolls(b)'
    BY <1>1, <2>1, <2>3 DEF Consistent, OnePolls
  <2>7. Forward(b)'
    BY <1>1, <2>1, <2>3 DEF Consistent, Forward, CancelSteps
  <2>8. OneCancels(b)'
    BY <1>1, <2>1, <2>3 DEF Consistent, OneCancels
  <2>9. RoomKnown(b)'
    BY <1>1, <2>1, <2>3 DEF Consistent, RoomKnown, RoomFor
  <2>10. MoneyKnown(b)'
    BY <1>1, <1>4, <1>9, <2>1, <2>2, <2>3 DEF Consistent, MoneyKnown
  <2>11. SettledKnown(b)'
    BY <1>1, <2>1, <2>3 DEF Consistent, SettledKnown, Decided
  <2> QED
    BY <2>4, <2>5, <2>6, <2>7, <2>8, <2>9, <2>10, <2>11 DEF Consistent
<1>11. cancelJob'[b].credited => cancelJob'[b].completed
  BY <1>1 DEF IInv
<1> QED
  BY <1>2, <1>6, <1>7, <1>8, <1>10, <1>11, Acts

\* The save before Book makes the call the one that money hangs on.
LEMMA SaveInterimStep ==
    ASSUME IInv, NEW c \in Calls, UNCHANGED cancelVars, SaveInterim(c)
    PROVE  IInv'
<1>1. /\ UNCHANGED <<lock, queued, room, doubled, money, refused, change, cancelJob, settled>>
      /\ pc[c] = "debited"
  BY DEF SaveInterim, supplier, books, cancelVars
<1>2. PICK b \in Bookings : b = Of(c)
  BY <1>1 DEF IInv, Shape, Of
<1>3. /\ Shape(pc[c], call[c]) /\ call[c] \in Call /\ money[b] \in [debit : Nat, refund : Nat]
      /\ IsFiniteSet(InFlight(b)) /\ Cardinality(InFlight(b)) \in Nat
  BY Typed DEF IInv
<1>4. PICK k \in Call :
         /\ Push(c, "APPROVED", k) /\ Goto(c, "book") /\ Shape("book", k)
         /\ k.booking = b /\ k.debited /\ k.checked /\ ~HoldsCancel(c)
         /\ (k.refunded <=> call[c].refunded) /\ k.stale = call[c].stale /\ k.job = None
  <2> DEFINE k == [call[c] EXCEPT !.debited = TRUE, !.checked = TRUE]
  <2>1. Push(c, "APPROVED", k) /\ Goto(c, "book")
    BY DEF SaveInterim, Interim
  <2>2. /\ k \in Call /\ k.booking = b /\ k.debited /\ k.checked
        /\ k.refunded = call[c].refunded /\ k.stale = call[c].stale /\ k.job = call[c].job
        /\ k.credited = call[c].credited /\ k.left = call[c].left
    BY <1>2, <1>3 DEF Call, Of
  <2>3. k.job = None
    BY <1>1, <1>3, <2>2 DEF Shape, CancelSteps, Call, Jobs
  <2>4. Shape("book", k)
    BY <1>1, <1>2, <1>3, <2>2, <2>3, HotelAssumption DEF Shape, CancelSteps, Of
  <2> HIDE DEF k
  <2> QED
    BY <1>1, <2>1, <2>2, <2>3, <2>4 DEF HoldsCancel, CancelSteps
<1>5. ASSUME b \notin torn' PROVE Consistent(b)'
  <2>1. /\ pc'[c] = "book" /\ call'[c] = k /\ Others(c, b)
        /\ doc'[b].status = "APPROVED"
        /\ doc'[b].debited <=> (doc[b].debited \/ call[c].debited)
        /\ doc'[b].refunded <=> (doc[b].refunded \/ call[c].refunded)
        /\ b \notin torn /\ ~call[c].stale
        /\ \A d \in Calls \ {c} : Of(d) = b => call'[d].stale
    <3>1. "APPROVED" \in Statuses /\ "book" \in Steps
      BY DEF Statuses, Steps
    <3> QED
      BY <1>2, <1>4, <1>5, <3>1, PushFacts
  <2>2. Consistent(b)
    BY <2>1 DEF IInv
  <2>3. /\ doc[b].status \in {"DRAFT", "APPROVED"} /\ Copied(c, b)
        /\ \A d \in Calls : Of(d) = b => ~Runs(d)
    BY <1>1, <1>2, <2>1, <2>2 DEF Consistent, FreshKnows, OneRuns
  <2>4. (doc'[b].debited <=> doc[b].debited) /\ (doc'[b].refunded <=> doc[b].refunded)
    BY <2>1, <2>3 DEF Copied
  <2>5. /\ \A d \in Calls : Of(d) = b => ~HoldsPoll(d) /\ ~HoldsCancel(d)
        /\ change[b] = "none"
    BY <2>2, <2>3 DEF Consistent, OnePolls, OneCancels, Early, Cancelling
  <2>6. \A d \in Calls : Of(d) = b => pc[d] \notin {"generate", "send", "createJob", "request", "enqueueCancel"} \cup CancelSteps
                                       /\ ~SavesVoucher(d)
    BY <2>2, <2>3, <2>5 DEF Consistent, Forward, Cancelling, HoldsCancel
  <2>7. /\ Runs(c)' /\ ~HoldsPoll(c)' /\ ~HoldsCancel(c)' /\ ~SavesVoucher(c)' /\ Of(c)' = b
    BY <1>4, <2>1, HotelAssumption DEF Runs, HoldsPoll, HoldsCancel, SavesVoucher, CancelSteps, Of
  <2>8. \A d \in Calls : Of(d)' = b /\ d # c =>
          /\ ~Runs(d)' /\ ~HoldsPoll(d)' /\ ~HoldsCancel(d)' /\ ~SavesVoucher(d)'
          /\ call'[d].stale /\ pc'[d] = pc[d] /\ Of(d) = b
    BY <2>1, <2>2, <2>3, <2>5, <2>6, Bystanders DEF IInv
  <2>9. \A d \in Calls : Of(d)' = b => pc'[d] \notin {"generate", "send", "createJob", "request", "enqueueCancel"} \cup CancelSteps
    BY <2>1, <2>6, <2>8 DEF CancelSteps
  <2>10. FreshKnows(b)'
    BY <1>2, <2>1, <2>7, <2>8 DEF FreshKnows
  <2>11. OneRuns(b)' /\ OnePolls(b)' /\ Forward(b)' /\ OneCancels(b)'
    <3>1. queued'[b]["poll"] = 0 /\ queued'[b]["poll-cancel"] = 0
      BY <1>1, <2>2, <2>3, <2>5, Typed DEF Consistent, OnePolls, OneCancels, Early, IInv
    <3>2. OneRuns(b)'
      BY <1>4, <2>1, <2>7, <2>8 DEF OneRuns
    <3>3. OnePolls(b)' /\ Forward(b)' /\ OneCancels(b)'
      BY <1>1, <2>1, <2>5, <2>7, <2>8, <2>9, <3>1
         DEF OnePolls, Forward, OneCancels, Cancelling, CancelSteps
    <3> QED
      BY <3>2, <3>3
  <2>12. RoomKnown(b)'
    <3>1. room[b] = "none" /\ b \notin doubled
      BY <2>2, <2>3 DEF Consistent, RoomKnown, RoomFor, Early
    <3> QED
      BY <1>1, <2>1, <2>5, <2>7, <2>8, <3>1 DEF RoomKnown, RoomFor, GivenUp
  <2>13. MoneyKnown(b)'
    <3>1. Committed(b)' = Committed(b) + 1
      <4>1. InFlight(b)' = InFlight(b) \ {c} /\ c \in InFlight(b)
        BY <1>1, <1>2, <2>1, <2>7, <2>8, Bystanders DEF InFlight, IInv
      <4>2. Cardinality(InFlight(b)') = Cardinality(InFlight(b)) - 1
        BY <1>3, <4>1, FS_RemoveElement
      <4> QED
        BY <1>1, <1>3, <4>2 DEF Committed
    <3>2. /\ Fell(b) /\ Committed(b) \in Int
          /\ money[b].refund \in {0, 1} /\ (doc[b].refunded <=> money[b].refund = 1)
      BY <1>3, <2>2, <2>3 DEF Consistent, MoneyKnown, Early, Cancelling, Committed
    <3>3. Stands(b)'
      BY <1>1, <3>1, <3>2 DEF Fell, Stands
    <3>4. \E d \in Calls : Of(d)' = b /\ Runs(d)'
      BY <2>7
    <3>5. \A d \in Calls : Of(d)' = b /\ Runs(d)' => d = c
      BY <2>8
    <3>6. /\ call'[c].debited /\ (call'[c].refunded <=> money[b].refund = 1)
          /\ doc'[b].refunded => call'[c].refunded
      BY <1>4, <2>1, <2>3, <2>4, <3>2 DEF Copied
    <3> QED
      BY <1>1, <2>1, <3>2, <3>3, <3>4, <3>5, <3>6 DEF MoneyKnown
  <2>14. SettledKnown(b)'
    BY <1>1, <2>1, <2>2, <2>9 DEF Consistent, SettledKnown, Decided, CancelSteps
  <2> QED
    BY <2>10, <2>11, <2>12, <2>13, <2>14 DEF Consistent
<1> QED
  BY <1>1, <1>2, <1>4, <1>5, Pushes DEF Statuses, Steps


\* What follows for the other calls of a booking of which c is the runner.
LEMMA RunnerAlone ==
    ASSUME TypeOK, NEW b \in Bookings, NEW c \in Calls, Consistent(b), Of(c) = b, Runs(c), Others(c, b)
    PROVE  \A d \in Calls : Of(d)' = b /\ d # c =>
             /\ ~Runs(d)' /\ ~SavesVoucher(d)' /\ pc'[d] = pc[d] /\ Of(d) = b
             /\ pc[d] \notin {"generate", "send", "createJob", "request", "enqueueCancel"} \cup CancelSteps
             /\ pc[d] \in {"debit", "debited"} => call[d].stale
             /\ call[d].stale => call'[d].stale
             /\ HoldsPoll(d)' <=> HoldsPoll(d)
             /\ ~HoldsCancel(d)'
<1>1. /\ ~call[c].stale /\ doc[b].status \in {"APPROVED", "PENDING_SUPPLIER"}
      /\ \A d \in Calls : Of(d) = b /\ pc[d] \in {"debit", "debited"} => call[d].stale
      /\ \A d \in Calls : Of(d) = b /\ Runs(d) => d = c
  BY DEF Consistent, OneRuns
<1>2. \A d \in Calls : Of(d) = b => /\ ~SavesVoucher(d) /\ ~HoldsCancel(d)
                                    /\ pc[d] \notin {"generate", "send", "createJob", "request", "enqueueCancel"} \cup CancelSteps
  BY <1>1 DEF Consistent, Forward, OneCancels, Cancelling, HoldsCancel
<1> QED
  BY <1>1, <1>2, Bystanders

LEMMA BookStep ==
    ASSUME IInv, NEW c \in Calls, UNCHANGED cancelVars, Book(c)
    PROVE  IInv'
<1>1. /\ UNCHANGED <<doc, lock, queued, money, refused, torn, change, cancelJob, settled>>
      /\ pc[c] = "book"
  BY DEF Book, books, cancelVars
<1>2. PICK b \in Bookings : b = Of(c)
  BY <1>1 DEF IInv, Shape, Of
<1>3. /\ Shape(pc[c], call[c]) /\ call[c] \in Call /\ call[c].checked /\ call[c].job = None
      /\ room \in [Bookings -> Rooms] /\ doubled \subseteq Bookings
  BY <1>1, Typed DEF IInv, TypeOK, HotelTypeOK, Shape
<1>4. PICK answer \in Answers :
         /\ IF answer[1] = "none" THEN room' = room /\ doubled' = doubled
            ELSE /\ room' = [room EXCEPT ![b] = answer[1]]
                 /\ doubled' = IF room[b] \in Live THEN doubled \cup {b} ELSE doubled
         /\ call' = [call EXCEPT ![c].target = answer[2]]
         /\ pc' = [pc EXCEPT ![c] = IF answer[2] \in {"DRAFT", "BOOK_FAILED"} THEN "refund" ELSE "save"]
  BY <1>2 DEF Book, Goto, supplier
<1>5. PICK was \in Rooms, target \in Statuses :
         /\ answer[1] = was /\ answer[2] = target
         /\ target \in {"VOUCHERED", "HELD", "PENDING_SUPPLIER", "DRAFT", "BOOK_FAILED"}
         /\ target = "VOUCHERED" => was = "confirmed"
         /\ target = "HELD" => was = "held"
         /\ target = "PENDING_SUPPLIER" => was = "pending"
         /\ target = "DRAFT" => was = "none"
  BY DEF Answers, Rooms, Statuses
<1>6. PICK step \in {"refund", "save"} :
         /\ pc' = [pc EXCEPT ![c] = step]
         /\ step = IF target \in {"DRAFT", "BOOK_FAILED"} THEN "refund" ELSE "save"
  BY <1>4, <1>5
<1>7. PICK k \in Call :
         /\ call' = [call EXCEPT ![c] = k]
         /\ k.booking = b /\ k.stale = call[c].stale /\ k.debited = call[c].debited
         /\ k.refunded = call[c].refunded /\ k.checked /\ k.job = None /\ k.target = target
         /\ k.credited = call[c].credited /\ k.left = call[c].left
  <2> DEFINE k == [call[c] EXCEPT !.target = target]
  <2>1. call' = [call EXCEPT ![c] = k]
    BY <1>4, <1>5
  <2>2. /\ k \in Call /\ k.booking = b /\ k.stale = call[c].stale /\ k.debited = call[c].debited
        /\ k.refunded = call[c].refunded /\ k.checked /\ k.job = None /\ k.target = target
        /\ k.credited = call[c].credited /\ k.left = call[c].left
    BY <1>2, <1>3 DEF Call, Of
  <2> HIDE DEF k
  <2> QED
    BY <2>1, <2>2
<1>8. /\ pc' \in [Calls -> Steps] /\ call' \in [Calls -> Call]
      /\ pc'[c] = step /\ call'[c] = k /\ Of(c)' = b
      /\ \A d \in Calls \ {c} : pc'[d] = pc[d] /\ call'[d] = call[d]
  BY <1>6, <1>7 DEF IInv, TypeOK, HotelTypeOK, Of, Steps
<1>9. /\ room' \in [Bookings -> Rooms] /\ doubled' \subseteq Bookings
      /\ room'[b] = IF was = "none" THEN room[b] ELSE was
      /\ room[b] = "none" => doubled' = doubled
      /\ doubled' \subseteq doubled \cup {b}
      /\ \A e \in Bookings \ {b} : room'[e] = room[e]
  BY <1>3, <1>4, <1>5 DEF Live
<1>10. TypeOK'
  BY <1>1, <1>8, <1>9 DEF IInv, TypeOK, HotelTypeOK
<1>11. Shape(step, k)
  BY <1>1, <1>3, <1>5, <1>6, <1>7, HotelAssumption DEF Shape, CancelSteps
<1>12. OnlyAt(b) /\ Others(c, b)
  BY <1>1, <1>8, <1>9 DEF OnlyAt, Others
<1>13. ASSUME b \notin torn' PROVE Consistent(b)'
  <2>1. Consistent(b) /\ Runs(c) /\ Of(c) = b /\ TypeOK
    BY <1>1, <1>2, <1>13 DEF IInv, Runs
  <2>2. /\ doc[b].status = "APPROVED" /\ ~call[c].stale /\ room[b] = "none" /\ b \notin doubled
        /\ change[b] = "none"
    BY <1>1, <1>3, <2>1 DEF Consistent, OneRuns, RoomKnown, OneCancels, Cancelling
  <2>3. /\ Runs(c)' /\ ~SavesVoucher(c)' /\ ~HoldsPoll(c)' /\ ~HoldsCancel(c)' /\ pc'[c] \in {"refund", "save"}
    BY <1>6, <1>7, <1>8, HotelAssumption DEF Runs, SavesVoucher, HoldsPoll, HoldsCancel, CancelSteps
  <2>4. \A d \in Calls : Of(d)' = b /\ d # c =>
          /\ ~Runs(d)' /\ ~SavesVoucher(d)' /\ pc'[d] = pc[d] /\ Of(d) = b /\ call'[d] = call[d]
          /\ pc[d] \notin {"generate", "send", "createJob", "request", "enqueueCancel"} \cup CancelSteps
          /\ pc[d] \in {"debit", "debited"} => call[d].stale
          /\ ~HoldsPoll(d)' /\ ~HoldsCancel(d)'
    <3>1. \A d \in Calls : Of(d) = b => ~HoldsPoll(d)
      BY <2>1, <2>2 DEF Consistent, OnePolls
    <3> QED
      BY <1>8, <1>12, <2>1, <3>1, RunnerAlone
  <2>5. FreshKnows(b)'
    BY <1>1, <2>1, <2>3, <2>4 DEF Consistent, FreshKnows, Copied
  <2>6. OneRuns(b)'
    BY <1>1, <1>7, <1>8, <2>2, <2>3, <2>4 DEF OneRuns
  <2>7. OnePolls(b)' /\ Forward(b)' /\ OneCancels(b)'
    <3>1. queued'[b]["poll"] = 0 /\ queued'[b]["poll-cancel"] = 0
      BY <1>1, <2>1, <2>2, Typed DEF Consistent, OnePolls, OneCancels, Early, IInv
    <3> QED
      BY <1>1, <2>2, <2>3, <2>4, <3>1 DEF OnePolls, Forward, OneCancels, Cancelling, CancelSteps
  <2>8. RoomKnown(b)'
    <3>1. RoomFor(target, b)'
      BY <1>5, <1>9, <2>2 DEF RoomFor, Early
    <3>2. \A d \in Calls : Of(d)' = b /\ Runs(d)' => d = c
      BY <2>4
    <3>3. RoomFor(call[c].target, b)'
      BY <1>7, <1>8, <3>1 DEF RoomFor
    <3>4. /\ b \notin doubled' /\ doc'[b].status = "APPROVED" /\ change'[b] \notin GivenUp
          /\ \E d \in Calls : Of(d)' = b /\ Runs(d)'
      BY <1>1, <1>8, <1>9, <2>2, <2>3 DEF GivenUp
    <3> QED
      BY <2>3, <2>4, <3>2, <3>3, <3>4 DEF RoomKnown, Runs
  <2>9. MoneyKnown(b)'
    <3>1. InFlight(b)' = InFlight(b)
      BY <1>1, <1>2, <2>3, <2>4, Bystanders, <1>12, <2>1 DEF InFlight
    <3>2. Stands(b) => Stands(b)'
      BY <1>1, <3>1 DEF Stands, Committed
    <3> QED
      BY <1>1, <1>6, <1>7, <1>8, <2>1, <2>3, <2>4, <3>2 DEF Consistent, MoneyKnown
  <2>10. SettledKnown(b)'
    BY <1>1, <2>1, <2>2, <2>3, <2>4 DEF Consistent, SettledKnown, Decided, CancelSteps
  <2> QED
    BY <2>5, <2>6, <2>7, <2>8, <2>9, <2>10 DEF Consistent
<1>14. cancelJob'[b].credited => cancelJob'[b].completed
  BY <1>1 DEF IInv
<1> QED
  BY <1>2, <1>8, <1>10, <1>11, <1>12, <1>13, <1>14, Acts


LEMMA RefundStep ==
    ASSUME IInv, NEW c \in Calls, UNCHANGED cancelVars, Refund(c)
    PROVE  IInv'
<1>1. /\ UNCHANGED <<doc, lock, queued, room, doubled, torn, change, cancelJob, settled>>
      /\ pc[c] = "refund" /\ pc' = [pc EXCEPT ![c] = "save"]
  BY DEF Refund, Goto, supplier, cancelVars
<1>2. PICK b \in Bookings : b = Of(c)
  BY <1>1 DEF IInv, Shape, Of
<1>3. /\ Shape(pc[c], call[c]) /\ call[c] \in Call /\ money[b] \in [debit : Nat, refund : Nat]
      /\ money \in [Bookings -> [debit : Nat, refund : Nat]] /\ refused \subseteq Bookings
      /\ IsFiniteSet(InFlight(b)) /\ Cardinality(InFlight(b)) \in Nat
  BY Typed DEF IInv, TypeOK, HotelTypeOK
<1>4. PICK paid \in {0, 1}, k \in Call :
         /\ money' = [money EXCEPT ![b] = [@ EXCEPT !.refund = money[b].refund + paid]]
         /\ call' = [call EXCEPT ![c] = k]
         /\ k.booking = b /\ k.stale = call[c].stale /\ k.debited = call[c].debited
         /\ k.checked = call[c].checked /\ k.job = call[c].job /\ k.target = call[c].target
         /\ k.credited = call[c].credited /\ k.left = call[c].left
         /\ k.refunded <=> call[c].refunded \/ paid = 1
         /\ paid = 1 => RefundDue(c)
         /\ refused' \in {refused, refused \cup {b}}
         /\ paid = 1 \/ ~RefundDue(c) \/ b \in refused'
  <2>1. CASE RefundDue(c) /\ money' = [money EXCEPT ![b].refund = @ + 1]
             /\ call' = [call EXCEPT ![c].refunded = TRUE] /\ UNCHANGED refused
    <3> DEFINE k == [call[c] EXCEPT !.refunded = TRUE]
    <3>1. /\ call' = [call EXCEPT ![c] = k]
          /\ money' = [money EXCEPT ![b] = [@ EXCEPT !.refund = money[b].refund + 1]]
      BY <1>3, <2>1
    <3>2. /\ k \in Call /\ k.booking = b /\ k.stale = call[c].stale /\ k.debited = call[c].debited
          /\ k.checked = call[c].checked /\ k.job = call[c].job /\ k.target = call[c].target
          /\ k.credited = call[c].credited /\ k.left = call[c].left /\ k.refunded
      BY <1>2, <1>3 DEF Call, Of
    <3> HIDE DEF k
    <3> QED
      BY <2>1, <3>1, <3>2
  <2>2. CASE UNCHANGED <<money, call>> /\ refused' \in {refused, refused \cup {b}}
             /\ (~RefundDue(c) \/ b \in refused')
    <3>1. /\ call' = [call EXCEPT ![c] = call[c]]
          /\ money' = [money EXCEPT ![b] = [@ EXCEPT !.refund = money[b].refund + 0]]
      BY <1>3, <2>2 DEF IInv, TypeOK, HotelTypeOK
    <3>2. call[c].booking = b
      BY <1>2 DEF Of
    <3>3. /\ call[c].refunded <=> (call[c].refunded \/ 0 = 1)
          /\ 0 = 1 => RefundDue(c)
          /\ 0 = 1 \/ ~RefundDue(c) \/ b \in refused'
      BY <2>2
    <3>4. PICK paid \in {0, 1} : paid = 0
      OBVIOUS
    <3> QED
      BY <1>3, <2>2, <3>1, <3>2, <3>3, <3>4
  <2> QED
    BY <1>2, <2>1, <2>2 DEF Refund, books
<1>5. /\ pc' \in [Calls -> Steps] /\ call' \in [Calls -> Call]
      /\ pc'[c] = "save" /\ call'[c] = k /\ Of(c)' = b
      /\ \A d \in Calls \ {c} : pc'[d] = pc[d] /\ call'[d] = call[d]
  BY <1>1, <1>4 DEF IInv, TypeOK, HotelTypeOK, Of, Steps
<1>6. /\ money' \in [Bookings -> [debit : Nat, refund : Nat]]
      /\ money'[b].debit = money[b].debit /\ money'[b].refund = money[b].refund + paid
      /\ \A e \in Bookings \ {b} : money'[e] = money[e]
  <2> DEFINE r == [money[b] EXCEPT !.refund = money[b].refund + paid]
  <2>1. /\ r \in [debit : Nat, refund : Nat] /\ r.debit = money[b].debit
        /\ r.refund = money[b].refund + paid
    BY <1>3
  <2>2. money' = [money EXCEPT ![b] = r]
    BY <1>3, <1>4
  <2> HIDE DEF r
  <2> QED
    BY <1>3, <2>1, <2>2
<1>7. TypeOK'
  BY <1>1, <1>3, <1>4, <1>5, <1>6 DEF IInv, TypeOK, HotelTypeOK
<1>8. Shape("save", k)
  BY <1>1, <1>2, <1>3, <1>4, HotelAssumption DEF Shape, CancelSteps
<1>9. OnlyAt(b) /\ Others(c, b)
  BY <1>1, <1>4, <1>5, <1>6 DEF OnlyAt, Others
<1>10. ASSUME b \notin torn' PROVE Consistent(b)'
  <2>1. Consistent(b) /\ Runs(c) /\ Of(c) = b /\ TypeOK
    BY <1>1, <1>2, <1>3, <1>10 DEF IInv, Runs, Shape
  <2>2. /\ ~call[c].stale
        /\ doc[b].status = IF call[c].checked THEN "APPROVED" ELSE "PENDING_SUPPLIER"
        /\ call[c].target \in {"DRAFT", "BOOK_FAILED"}
    BY <1>1, <1>3, <2>1 DEF Consistent, OneRuns, Shape
  <2>3. /\ Runs(c)' /\ ~SavesVoucher(c)' /\ ~HoldsCancel(c)' /\ pc'[c] = "save"
        /\ (HoldsPoll(c)' <=> HoldsPoll(c))
    BY <1>1, <1>4, <1>5, <2>1 DEF Runs, SavesVoucher, HoldsPoll, HoldsCancel, CancelSteps
  <2>4. \A d \in Calls : Of(d)' = b /\ d # c =>
          /\ ~Runs(d)' /\ ~SavesVoucher(d)' /\ pc'[d] = pc[d] /\ Of(d) = b /\ call'[d] = call[d]
          /\ pc[d] \notin {"generate", "send", "createJob", "request", "enqueueCancel"} \cup CancelSteps
          /\ pc[d] \in {"debit", "debited"} => call[d].stale
          /\ (HoldsPoll(d)' <=> HoldsPoll(d)) /\ ~HoldsCancel(d)'
    BY <1>5, <1>9, <2>1, RunnerAlone
  <2>5. FreshKnows(b)'
    BY <1>1, <2>1, <2>3, <2>4 DEF Consistent, FreshKnows, Copied
  <2>6. OneRuns(b)'
    BY <1>1, <1>4, <1>5, <2>2, <2>3, <2>4 DEF OneRuns
  <2>7. OnePolls(b)'
    BY <1>1, <1>4, <1>5, <2>1, <2>3, <2>4 DEF Consistent, OnePolls
  <2>8. Forward(b)' /\ OneCancels(b)'
    <3>1. queued[b]["poll-cancel"] = 0 /\ change[b] = "none"
      BY <2>1, <2>2, Typed DEF Consistent, OneCancels, Cancelling
    <3> QED
      BY <1>1, <2>2, <2>3, <2>4, <3>1 DEF Forward, OneCancels, Cancelling, CancelSteps
  <2>9. RoomKnown(b)'
    <3>1. RoomFor(call[c].target, b)'
      BY <1>1, <1>4, <1>5, <2>1 DEF Consistent, RoomKnown, RoomFor
    <3>2. \A d \in Calls : Of(d)' = b /\ Runs(d)' => d = c
      BY <2>4
    <3>3. /\ b \notin doubled' /\ change'[b] \notin GivenUp
          /\ doc'[b].status = "APPROVED" => (\E d \in Calls : Of(d)' = b /\ Runs(d)')
          /\ doc'[b].status # "APPROVED" => RoomFor(doc[b].status, b)'
      BY <1>1, <1>5, <2>1, <2>2, <2>3 DEF Consistent, RoomKnown, RoomFor, OneCancels, Cancelling, GivenUp
    <3> QED
      BY <1>1, <2>2, <2>3, <2>4, <3>1, <3>2, <3>3 DEF RoomKnown, Runs
  <2>10. MoneyKnown(b)'
    <3>1. Committed(b)' = Committed(b) /\ Committed(b) \in Int
      <4>1. InFlight(b)' = InFlight(b)
        BY <1>1, <1>2, <1>9, <2>1, <2>3, <2>4, Bystanders DEF InFlight
      <4> QED
        BY <1>3, <1>6, <4>1 DEF Committed
    <3>2. /\ Stands(b) /\ call[c].debited /\ money[b].refund \in {0, 1}
          /\ call[c].refunded <=> money[b].refund = 1
          /\ doc[b].refunded => call[c].refunded
      BY <1>1, <2>1 DEF Consistent, MoneyKnown
    <3>3. /\ money'[b].refund \in {0, 1}
          /\ call'[c].debited /\ (call'[c].refunded <=> money'[b].refund = 1)
          /\ doc'[b].refunded => call'[c].refunded
      <4>1. CASE paid = 1
        <5>1. ~call[c].refunded /\ money[b].refund = 0
          BY <1>4, <3>2, <4>1 DEF RefundDue
        <5>2. k.refunded
          BY <1>4, <4>1
        <5>3. money'[b].refund = 1
          BY <1>6, <4>1, <5>1
        <5>4. call'[c].debited
          BY <1>4, <1>5, <3>2
        <5> QED
          BY <1>5, <5>2, <5>3, <5>4
      <4>2. CASE paid = 0
        <5>1. (k.refunded <=> call[c].refunded) /\ money'[b].refund = money[b].refund
          BY <1>3, <1>4, <1>6, <4>2
        <5> QED
          BY <1>1, <1>4, <1>5, <3>2, <5>1
      <4> QED
        BY <4>1, <4>2
    <3>4. Fell(b)' /\ Committed(b)' > 0
      BY <1>3, <1>4, <1>6, <3>1, <3>2 DEF Stands, Fell, RefundDue
    <3>5. /\ \E d \in Calls : Of(d)' = b /\ Runs(d)'
          /\ \A d \in Calls : Of(d)' = b /\ Runs(d)' => d = c
      BY <1>5, <2>3, <2>4
    <3> QED
      BY <1>4, <1>5, <2>2, <3>3, <3>4, <3>5 DEF MoneyKnown
  <2>11. SettledKnown(b)'
    BY <1>1, <2>1, <2>2, <2>3, <2>4 DEF Consistent, SettledKnown, Decided, CancelSteps
  <2> QED
    BY <2>5, <2>6, <2>7, <2>8, <2>9, <2>10, <2>11 DEF Consistent
<1>11. cancelJob'[b].credited => cancelJob'[b].completed
  BY <1>1 DEF IInv
<1> QED
  BY <1>2, <1>5, <1>7, <1>8, <1>9, <1>10, <1>11, Acts

\* A poll that gets an answer becomes the call that money hangs on.
LEMMA FetchStep ==
    ASSUME IInv, NEW c \in Calls, UNCHANGED cancelVars, Fetch(c) \/ FetchError(c)
    PROVE  IInv'
<1>1. StillAll /\ lock' = lock /\ queued' = queued /\ pc[c] = "fetch"
  BY DEF Fetch, FetchError, StillAll, supplier, books, cancelVars
<1>2. PICK b \in Bookings : b = Of(c)
  BY <1>1 DEF IInv, Shape, Of
<1>3. Shape(pc[c], call[c]) /\ call[c] \in Call /\ call[c].job = "poll"
  BY <1>1, Typed DEF IInv, Shape
<1>4. PICK k \in Call, step \in {"refund", "save"} :
         /\ call' = [call EXCEPT ![c] = k] /\ pc' = [pc EXCEPT ![c] = step]
         /\ k.booking = b /\ k.stale = call[c].stale /\ k.debited = call[c].debited
         /\ k.refunded = call[c].refunded /\ k.checked = call[c].checked /\ k.job = "poll"
         /\ k.credited = call[c].credited /\ k.left = call[c].left
         /\ step = IF k.target = "BOOK_FAILED" THEN "refund" ELSE "save"
         /\ \/ k.target = "HELD" /\ room[b] = "held"
            \/ k.target = "VOUCHERED" /\ room[b] = "confirmed"
            \/ k.target = "BOOK_FAILED"
  <2>1. PICK target \in {"HELD", "VOUCHERED", "BOOK_FAILED"} :
           /\ target = "HELD" => room[b] = "held"
           /\ target = "VOUCHERED" => room[b] = "confirmed"
           /\ call' = [call EXCEPT ![c].target = target]
           /\ Goto(c, IF target = "BOOK_FAILED" THEN "refund" ELSE "save")
    <3>1. CASE Fetch(c)
      BY <1>2, <3>1 DEF Fetch, StatusOf
    <3>2. CASE FetchError(c)
      BY <3>2 DEF FetchError
    <3> QED
      BY <3>1, <3>2
  <2> DEFINE k == [call[c] EXCEPT !.target = target]
  <2>2. /\ call' = [call EXCEPT ![c] = k]
        /\ pc' = [pc EXCEPT ![c] = IF target = "BOOK_FAILED" THEN "refund" ELSE "save"]
    BY <2>1 DEF Goto
  <2>3. /\ k \in Call /\ k.booking = b /\ k.stale = call[c].stale /\ k.debited = call[c].debited
        /\ k.refunded = call[c].refunded /\ k.checked = call[c].checked /\ k.job = "poll"
        /\ k.target = target /\ k.credited = call[c].credited /\ k.left = call[c].left
    BY <1>2, <1>3 DEF Call, Of, Statuses
  <2> HIDE DEF k
  <2> QED
    BY <2>1, <2>2, <2>3
<1>5. /\ pc' \in [Calls -> Steps] /\ call' \in [Calls -> Call]
      /\ pc'[c] = step /\ call'[c] = k /\ Of(c)' = b
      /\ \A d \in Calls \ {c} : pc'[d] = pc[d] /\ call'[d] = call[d]
  BY <1>4 DEF IInv, TypeOK, HotelTypeOK, Of, Steps
<1>6. TypeOK'
  BY <1>1, <1>5, TypesStill DEF IInv, TypeOK, HotelTypeOK
<1>7. Shape(step, k)
  BY <1>1, <1>3, <1>4, HotelAssumption DEF Shape, CancelSteps
<1>8. OnlyAt(b) /\ Others(c, b)
  BY <1>1, <1>5 DEF OnlyAt, Others, StillAll
<1>9. ASSUME b \notin torn' PROVE Consistent(b)'
  <2>1. Consistent(b) /\ Of(c) = b /\ TypeOK /\ ~Runs(c) /\ HoldsPoll(c)
    BY <1>1, <1>2, <1>3, <1>9 DEF IInv, Runs, HoldsPoll, StillAll
  <2>2. /\ ~call[c].stale /\ doc[b].status = "PENDING_SUPPLIER" /\ queued[b]["poll"] = 0
        /\ Copied(c, b) /\ \A d \in Calls : Of(d) = b /\ HoldsPoll(d) => d = c
    BY <1>1, <1>3, <2>1 DEF Consistent, OnePolls, FreshKnows
  <2>3. \A d \in Calls : Of(d) = b => ~Runs(d)
    <3>1. \A d \in Calls : pc[d] = "book" => call[d].checked
      BY DEF IInv, Shape
    <3>2. \A d \in Calls : Of(d) = b /\ Runs(d) => ~call[d].checked
      BY <2>1, <2>2 DEF Consistent, OneRuns
    <3> QED
      BY <2>1, <2>2, <3>1, <3>2 DEF Runs, HoldsPoll
  <2>4. /\ Runs(c)' /\ ~SavesVoucher(c)' /\ ~HoldsCancel(c)' /\ HoldsPoll(c)' /\ pc'[c] \in {"refund", "save"}
    BY <1>4, <1>5 DEF Runs, SavesVoucher, HoldsPoll, HoldsCancel, CancelSteps
  <2>5. \A d \in Calls : Of(d) = b => /\ ~SavesVoucher(d) /\ ~HoldsCancel(d)
                                      /\ pc[d] \notin {"generate", "send", "createJob", "request", "enqueueCancel"} \cup CancelSteps
    BY <2>1, <2>2 DEF Consistent, Forward, OneCancels, Cancelling, HoldsCancel
  <2>6. \A d \in Calls : Of(d) = b /\ pc[d] \in {"debit", "debited"} => call[d].stale
    BY <2>1, <2>2 DEF Consistent, FreshKnows
  <2>7. \A d \in Calls : Of(d)' = b /\ d # c =>
          /\ ~Runs(d)' /\ ~SavesVoucher(d)' /\ pc'[d] = pc[d] /\ Of(d) = b /\ call'[d] = call[d]
          /\ ~HoldsPoll(d)' /\ ~HoldsCancel(d)'
    BY <1>5, <1>8, <2>1, <2>2, <2>3, <2>5, Bystanders
  <2>8. FreshKnows(b)'
    BY <1>1, <2>1, <2>4, <2>7 DEF Consistent, FreshKnows, Copied, StillAll
  <2>9. OneRuns(b)'
    BY <1>1, <1>3, <1>4, <1>5, <2>2, <2>4, <2>6, <2>7 DEF OneRuns, StillAll, Shape
  <2>10. OnePolls(b)'
    BY <1>1, <1>4, <1>5, <2>2, <2>4, <2>7 DEF OnePolls, StillAll, Early
  <2>11. Forward(b)' /\ OneCancels(b)'
    <3>1. queued[b]["poll-cancel"] = 0 /\ change[b] = "none"
      BY <2>1, <2>2, Typed DEF Consistent, OneCancels, Cancelling
    <3> QED
      BY <1>1, <2>2, <2>4, <2>5, <2>7, <3>1 DEF Forward, OneCancels, Cancelling, CancelSteps, StillAll
  <2>12. RoomKnown(b)'
    <3>1. RoomFor(call[c].target, b)'
      BY <1>1, <1>4, <1>5 DEF RoomFor, StillAll, Early
    <3>2. \A d \in Calls : Of(d)' = b /\ Runs(d)' => d = c
      BY <2>7
    <3>3. b \notin doubled' /\ change'[b] \notin GivenUp /\ RoomFor(doc[b].status, b)'
      BY <1>1, <2>1, <2>2 DEF Consistent, RoomKnown, RoomFor, OneCancels, Cancelling, StillAll
    <3> QED
      BY <1>1, <2>2, <2>4, <2>7, <3>1, <3>2, <3>3 DEF RoomKnown, Runs, StillAll
  <2>13. MoneyKnown(b)'
    <3>1. InFlight(b)' = InFlight(b)
      BY <1>1, <1>2, <1>8, <2>1, <2>4, <2>7, Bystanders DEF InFlight
    <3>2. Stands(b) => Stands(b)'
      BY <1>1, <3>1 DEF Stands, Committed, StillAll
    <3>3. /\ Stands(b) /\ doc[b].debited /\ money[b].refund \in {0, 1}
          /\ doc[b].refunded <=> money[b].refund = 1
      BY <2>1, <2>2, <2>3 DEF Consistent, MoneyKnown, Cancelling
    <3>4. /\ \E d \in Calls : Of(d)' = b /\ Runs(d)'
          /\ \A d \in Calls : Of(d)' = b /\ Runs(d)' => d = c
      BY <1>5, <2>4, <2>7
    <3> QED
      BY <1>1, <1>4, <1>5, <2>2, <3>2, <3>3, <3>4 DEF MoneyKnown, Copied, StillAll
  <2>14. SettledKnown(b)'
    BY <1>1, <2>1, <2>2, <2>4, <2>5, <2>7 DEF Consistent, SettledKnown, Decided, CancelSteps, StillAll
  <2> QED
    BY <2>8, <2>9, <2>10, <2>11, <2>12, <2>13, <2>14 DEF Consistent
<1>10. cancelJob'[b].credited => cancelJob'[b].completed
  BY <1>1 DEF IInv, StillAll
<1> QED
  BY <1>2, <1>5, <1>6, <1>7, <1>8, <1>9, <1>10, Acts


-----------------------------------------------------------------------------
(* The last save of an attempt, of a poll, of a voucher *)

LEMMA SaveOutcomeStep ==
    ASSUME IInv, NEW c \in Calls, UNCHANGED cancelVars, SaveOutcome(c), Runs(c)
    PROVE  IInv'
<1>1. /\ UNCHANGED <<lock, queued, room, doubled, money, refused, change, cancelJob, settled>>
      /\ pc[c] = "save"
  BY DEF SaveOutcome, supplier, books, cancelVars
<1>2. PICK b \in Bookings : b = Of(c)
  BY <1>1 DEF IInv, Shape, Of
<1>3. /\ Shape(pc[c], call[c]) /\ call[c] \in Call /\ b # None
      /\ call[c].checked \/ call[c].job = "poll"
  BY <1>1, Typed DEF IInv, Runs
<1>4. PICK status \in {"DRAFT", "BOOK_FAILED", "PENDING_SUPPLIER", "HELD", "VOUCHERED"} : status = call[c].target
  BY <1>1, <1>3 DEF Shape
<1>5. PICK k \in Call, step \in Steps :
         /\ Push(c, status, k) /\ Goto(c, step) /\ Shape(step, k) /\ k.booking \in {b, None}
         /\ k.job = None
         /\ \/ step \in Resting
            \/ step = "enqueue" /\ k.target = status
  <2>1. CASE call[c].checked /\ call[c].target \in DOMAIN JobAfter
    <3>1. Push(c, status, call[c]) /\ Goto(c, "enqueue") /\ status \in {"PENDING_SUPPLIER", "HELD"}
      BY <1>4, <2>1 DEF SaveOutcome, JobAfter
    <3>2. call[c].job = None /\ call[c].booking = b
      BY <1>2, <1>3, <2>1 DEF Shape, Of
    <3>3. Shape("enqueue", call[c])
      BY <1>1, <1>3, <1>4, <2>1, <3>1, <3>2, HotelAssumption DEF Shape, CancelSteps
    <3> QED
      BY <1>3, <1>4, <3>1, <3>2, <3>3 DEF Steps
  <2>2. CASE ~(call[c].checked /\ call[c].target \in DOMAIN JobAfter)
    <3>1. PushAndLeave(c, status)
      BY <1>4, <2>2 DEF SaveOutcome
    <3>2. PICK k \in Call, step \in Resting :
             /\ Push(c, status, k) /\ Goto(c, step) /\ step \in Steps
             /\ ~k.checked /\ k.job = None /\ k.booking \in {Of(c), None} /\ Shape(step, k)
      BY <1>1, <3>1, LastPush
    <3> QED
      BY <1>2, <3>2
  <2> QED
    BY <2>1, <2>2
<1>6. status \in Statuses
  BY DEF Statuses
<1>7. ASSUME b \notin torn' PROVE Consistent(b)'
  <2>1. /\ pc'[c] = step /\ call'[c] = k /\ Others(c, b)
        /\ doc'[b].status = status
        /\ doc'[b].debited <=> (doc[b].debited \/ call[c].debited)
        /\ doc'[b].refunded <=> (doc[b].refunded \/ call[c].refunded)
        /\ b \notin torn /\ ~call[c].stale
        /\ \A d \in Calls \ {c} : Of(d) = b => call'[d].stale
    BY <1>2, <1>5, <1>6, <1>7, PushFacts
  <2>2. Consistent(b) /\ Of(c) = b /\ TypeOK
    BY <1>2, <2>1 DEF IInv
  <2>3. doc[b].status = IF call[c].checked THEN "APPROVED" ELSE "PENDING_SUPPLIER"
    BY <2>2 DEF Consistent, OneRuns
  <2>4. \A d \in Calls : Of(d) = b /\ HoldsPoll(d) => d = c
    <3>1. CASE call[c].checked
      BY <2>2, <2>3, <3>1 DEF Consistent, OnePolls
    <3>2. CASE ~call[c].checked
      <4>1. HoldsPoll(c)
        BY <1>3, <3>2 DEF HoldsPoll
      <4> QED
        BY <2>2, <4>1 DEF Consistent, OnePolls
    <3> QED
      BY <3>1, <3>2
  <2>5. queued[b]["poll"] = 0
    <3>1. CASE call[c].checked
      BY <2>2, <2>3, <3>1, Typed DEF Consistent, OnePolls, Early
    <3>2. CASE ~call[c].checked
      <4>1. HoldsPoll(c)
        BY <1>3, <3>2 DEF HoldsPoll
      <4> QED
        BY <2>2, <4>1 DEF Consistent, OnePolls
    <3> QED
      BY <3>1, <3>2
  <2>6. change[b] = "none" /\ queued[b]["poll-cancel"] = 0
    BY <2>2, <2>3, Typed DEF Consistent, OneCancels, Cancelling
  <2>7. /\ ~Runs(c)' /\ ~SavesVoucher(c)' /\ ~HoldsCancel(c)'
        /\ HoldsPoll(c)' => status = "PENDING_SUPPLIER"
        /\ pc'[c] \in Resting \cup {"enqueue"} /\ call'[c].job # "poll"
    BY <1>5, <2>1, HotelAssumption DEF Runs, SavesVoucher, HoldsPoll, HoldsCancel, CancelSteps, Resting
  <2>8. \A d \in Calls : Of(d)' = b /\ d # c =>
          /\ ~Runs(d)' /\ ~SavesVoucher(d)' /\ pc'[d] = pc[d] /\ Of(d) = b /\ call'[d].stale
          /\ pc[d] \notin {"generate", "send", "createJob", "request", "enqueueCancel"} \cup CancelSteps
          /\ ~HoldsPoll(d)' /\ ~HoldsCancel(d)'
    BY <2>1, <2>2, <2>4, RunnerAlone
  <2>9. \A d \in Calls : Of(d)' = b =>
          /\ ~Runs(d)' /\ ~SavesVoucher(d)' /\ ~HoldsCancel(d)'
          /\ pc'[d] \notin {"generate", "send", "createJob", "request", "enqueueCancel"} \cup CancelSteps
    BY <2>7, <2>8 DEF Resting, CancelSteps
  <2>10. FreshKnows(b)'
    BY <2>7, <2>8 DEF FreshKnows, Resting
  <2>11. OneRuns(b)'
    BY <2>9 DEF OneRuns
  <2>12. OnePolls(b)'
    BY <1>1, <2>1, <2>5, <2>7, <2>8 DEF OnePolls
  <2>13. Forward(b)'
    BY <1>1, <2>6, <2>9 DEF Forward
  <2>14. OneCancels(b)'
    BY <1>1, <2>1, <2>6, <2>9 DEF OneCancels, Cancelling
  <2>15. RoomKnown(b)'
    <3>1. RoomFor(call[c].target, b) /\ b \notin doubled
      BY <1>1, <2>2 DEF Consistent, RoomKnown
    <3>2. RoomFor(doc[b].status, b)'
      BY <1>1, <1>4, <2>1, <3>1 DEF RoomFor
    <3> QED
      BY <1>1, <2>6, <2>9, <3>1, <3>2 DEF RoomKnown, Runs, GivenUp
  <2>16. MoneyKnown(b)'
    <3>1. InFlight(b)' = InFlight(b)
      BY <1>1, <1>2, <2>1, <2>2, <2>7, <2>8, Bystanders DEF InFlight, Resting
    <3>2. (Stands(b) => Stands(b)') /\ (Fell(b) => Fell(b)')
      BY <1>1, <3>1 DEF Stands, Fell, Committed
    <3>3. /\ call[c].debited /\ money[b].refund \in {0, 1}
          /\ call[c].refunded <=> money[b].refund = 1
          /\ doc[b].refunded => call[c].refunded
          /\ IF status \in {"DRAFT", "BOOK_FAILED"} THEN Fell(b) ELSE Stands(b)
      BY <1>1, <1>4, <2>2 DEF Consistent, MoneyKnown
    <3>4. doc'[b].debited /\ (doc'[b].refunded <=> money[b].refund = 1)
      BY <2>1, <3>3
    <3> QED
      BY <1>1, <2>1, <2>9, <3>2, <3>3, <3>4 DEF MoneyKnown, Early, Cancelling
  <2>17. SettledKnown(b)'
    BY <1>1, <2>1, <2>2, <2>6, <2>9 DEF Consistent, SettledKnown, Decided, CancelSteps
  <2> QED
    BY <2>10, <2>11, <2>12, <2>13, <2>14, <2>15, <2>16, <2>17 DEF Consistent
<1> QED
  BY <1>1, <1>2, <1>5, <1>6, <1>7, Pushes

LEMMA SaveVoucherStep ==
    ASSUME IInv, NEW c \in Calls, UNCHANGED cancelVars, SaveOutcome(c), ~Runs(c)
    PROVE  IInv'
<1>1. /\ UNCHANGED <<lock, queued, room, doubled, money, refused, change, cancelJob, settled>>
      /\ pc[c] = "save"
  BY DEF SaveOutcome, supplier, books, cancelVars
<1>2. PICK b \in Bookings : b = Of(c)
  BY <1>1 DEF IInv, Shape, Of
<1>3. /\ Shape(pc[c], call[c]) /\ call[c] \in Call /\ b # None
      /\ ~call[c].checked /\ call[c].job # "poll" /\ call[c].target = "VOUCHERED" /\ SavesVoucher(c)
  BY <1>1, Typed DEF IInv, Runs, Shape, SavesVoucher
<1>4. PICK k \in Call, step \in Resting :
         /\ Push(c, "VOUCHERED", k) /\ Goto(c, step) /\ step \in Steps
         /\ ~k.checked /\ k.job = None /\ k.booking \in {b, None} /\ Shape(step, k)
  <2>1. PushAndLeave(c, "VOUCHERED")
    BY <1>3 DEF SaveOutcome
  <2> QED
    BY <1>1, <1>2, <2>1, LastPush
<1>5. "VOUCHERED" \in Statuses
  BY DEF Statuses
<1>6. ASSUME b \notin torn' PROVE Consistent(b)'
  <2>1. /\ pc'[c] = step /\ call'[c] = k /\ Others(c, b)
        /\ doc'[b].status = "VOUCHERED"
        /\ doc'[b].debited <=> (doc[b].debited \/ call[c].debited)
        /\ doc'[b].refunded <=> (doc[b].refunded \/ call[c].refunded)
        /\ b \notin torn /\ ~call[c].stale
        /\ \A d \in Calls \ {c} : Of(d) = b => call'[d].stale
    BY <1>2, <1>4, <1>5, <1>6, PushFacts
  <2>2. Consistent(b) /\ Of(c) = b /\ TypeOK
    BY <1>2, <2>1 DEF IInv
  <2>3. doc[b].status = "HELD" /\ Copied(c, b) /\ room[b] = "confirmed"
    BY <1>3, <2>1, <2>2 DEF Consistent, FreshKnows, RoomKnown
  <2>4. \A d \in Calls : Of(d) = b => /\ ~HoldsPoll(d) /\ ~HoldsCancel(d) /\ ~Runs(d)
                                      /\ pc[d] \notin {"send", "createJob", "request", "enqueueCancel"} \cup CancelSteps
    BY <2>2, <2>3 DEF Consistent, OnePolls, OneRuns, OneCancels, Forward, Cancelling, HoldsCancel
  <2>5. change[b] = "none" /\ queued[b]["poll-cancel"] = 0
    BY <2>2, <2>3, Typed DEF Consistent, OneCancels, Cancelling
  <2>6. /\ ~Runs(c)' /\ ~SavesVoucher(c)' /\ ~HoldsPoll(c)' /\ ~HoldsCancel(c)'
        /\ pc'[c] \in Resting
    BY <1>4, <2>1, HotelAssumption DEF Runs, SavesVoucher, HoldsPoll, HoldsCancel, CancelSteps, Resting
  <2>7. \A d \in Calls : Of(d)' = b /\ d # c =>
          /\ ~Runs(d)' /\ ~HoldsPoll(d)' /\ ~HoldsCancel(d)'
          /\ pc'[d] = pc[d] /\ Of(d) = b /\ call'[d].stale
    BY <2>1, <2>2, <2>4, Bystanders
  <2>8. \A d \in Calls : Of(d)' = b =>
          /\ ~Runs(d)' /\ ~HoldsPoll(d)' /\ ~HoldsCancel(d)'
          /\ pc'[d] \notin {"send", "createJob", "request", "enqueueCancel"} \cup CancelSteps
    BY <2>4, <2>6, <2>7 DEF Resting, CancelSteps
  <2>9. FreshKnows(b)'
    BY <2>6, <2>7 DEF FreshKnows, Resting
  <2>10. OneRuns(b)' /\ OnePolls(b)'
    BY <2>1, <2>8 DEF OneRuns, OnePolls, Early
  <2>11. Forward(b)' /\ OneCancels(b)'
    BY <1>1, <2>1, <2>5, <2>8 DEF Forward, OneCancels, Cancelling
  <2>12. RoomKnown(b)'
    BY <1>1, <2>1, <2>2, <2>3, <2>5, <2>8 DEF Consistent, RoomKnown, RoomFor, Early, Runs
  <2>13. MoneyKnown(b)'
    <3>1. InFlight(b)' = InFlight(b)
      BY <1>1, <1>2, <2>1, <2>2, <2>6, <2>7, Bystanders DEF InFlight, Resting
    <3>2. Stands(b) => Stands(b)'
      BY <1>1, <3>1 DEF Stands, Committed
    <3>3. /\ money[b].refund \in {0, 1} /\ Stands(b)
          /\ doc[b].refunded <=> money[b].refund = 1
      BY <2>2, <2>3, <2>4 DEF Consistent, MoneyKnown, Cancelling
    <3>4. doc'[b].refunded <=> money[b].refund = 1
      BY <2>1, <2>3, <3>3 DEF Copied
    <3> QED
      BY <1>1, <2>1, <2>8, <3>2, <3>3, <3>4 DEF MoneyKnown, Early, Cancelling
  <2>14. SettledKnown(b)'
    BY <1>1, <2>1, <2>2, <2>5, <2>8 DEF Consistent, SettledKnown, Decided, CancelSteps
  <2> QED
    BY <2>9, <2>10, <2>11, <2>12, <2>13, <2>14 DEF Consistent
<1> QED
  BY <1>1, <1>2, <1>4, <1>5, <1>6, Pushes

\* A write that fails tears the booking.
LEMMA TearStep ==
    ASSUME IInv, NEW c \in Calls, UNCHANGED cancelVars, pc[c] # "idle", Leave(c),
           torn' = torn \cup {Of(c)}, UNCHANGED <<doc, lock, queued, supplier, books>>
    PROVE  IInv'
<1>1. /\ UNCHANGED <<doc, lock, queued, room, doubled, money, refused, change, cancelJob, settled>>
      /\ pc[c] # "idle" /\ Leave(c) /\ torn' = torn \cup {Of(c)}
  BY DEF supplier, books, cancelVars
<1>2. PICK b \in Bookings : b = Of(c)
  BY <1>1 DEF IInv, Shape, Of
<1>3. /\ pc' \in [Calls -> Steps] /\ call' \in [Calls -> Call]
      /\ Shape(pc'[c], call'[c]) /\ Of(c)' \in {b, None}
      /\ \A d \in Calls \ {c} : pc'[d] = pc[d] /\ call'[d] = call[d]
  BY <1>1, <1>2, Leaves DEF IInv
<1>4. TypeOK'
  BY <1>1, <1>2, <1>3 DEF IInv, TypeOK, HotelTypeOK
<1>5. OnlyAt(b) /\ Others(c, b)
  BY <1>1, <1>2, <1>3 DEF OnlyAt, Others
<1>6. cancelJob'[b].credited => cancelJob'[b].completed
  BY <1>1 DEF IInv
<1> QED
  BY <1>1, <1>2, <1>3, <1>4, <1>5, <1>6, Acts

\* A save that finds another version, or throws, or a job that cannot be queued.
LEMMA ConflictStep ==
    ASSUME IInv, NEW c \in Calls, UNCHANGED cancelVars, VersionConflict(c)
    PROVE  IInv'
BY TearStep DEF VersionConflict

LEMMA WriteFailsStep ==
    ASSUME IInv, NEW c \in Calls, NEW steps, "idle" \notin steps, UNCHANGED cancelVars,
           WriteFails(c, steps)
    PROVE  IInv'
BY TearStep DEF WriteFails


-----------------------------------------------------------------------------
(* The supplier and the voucher *)

\* What the supplier does by itself.
LEMMA EnvironmentActs ==
    ASSUME IInv, TypeOK', NEW b \in Bookings, OnlyAt(b), UNCHANGED <<pc, call, cancelJob, torn>>,
           b \notin torn => Consistent(b)'
    PROVE  IInv'
<1>1. ASSUME NEW e \in Bookings \ torn, e # b PROVE Consistent(e)'
  <2>1. SameBut(e)
    BY <1>1 DEF OnlyAt, SameBut
  <2> QED
    BY <2>1, Frame DEF IInv
<1> QED
  BY <1>1 DEF IInv

\* Calls and what hangs on them are as they were.
LEMMA CallsStill ==
    ASSUME UNCHANGED <<pc, call>>, NEW b \in Bookings
    PROVE  /\ \A d \in Calls : /\ Of(d)' = Of(d) /\ (Runs(d)' <=> Runs(d))
                               /\ (SavesVoucher(d)' <=> SavesVoucher(d))
                               /\ (HoldsPoll(d)' <=> HoldsPoll(d)) /\ (HoldsCancel(d)' <=> HoldsCancel(d))
           /\ InFlight(b)' = InFlight(b)
<1>1. \A d \in Calls : Of(d)' = Of(d)
  BY DEF Of
<1> QED
  BY <1>1 DEF Runs, SavesVoucher, HoldsPoll, HoldsCancel, InFlight

LEMMA ResolvesStep ==
    ASSUME IInv, NEW b \in Bookings, UNCHANGED cancelVars, SupplierResolves(b)
    PROVE  IInv'
<1>1. /\ UNCHANGED <<doc, lock, queued, doubled, money, refused, torn, pc, call, change, cancelJob, settled>>
      /\ room[b] = "pending"
  BY DEF SupplierResolves, books, cancelVars
<1>2. PICK state \in {"held", "confirmed", "failed"} : room' = [room EXCEPT ![b] = state]
  BY DEF SupplierResolves
<1>3. /\ room' \in [Bookings -> Rooms] /\ room'[b] = state /\ \A e \in Bookings \ {b} : room'[e] = room[e]
  BY <1>2 DEF IInv, TypeOK, HotelTypeOK, Rooms
<1>4. TypeOK' /\ OnlyAt(b)
  BY <1>1, <1>3 DEF IInv, TypeOK, HotelTypeOK, OnlyAt
<1>5. ASSUME b \notin torn PROVE Consistent(b)'
  <2>1. Consistent(b)
    BY <1>5 DEF IInv
  <2>2. \A d \in Calls : /\ Of(d)' = Of(d) /\ pc'[d] = pc[d] /\ call'[d] = call[d]
                         /\ (Runs(d)' <=> Runs(d))
                         /\ (SavesVoucher(d)' <=> SavesVoucher(d))
                         /\ (HoldsPoll(d)' <=> HoldsPoll(d)) /\ (HoldsCancel(d)' <=> HoldsCancel(d))
    BY <1>1, CallsStill
  <2>3. FreshKnows(b)'
    BY <1>1, <2>1, <2>2 DEF Consistent, FreshKnows, Copied
  <2>4. OneRuns(b)' /\ OnePolls(b)'
    BY <1>1, <2>1, <2>2 DEF Consistent, OneRuns, OnePolls
  <2>5. Forward(b)' /\ OneCancels(b)'
    BY <1>1, <2>1, <2>2 DEF Consistent, Forward, OneCancels
  <2>6. RoomKnown(b)'
    <3>1. change[b] \notin GivenUp
      BY <1>1, <2>1 DEF Consistent, RoomKnown
    <3>2. doc[b].status \notin {"VOUCHERED", "HELD"}
      BY <1>1, <2>1, <3>1 DEF Consistent, RoomKnown, RoomFor
    <3>3. \/ doc[b].status = "APPROVED" /\ (\E d \in Calls : Of(d) = b /\ Runs(d))
          \/ doc[b].status \notin Early /\ RoomFor(doc[b].status, b)
      BY <1>1, <2>1, <3>1 DEF Consistent, RoomKnown, RoomFor
    <3>4. RoomFor(doc[b].status, b) /\ doc[b].status \notin Early => RoomFor(doc[b].status, b)'
      BY <1>1, <1>3, <3>2 DEF RoomFor
    <3>5. \A d \in Calls : Of(d) = b /\ Runs(d) => pc[d] # "book" /\ RoomFor(call[d].target, b)
      BY <1>1, <2>1 DEF Consistent, RoomKnown
    <3>6. \A d \in Calls : Of(d) = b /\ Runs(d) => RoomFor(call[d].target, b)'
      BY <1>1, <1>3, <3>5 DEF RoomFor
    <3>7. \A d \in Calls : Of(d) = b /\ pc[d] = "book" => Runs(d)
      BY DEF Runs
    <3>8. b \notin doubled
      BY <2>1 DEF Consistent, RoomKnown
    <3> QED
      BY <1>1, <2>2, <3>1, <3>2, <3>3, <3>4, <3>5, <3>6, <3>7, <3>8 DEF RoomKnown
  <2>7. MoneyKnown(b)'
    <3>1. (Stands(b) => Stands(b)') /\ (Fell(b) => Fell(b)')
          /\ (Committed(b) > 0 => Committed(b)' > 0)
      BY <1>1, CallsStill DEF Stands, Fell, Committed
    <3> QED
      BY <1>1, <2>1, <2>2, <3>1 DEF Consistent, MoneyKnown
  <2>8. SettledKnown(b)'
    BY <1>1, <2>1, <2>2 DEF Consistent, SettledKnown, Decided
  <2> QED
    BY <2>3, <2>4, <2>5, <2>6, <2>7, <2>8 DEF Consistent
<1> QED
  BY <1>1, <1>4, <1>5, EnvironmentActs

LEMMA DecidesStep ==
    ASSUME IInv, NEW b \in Bookings, SupplierDecides(b)
    PROVE  IInv'
<1>1. /\ UNCHANGED <<doc, lock, queued, doubled, money, refused, torn, pc, call, cancelJob, settled>>
      /\ change[b] = "open"
  BY DEF SupplierDecides, books
<1>2. PICK outcome \in GivenUp \cup {"rejected"} :
         /\ change' = [change EXCEPT ![b] = outcome]
         /\ room' = IF outcome \in GivenUp THEN [room EXCEPT ![b] = "cancelled"] ELSE room
  BY DEF SupplierDecides, GivenUp
<1>3. /\ change' \in [Bookings -> Changes] /\ change'[b] = outcome
      /\ room' \in [Bookings -> Rooms]
      /\ room'[b] = IF outcome \in GivenUp THEN "cancelled" ELSE room[b]
      /\ \A e \in Bookings \ {b} : room'[e] = room[e] /\ change'[e] = change[e]
  BY <1>2 DEF IInv, TypeOK, HotelTypeOK, Rooms, Changes, GivenUp
<1>4. TypeOK' /\ OnlyAt(b)
  BY <1>1, <1>3 DEF IInv, TypeOK, HotelTypeOK, OnlyAt
<1>5. ASSUME b \notin torn PROVE Consistent(b)'
  <2>1. Consistent(b)
    BY <1>5 DEF IInv
  <2>2. \A d \in Calls : /\ Of(d)' = Of(d) /\ pc'[d] = pc[d] /\ call'[d] = call[d]
                         /\ (Runs(d)' <=> Runs(d))
                         /\ (SavesVoucher(d)' <=> SavesVoucher(d))
                         /\ (HoldsPoll(d)' <=> HoldsPoll(d)) /\ (HoldsCancel(d)' <=> HoldsCancel(d))
    BY <1>1, CallsStill
  <2>3. doc[b].status \in {"VOUCHERED"} \cup Cancelling
    BY <1>1, <2>1 DEF Consistent, OneCancels
  <2>4. \A d \in Calls : Of(d) = b => ~Runs(d)
    BY <2>1, <2>3 DEF Consistent, OneRuns, Cancelling
  <2>5. FreshKnows(b)'
    BY <1>1, <2>1, <2>2 DEF Consistent, FreshKnows, Copied
  <2>6. OneRuns(b)' /\ OnePolls(b)'
    BY <1>1, <2>1, <2>2 DEF Consistent, OneRuns, OnePolls
  <2>7. Forward(b)'
    BY <1>1, <2>1, <2>2 DEF Consistent, Forward
  <2>8. OneCancels(b)'
    BY <1>1, <1>3, <2>1, <2>2 DEF Consistent, OneCancels, GivenUp
  <2>9. RoomKnown(b)'
    <3>1. \A d \in Calls : Of(d) = b /\ pc[d] = "book" => Runs(d)
      BY DEF Runs
    <3>2. b \notin doubled /\ RoomFor(doc[b].status, b)
      BY <1>1, <2>1, <2>3, <2>4 DEF Consistent, RoomKnown, Cancelling, GivenUp
    <3> QED
      BY <1>1, <1>3, <2>2, <2>3, <2>4, <3>1, <3>2 DEF RoomKnown, RoomFor, Early, Cancelling, GivenUp
  <2>10. MoneyKnown(b)'
    <3>1. (Stands(b) => Stands(b)') /\ (Fell(b) => Fell(b)')
          /\ (Committed(b) > 0 => Committed(b)' > 0)
      BY <1>1, CallsStill DEF Stands, Fell, Committed
    <3> QED
      BY <1>1, <2>1, <2>2, <3>1 DEF Consistent, MoneyKnown
  <2>11. SettledKnown(b)'
    BY <1>1, <2>1, <2>2 DEF Consistent, SettledKnown, Decided
  <2> QED
    BY <2>5, <2>6, <2>7, <2>8, <2>9, <2>10, <2>11 DEF Consistent
<1> QED
  BY <1>1, <1>4, <1>5, EnvironmentActs

LEMMA GenerateStep ==
    ASSUME IInv, NEW c \in Calls, UNCHANGED cancelVars, GenerateVoucher(c)
    PROVE  IInv'
<1>1. /\ UNCHANGED <<doc, lock, queued, doubled, money, refused, torn, change, cancelJob, settled>>
      /\ pc[c] = "generate" /\ room[Of(c)] \in {"held", "confirmed"}
      /\ pc' = [pc EXCEPT ![c] = "save"]
  BY DEF GenerateVoucher, Goto, books, cancelVars
<1>2. PICK b \in Bookings : b = Of(c)
  BY <1>1 DEF IInv, Shape, Of
<1>3. /\ Shape(pc[c], call[c]) /\ call[c] \in Call
      /\ ~call[c].checked /\ call[c].job # "poll" /\ call[c].job # "poll-cancel"
  BY <1>1, Typed DEF IInv, Shape, CancelSteps
<1>4. PICK k \in Call :
         /\ call' = [call EXCEPT ![c] = k]
         /\ k.booking = b /\ k.stale = call[c].stale /\ k.debited = call[c].debited
         /\ k.refunded = call[c].refunded /\ k.checked = call[c].checked /\ k.job = call[c].job
         /\ k.target = "VOUCHERED" /\ k.credited = call[c].credited /\ k.left = call[c].left
  <2> DEFINE k == [call[c] EXCEPT !.target = "VOUCHERED"]
  <2>1. call' = [call EXCEPT ![c] = k]
    BY DEF GenerateVoucher
  <2>2. /\ k \in Call /\ k.booking = b /\ k.stale = call[c].stale /\ k.debited = call[c].debited
        /\ k.refunded = call[c].refunded /\ k.checked = call[c].checked /\ k.job = call[c].job
        /\ k.target = "VOUCHERED" /\ k.credited = call[c].credited /\ k.left = call[c].left
    BY <1>2, <1>3 DEF Call, Of, Statuses
  <2> HIDE DEF k
  <2> QED
    BY <2>1, <2>2
<1>5. /\ pc' \in [Calls -> Steps] /\ call' \in [Calls -> Call]
      /\ pc'[c] = "save" /\ call'[c] = k /\ Of(c)' = b
      /\ \A d \in Calls \ {c} : pc'[d] = pc[d] /\ call'[d] = call[d]
  BY <1>1, <1>4 DEF IInv, TypeOK, HotelTypeOK, Of, Steps
<1>6. /\ room' \in [Bookings -> Rooms] /\ room'[b] = "confirmed"
      /\ \A e \in Bookings \ {b} : room'[e] = room[e]
  BY <1>2 DEF GenerateVoucher, IInv, TypeOK, HotelTypeOK, Rooms
<1>7. TypeOK' /\ OnlyAt(b) /\ Others(c, b)
  BY <1>1, <1>5, <1>6 DEF IInv, TypeOK, HotelTypeOK, OnlyAt, Others
<1>8. Shape("save", k)
  BY <1>1, <1>2, <1>3, <1>4, HotelAssumption DEF Shape, CancelSteps
<1>9. ASSUME b \notin torn' PROVE Consistent(b)'
  <2>1. Consistent(b) /\ Of(c) = b /\ TypeOK /\ ~Runs(c)
    BY <1>1, <1>2, <1>9 DEF IInv, Runs
  <2>2. /\ doc[b].status \in {"HELD", "VOUCHERED"} \cup Cancelling /\ change[b] \notin GivenUp
        /\ ~call[c].stale => doc[b].status = "HELD" /\ Copied(c, b)
    BY <1>1, <1>2, <2>1 DEF Consistent, Forward, RoomKnown, FreshKnows
  <2>3. /\ ~Runs(c)' /\ SavesVoucher(c)' /\ ~HoldsPoll(c)' /\ ~HoldsCancel(c)' /\ ~HoldsPoll(c) /\ ~HoldsCancel(c)
    BY <1>1, <1>3, <1>4, <1>5 DEF Runs, SavesVoucher, HoldsPoll, HoldsCancel, CancelSteps
  <2>4. \A d \in Calls : Of(d) = b => ~Runs(d)
    BY <2>1, <2>2 DEF Consistent, OneRuns, Cancelling
  <2>5. \A d \in Calls \ {c} :
          /\ Of(d)' = Of(d) /\ pc'[d] = pc[d] /\ call'[d] = call[d]
          /\ (Runs(d)' <=> Runs(d)) /\ (SavesVoucher(d)' <=> SavesVoucher(d))
          /\ (HoldsPoll(d)' <=> HoldsPoll(d)) /\ (HoldsCancel(d)' <=> HoldsCancel(d))
    BY <1>5, <1>7, <2>1, Bystanders
  <2>6. \A d \in Calls : Of(d)' = b => ~Runs(d)' /\ Of(d) = b
    BY <1>5, <2>1, <2>3, <2>4, <2>5
  <2>7. FreshKnows(b)'
    <3>1. SavesVoucher(c)' /\ ~call'[c].stale => doc'[b].status = "HELD" /\ Copied(c, b)'
      BY <1>1, <1>4, <1>5, <2>2 DEF Copied
    <3> QED
      BY <1>1, <1>5, <2>1, <2>3, <2>5, <3>1 DEF Consistent, FreshKnows, Copied
  <2>8. OneRuns(b)'
    BY <2>6 DEF OneRuns
  <2>9. OnePolls(b)'
    BY <1>1, <2>1, <2>3, <2>5 DEF Consistent, OnePolls
  <2>10. Forward(b)'
    BY <1>1, <1>5, <2>1, <2>2, <2>5 DEF Consistent, Forward, CancelSteps
  <2>11. OneCancels(b)'
    BY <1>1, <1>5, <2>1, <2>3, <2>5 DEF Consistent, OneCancels
  <2>12. RoomKnown(b)'
    BY <1>1, <1>6, <2>1, <2>2, <2>6 DEF Consistent, RoomKnown, RoomFor, Early, Runs, Cancelling
  <2>13. MoneyKnown(b)'
    <3>1. InFlight(b)' = InFlight(b)
      BY <1>1, <1>2, <1>5, <2>5 DEF InFlight
    <3>2. (Stands(b) => Stands(b)') /\ (Fell(b) => Fell(b)')
      BY <1>1, <3>1 DEF Stands, Fell, Committed
    <3> QED
      BY <1>1, <2>1, <2>4, <2>6, <3>2 DEF Consistent, MoneyKnown
  <2>14. SettledKnown(b)'
    BY <1>1, <1>5, <2>1, <2>5 DEF Consistent, SettledKnown, Decided
  <2> QED
    BY <2>7, <2>8, <2>9, <2>10, <2>11, <2>12, <2>13, <2>14 DEF Consistent
<1>10. cancelJob'[b].credited => cancelJob'[b].completed
  BY <1>1 DEF IInv
<1> QED
  BY <1>2, <1>5, <1>7, <1>8, <1>9, <1>10, Acts


-----------------------------------------------------------------------------
(* The change request and the refund of a cancellation *)

\* A change request whose answer is lost tears the booking.
LEMMA RequestLostStep ==
    ASSUME IInv, NEW c \in Calls, SendChangeRequest(c), Leave(c), torn' = torn \cup {Of(c)}
    PROVE  IInv'
<1>1. /\ UNCHANGED <<doc, lock, queued, room, doubled, money, refused, cancelJob, settled>>
      /\ pc[c] = "send" /\ change' = [change EXCEPT ![Of(c)] = "open"]
  BY DEF SendChangeRequest, supplier, books
<1>2. PICK b \in Bookings : b = Of(c)
  BY <1>1 DEF IInv, Shape, Of
<1>3. /\ pc' \in [Calls -> Steps] /\ call' \in [Calls -> Call]
      /\ Shape(pc'[c], call'[c]) /\ Of(c)' \in {b, None}
      /\ \A d \in Calls \ {c} : pc'[d] = pc[d] /\ call'[d] = call[d]
  BY <1>1, <1>2, Leaves DEF IInv
<1>4. TypeOK'
  BY <1>1, <1>2, <1>3 DEF IInv, TypeOK, HotelTypeOK, Changes, GivenUp
<1>5. OnlyAt(b) /\ Others(c, b)
  BY <1>1, <1>2, <1>3 DEF OnlyAt, Others, IInv, TypeOK
<1>6. cancelJob'[b].credited => cancelJob'[b].completed
  BY <1>1 DEF IInv
<1> QED
  BY <1>1, <1>2, <1>3, <1>4, <1>5, <1>6, Acts

\* SendChangeRequest, CreateJob: the call takes the cancellation into its hands.
LEMMA RequestSteps ==
    ASSUME IInv, NEW c \in Calls,
           \/ SendChangeRequest(c) /\ Goto(c, "createJob") /\ UNCHANGED <<call, torn>>
           \/ CreateJob(c)
    PROVE  IInv'
<1>1. /\ UNCHANGED <<doc, lock, queued, room, doubled, money, refused, torn, call, settled>>
  BY DEF SendChangeRequest, CreateJob, supplier, books
<1>2. PICK b \in Bookings : b = Of(c)
  BY DEF SendChangeRequest, CreateJob, IInv, Shape, Of
<1>3. PICK step \in Steps :
         /\ pc' = [pc EXCEPT ![c] = step]
         /\ \/ /\ pc[c] = "send" /\ step = "createJob" /\ change[b] = "none"
               /\ change' = [change EXCEPT ![b] = "open"] /\ cancelJob' = cancelJob
            \/ /\ pc[c] = "createJob" /\ step = "request" /\ change' = change
               /\ cancelJob' = [cancelJob EXCEPT ![b].exists = TRUE]
  BY <1>2 DEF SendChangeRequest, CreateJob, Goto, Steps
<1>4. Shape(pc[c], call[c]) /\ call[c] \in Call /\ cancelJob[b] \in CancelJob
  BY Typed DEF IInv
<1>5. /\ pc' \in [Calls -> Steps] /\ pc'[c] = step /\ Of(c)' = b
      /\ \A d \in Calls \ {c} : pc'[d] = pc[d] /\ call'[d] = call[d]
  BY <1>1, <1>2, <1>3 DEF IInv, TypeOK, HotelTypeOK, Of
<1>6. /\ change' \in [Bookings -> Changes]
      /\ change'[b] = IF step = "createJob" THEN "open" ELSE change[b]
      /\ \A e \in Bookings \ {b} : change'[e] = change[e]
  BY <1>3 DEF IInv, TypeOK, Changes, GivenUp
<1>7. /\ cancelJob' \in [Bookings -> CancelJob]
      /\ \A e \in Bookings \ {b} : cancelJob'[e] = cancelJob[e]
      /\ cancelJob'[b].credited => cancelJob'[b].completed
  <2> DEFINE r == [cancelJob[b] EXCEPT !.exists = TRUE]
  <2>1. r \in CancelJob /\ r.credited = cancelJob[b].credited /\ r.completed = cancelJob[b].completed
    BY <1>4 DEF CancelJob
  <2>2. cancelJob' = cancelJob \/ cancelJob' = [cancelJob EXCEPT ![b] = r]
    BY <1>3
  <2> HIDE DEF r
  <2> QED
    BY <2>1, <2>2 DEF IInv, TypeOK
<1>8. TypeOK' /\ OnlyAt(b) /\ Others(c, b)
  BY <1>1, <1>5, <1>6, <1>7 DEF IInv, TypeOK, HotelTypeOK, OnlyAt, Others
<1>9. Shape(pc'[c], call'[c])
  BY <1>1, <1>3, <1>4, <1>5 DEF Shape, CancelSteps
<1>10. ASSUME b \notin torn' PROVE Consistent(b)'
  <2>1. Consistent(b) /\ Of(c) = b /\ TypeOK
    BY <1>1, <1>2, <1>10 DEF IInv
  <2>2. /\ pc[c] \in {"send", "createJob"} /\ step \in {"createJob", "request"}
        /\ ~Runs(c) /\ ~Runs(c)' /\ ~SavesVoucher(c)' /\ (HoldsPoll(c)' <=> HoldsPoll(c)) /\ HoldsCancel(c)'
    BY <1>1, <1>3, <1>4, <1>5 DEF Runs, SavesVoucher, HoldsPoll, HoldsCancel, CancelSteps
  <2>3. \A d \in Calls \ {c} :
          /\ Of(d)' = Of(d) /\ pc'[d] = pc[d] /\ call'[d] = call[d]
          /\ (Runs(d)' <=> Runs(d)) /\ (SavesVoucher(d)' <=> SavesVoucher(d))
          /\ (HoldsPoll(d)' <=> HoldsPoll(d)) /\ (HoldsCancel(d)' <=> HoldsCancel(d))
    BY <1>5, <1>8, <2>1, Bystanders
  <2>4. /\ \A d \in Calls : Of(d) = b /\ HoldsCancel(d) => d = c
        /\ queued[b]["poll-cancel"] = 0 /\ doc[b].status \in {"VOUCHERED"} \cup Cancelling
        /\ settled[b] = 0 /\ change'[b] # "none"
    <3>1. CASE step = "createJob"
      BY <1>3, <1>6, <2>1, <3>1, Typed DEF Consistent, OneCancels, Forward, SettledKnown, Decided
    <3>2. CASE step = "request"
      <4>1. HoldsCancel(c)
        BY <1>3, <3>2 DEF HoldsCancel
      <4> QED
        BY <1>3, <1>6, <2>1, <3>2, <4>1 DEF Consistent, OneCancels, SettledKnown, Decided
    <3> QED
      BY <2>2, <3>1, <3>2
  <2>5. FreshKnows(b)'
    BY <1>1, <1>5, <2>1, <2>2, <2>3 DEF Consistent, FreshKnows, Copied
  <2>6. OneRuns(b)' /\ OnePolls(b)'
    BY <1>1, <1>5, <2>1, <2>2, <2>3 DEF Consistent, OneRuns, OnePolls
  <2>7. Forward(b)'
    BY <1>1, <1>5, <2>1, <2>2, <2>3 DEF Consistent, Forward, CancelSteps
  <2>8. OneCancels(b)'
    BY <1>1, <1>5, <2>2, <2>3, <2>4 DEF OneCancels
  <2>9. RoomKnown(b)'
    <3>1. change'[b] = change[b] \/ (change[b] = "none" /\ change'[b] = "open")
      BY <1>3, <1>6
    <3>2. \A d \in Calls : Of(d) = b => ~Runs(d)
      BY <2>1, <2>4 DEF Consistent, OneRuns, Cancelling
    <3> QED
      BY <1>1, <1>5, <2>1, <2>2, <2>3, <2>4, <3>1, <3>2 DEF Consistent, RoomKnown, RoomFor, Runs, Cancelling, GivenUp
  <2>10. MoneyKnown(b)'
    <3>1. InFlight(b)' = InFlight(b)
      BY <1>1, <1>2, <1>5, <2>2, <2>3 DEF InFlight
    <3>2. (Stands(b) => Stands(b)') /\ (Fell(b) => Fell(b)')
      BY <1>1, <3>1 DEF Stands, Fell, Committed
    <3>3. \A d \in Calls : Of(d)' = b => ~Runs(d)' /\ Of(d) = b /\ ~Runs(d)
      <4>1. \A d \in Calls : Of(d) = b => ~Runs(d)
        BY <2>1, <2>4 DEF Consistent, OneRuns, Cancelling
      <4> QED
        BY <1>5, <2>1, <2>2, <2>3, <4>1
    <3>4. \A d \in Calls : Of(d) = b => Of(d)' = b
      BY <1>5, <2>3
    <3> QED
      BY <1>1, <2>1, <3>2, <3>3, <3>4 DEF Consistent, MoneyKnown
  <2>11. SettledKnown(b)'
    <3>1. \A d \in Calls : Of(d)' = b /\ d # c => pc'[d] \notin {"createJob", "request", "enqueueCancel"} \cup CancelSteps
      BY <2>3, <2>4 DEF HoldsCancel
    <3>2. change[b] = "none" => doc[b].status # "CANCELLED"
      BY <2>1 DEF Consistent, OneCancels, Cancelling
    <3>3. change'[b] = change[b] \/ change[b] = "none"
      BY <1>3, <1>6
    <3> QED
      BY <1>1, <1>3, <1>5, <2>1, <2>2, <2>4, <3>1, <3>2, <3>3 DEF Consistent, SettledKnown, Decided, CancelSteps
  <2> QED
    BY <2>5, <2>6, <2>7, <2>8, <2>9, <2>10, <2>11 DEF Consistent
<1> QED
  BY <1>2, <1>5, <1>7, <1>8, <1>9, <1>10, Acts

LEMMA SaveRequestedStep ==
    ASSUME IInv, NEW c \in Calls, SaveRequested(c)
    PROVE  IInv'
<1>1. /\ UNCHANGED <<lock, queued, room, doubled, money, refused, change, cancelJob, settled>>
      /\ pc[c] = "request" /\ Push(c, "CANCEL_REQUESTED", call[c]) /\ Goto(c, "enqueueCancel")
  BY DEF SaveRequested, supplier, books, cancelVars
<1>2. PICK b \in Bookings : b = Of(c)
  BY <1>1 DEF IInv, Shape, Of
<1>3. /\ Shape(pc[c], call[c]) /\ call[c] \in Call /\ call[c].booking = b
  BY <1>1, <1>2, Typed DEF IInv, Of
<1>4. Shape("enqueueCancel", call[c]) /\ "enqueueCancel" \in Steps /\ "CANCEL_REQUESTED" \in Statuses
  BY <1>1, <1>3 DEF Shape, CancelSteps, Steps, Statuses
<1>5. ASSUME b \notin torn' PROVE Consistent(b)'
  <2>1. /\ pc'[c] = "enqueueCancel" /\ call'[c] = call[c] /\ Others(c, b)
        /\ doc'[b].status = "CANCEL_REQUESTED"
        /\ b \notin torn /\ ~call[c].stale
        /\ \A d \in Calls \ {c} : Of(d) = b => call'[d].stale
    BY <1>1, <1>2, <1>3, <1>4, <1>5, PushFacts
  <2>2. Consistent(b) /\ Of(c) = b /\ TypeOK /\ HoldsCancel(c)
    BY <1>1, <1>2, <2>1 DEF IInv, HoldsCancel
  <2>3. /\ doc[b].status = "VOUCHERED" /\ settled[b] = 0
        /\ change[b] # "none" /\ queued[b]["poll-cancel"] = 0
        /\ \A d \in Calls : Of(d) = b /\ HoldsCancel(d) => d = c
    BY <1>1, <2>1, <2>2 DEF Consistent, FreshKnows, SettledKnown, Decided, OneCancels
  <2>4. \A d \in Calls : Of(d) = b => ~HoldsPoll(d) /\ ~Runs(d)
    BY <2>2, <2>3 DEF Consistent, OnePolls, OneRuns
  <2>5. /\ ~Runs(c)' /\ ~SavesVoucher(c)' /\ ~HoldsPoll(c)' /\ HoldsCancel(c)' /\ Of(c)' = b
    BY <1>1, <1>3, <2>1, <2>2, <2>4 DEF Runs, SavesVoucher, HoldsPoll, HoldsCancel, Of
  <2>6. \A d \in Calls : Of(d)' = b /\ d # c =>
          /\ ~Runs(d)' /\ ~HoldsPoll(d)' /\ ~HoldsCancel(d)'
          /\ pc'[d] = pc[d] /\ Of(d) = b /\ call'[d].stale
    BY <2>1, <2>2, <2>3, <2>4, Bystanders
  <2>7. \A d \in Calls : Of(d)' = b => ~Runs(d)' /\ ~HoldsPoll(d)'
    BY <2>5, <2>6
  <2>8. FreshKnows(b)'
    BY <2>1, <2>5, <2>6 DEF FreshKnows
  <2>9. OneRuns(b)' /\ OnePolls(b)'
    BY <2>1, <2>7 DEF OneRuns, OnePolls, Early
  <2>10. Forward(b)'
    BY <2>1 DEF Forward, Cancelling
  <2>11. OneCancels(b)'
    BY <1>1, <2>1, <2>3, <2>6 DEF OneCancels, Cancelling
  <2>12. RoomKnown(b)'
    BY <1>1, <2>1, <2>2, <2>7 DEF Consistent, RoomKnown, RoomFor, Early, Runs
  <2>13. MoneyKnown(b)'
    <3>1. InFlight(b)' = InFlight(b)
      BY <1>1, <1>2, <2>1, <2>2, <2>5, <2>6, Bystanders DEF InFlight
    <3>2. Stands(b) => Stands(b)'
      BY <1>1, <3>1 DEF Stands, Committed
    <3>3. money[b].refund \in {0, 1} /\ Stands(b)
      BY <2>2, <2>3, <2>4 DEF Consistent, MoneyKnown
    <3> QED
      BY <1>1, <2>1, <2>7, <3>2, <3>3 DEF MoneyKnown, Early, Cancelling
  <2>14. SettledKnown(b)'
    <3>1. \A d \in Calls : Of(d)' = b /\ d # c => pc'[d] \notin {"createJob", "request", "enqueueCancel"} \cup CancelSteps
      BY <2>6 DEF HoldsCancel
    <3> QED
      BY <1>1, <2>1, <2>2, <2>3, <3>1 DEF Consistent, SettledKnown, Decided, CancelSteps
  <2> QED
    BY <2>8, <2>9, <2>10, <2>11, <2>12, <2>13, <2>14 DEF Consistent
<1> QED
  BY <1>1, <1>2, <1>3, <1>4, <1>5, Pushes


\* What follows for a booking whose cancellation c is polling.
LEMMA CancelsAlone ==
    ASSUME TypeOK, NEW b \in Bookings, NEW c \in Calls, Consistent(b), Of(c) = b, pc[c] \in CancelSteps
    PROVE  /\ doc[b].status \in Cancelling /\ change[b] # "none"
           /\ queued[b]["poll-cancel"] = 0
           /\ \A d \in Calls : Of(d) = b => ~Runs(d) /\ ~HoldsPoll(d) /\ pc[d] # "book"
           /\ \A d \in Calls : Of(d) = b /\ d # c =>
                pc[d] \notin {"createJob", "request", "enqueueCancel"} \cup CancelSteps
<1>1. HoldsCancel(c)
  BY DEF HoldsCancel
<1>2. doc[b].status \in Cancelling
  BY DEF Consistent, Forward
<1>3. \A d \in Calls : Of(d) = b => ~Runs(d) /\ ~HoldsPoll(d)
  BY <1>2 DEF Consistent, OneRuns, OnePolls, Cancelling
<1> QED
  BY <1>1, <1>2, <1>3 DEF Consistent, OneCancels, HoldsCancel, Runs

LEMMA CreditStep ==
    ASSUME IInv, NEW c \in Calls, CreditRefund(c)
    PROVE  IInv'
<1>1. /\ UNCHANGED <<doc, lock, queued, room, doubled, money, torn, change, cancelJob>>
      /\ pc[c] = "credit"
  BY DEF CreditRefund, supplier
<1>2. PICK b \in Bookings : b = Of(c)
  BY <1>1 DEF IInv, Shape, Of
<1>3. /\ Shape(pc[c], call[c]) /\ call[c] \in Call /\ settled[b] \in Nat /\ refused \subseteq Bookings
  BY Typed DEF IInv
<1>4. PICK k \in Call, step \in {"tag", "terminal"} :
         /\ call' = [call EXCEPT ![c] = k] /\ pc' = [pc EXCEPT ![c] = step]
         /\ k.booking = b /\ k.stale = call[c].stale /\ k.debited = call[c].debited
         /\ k.refunded = call[c].refunded /\ k.checked = call[c].checked /\ k.job = call[c].job
         /\ k.target = call[c].target /\ k.left = call[c].left
         /\ \/ /\ step = "tag" /\ k.credited /\ refused' = refused
               /\ settled' = [settled EXCEPT ![b] = settled[b] + 1]
            \/ step = "terminal" /\ refused' = refused \cup {b} /\ settled' = settled
  <2>1. CASE /\ settled' = [settled EXCEPT ![b] = @ + 1] /\ call' = [call EXCEPT ![c].credited = TRUE]
             /\ Goto(c, "tag") /\ UNCHANGED refused
    <3> DEFINE k == [call[c] EXCEPT !.credited = TRUE]
    <3>1. call' = [call EXCEPT ![c] = k] /\ pc' = [pc EXCEPT ![c] = "tag"]
      BY <2>1 DEF Goto
    <3>2. /\ k \in Call /\ k.booking = b /\ k.stale = call[c].stale /\ k.debited = call[c].debited
          /\ k.refunded = call[c].refunded /\ k.checked = call[c].checked /\ k.job = call[c].job
          /\ k.target = call[c].target /\ k.left = call[c].left /\ k.credited
      BY <1>2, <1>3 DEF Call, Of
    <3> HIDE DEF k
    <3> QED
      BY <2>1, <3>1, <3>2
  <2>2. CASE /\ refused' = refused \cup {b} /\ Goto(c, "terminal") /\ UNCHANGED <<settled, call>>
    <3>1. call' = [call EXCEPT ![c] = call[c]] /\ pc' = [pc EXCEPT ![c] = "terminal"] /\ call[c].booking = b
      BY <1>2, <2>2 DEF Goto, IInv, TypeOK, HotelTypeOK, Of
    <3> QED
      BY <1>3, <2>2, <3>1
  <2> QED
    BY <1>2, <2>1, <2>2 DEF CreditRefund
<1>5. /\ pc' \in [Calls -> Steps] /\ call' \in [Calls -> Call]
      /\ pc'[c] = step /\ call'[c] = k /\ Of(c)' = b
      /\ \A d \in Calls \ {c} : pc'[d] = pc[d] /\ call'[d] = call[d]
  BY <1>4 DEF IInv, TypeOK, HotelTypeOK, Of, Steps
<1>6. /\ settled' \in [Bookings -> Nat] /\ \A e \in Bookings \ {b} : settled'[e] = settled[e]
      /\ settled'[b] = IF step = "tag" THEN settled[b] + 1 ELSE settled[b]
      /\ refused' \subseteq Bookings /\ refused \subseteq refused'
      /\ step = "terminal" => b \in refused'
  BY <1>3, <1>4 DEF IInv, TypeOK
<1>7. TypeOK' /\ OnlyAt(b) /\ Others(c, b)
  BY <1>1, <1>5, <1>6 DEF IInv, TypeOK, HotelTypeOK, OnlyAt, Others
<1>8. Shape(step, k)
  BY <1>1, <1>2, <1>3, <1>4, HotelAssumption DEF Shape, CancelSteps
<1>9. ASSUME b \notin torn' PROVE Consistent(b)'
  <2>1. Consistent(b) /\ Of(c) = b /\ TypeOK /\ pc[c] \in CancelSteps
    BY <1>1, <1>2, <1>9 DEF IInv, CancelSteps
  <2>2. /\ doc[b].status \in Cancelling /\ change[b] # "none"
        /\ queued[b]["poll-cancel"] = 0
        /\ \A d \in Calls : Of(d) = b => ~Runs(d) /\ ~HoldsPoll(d) /\ pc[d] # "book"
        /\ \A d \in Calls : Of(d) = b /\ d # c =>
             pc[d] \notin {"createJob", "request", "enqueueCancel"} \cup CancelSteps
    BY <2>1, CancelsAlone
  <2>3. settled[b] = 0 /\ change[b] = "processed"
    BY <1>1, <2>1 DEF Consistent, SettledKnown, Decided
  <2>4. \A d \in Calls : /\ Of(d)' = Of(d) /\ call'[d].stale = call[d].stale
                         /\ call'[d].debited = call[d].debited /\ call'[d].refunded = call[d].refunded
                         /\ call'[d].job = call[d].job
                         /\ (Runs(d)' <=> Runs(d))
                         /\ (SavesVoucher(d)' <=> SavesVoucher(d)) /\ (HoldsPoll(d)' <=> HoldsPoll(d))
                         /\ (HoldsCancel(d)' <=> HoldsCancel(d))
                         /\ pc'[d] = pc[d] \/ (d = c /\ pc[d] = "credit" /\ pc'[d] \in {"tag", "terminal"})
    <3>1. ASSUME NEW d \in Calls \ {c} PROVE Of(d)' = Of(d) /\ pc'[d] = pc[d] /\ call'[d] = call[d]
      BY <1>5 DEF Of
    <3>2. /\ ~Runs(c)' /\ ~SavesVoucher(c)' /\ HoldsCancel(c)' /\ ~HoldsPoll(c)'
          /\ ~Runs(c) /\ ~SavesVoucher(c) /\ HoldsCancel(c) /\ ~HoldsPoll(c)
      BY <1>1, <1>3, <1>4, <1>5 DEF Runs, SavesVoucher, HoldsPoll, HoldsCancel, CancelSteps, Shape
    <3> QED
      BY <1>1, <1>4, <1>5, <2>1, <3>1, <3>2 DEF Runs, SavesVoucher, HoldsPoll, HoldsCancel
  <2>5. FreshKnows(b)'
    BY <1>1, <2>1, <2>4 DEF Consistent, FreshKnows, Copied
  <2>6. OneRuns(b)' /\ OnePolls(b)'
    BY <1>1, <2>1, <2>2, <2>4 DEF Consistent, OneRuns, OnePolls
  <2>7. Forward(b)' /\ OneCancels(b)'
    BY <1>1, <2>1, <2>2, <2>4 DEF Consistent, Forward, OneCancels, CancelSteps
  <2>8. RoomKnown(b)'
    BY <1>1, <2>1, <2>2, <2>4 DEF Consistent, RoomKnown, RoomFor, Runs
  <2>9. MoneyKnown(b)'
    <3>1. InFlight(b)' = InFlight(b)
      BY <1>1, <2>4 DEF InFlight
    <3>2. Stands(b) => Stands(b)'
      BY <1>1, <1>6, <3>1 DEF Stands, Committed
    <3>3. money[b].refund \in {0, 1} /\ Stands(b)
      BY <2>1, <2>2 DEF Consistent, MoneyKnown
    <3> QED
      BY <1>1, <2>2, <2>4, <3>2, <3>3 DEF MoneyKnown, Early, Cancelling
  <2>10. SettledKnown(b)'
    BY <1>1, <1>4, <1>5, <1>6, <2>1, <2>2, <2>3, <2>4 DEF Consistent, SettledKnown, Decided, CancelSteps
  <2> QED
    BY <2>5, <2>6, <2>7, <2>8, <2>9, <2>10 DEF Consistent
<1>10. cancelJob'[b].credited => cancelJob'[b].completed
  BY <1>1 DEF IInv
<1> QED
  BY <1>2, <1>5, <1>7, <1>8, <1>9, <1>10, Acts

\* TagBooking, SaveTerminal: the outcome is written to the booking.
LEMMA OutcomeSteps ==
    ASSUME IInv, NEW c \in Calls, TagBooking(c) \/ SaveTerminal(c)
    PROVE  IInv'
<1>1. /\ UNCHANGED <<lock, queued, room, doubled, money, refused, torn, change, cancelJob, settled>>
      /\ pc[c] \in {"tag", "terminal"}
  BY DEF TagBooking, SaveTerminal, supplier, books, cancelVars
<1>2. PICK b \in Bookings : b = Of(c)
  BY <1>1 DEF IInv, Shape, Of
<1>3. /\ Shape(pc[c], call[c]) /\ call[c] \in Call /\ doc[b] \in Document
      /\ call \in [Calls -> Call]
  BY Typed DEF IInv, TypeOK, HotelTypeOK
<1>4. PICK r \in Document, step \in {"terminal", "finish"} :
         /\ doc' = [doc EXCEPT ![b] = r] /\ pc' = [pc EXCEPT ![c] = step]
         /\ \/ pc[c] = "tag" /\ step = "terminal" /\ r.status = doc[b].status /\ call' = call
            \/ /\ pc[c] = "terminal" /\ step = "finish" /\ r.status = call[c].target
               /\ call' = [d \in Calls |-> IF d # c /\ Of(d) = Of(c)
                                           THEN [call[d] EXCEPT !.stale = TRUE] ELSE call[d]]
  <2>1. CASE TagBooking(c)
    <3>1. doc \in [Bookings -> Document]
      BY DEF IInv, TypeOK, HotelTypeOK
    <3>2. PICK r \in {doc[b], [doc[b] EXCEPT !.refunded = TRUE]} : doc' = [doc EXCEPT ![b] = r]
      BY <1>2, <2>1, <3>1 DEF TagBooking
    <3>3. r \in Document /\ r.status = doc[b].status
      BY <1>3, <3>2 DEF Document
    <3> QED
      BY <2>1, <3>2, <3>3 DEF TagBooking, Goto
  <2>2. CASE SaveTerminal(c)
    <3>1. call[c].target \in Statuses
      BY <1>3, <2>2 DEF SaveTerminal, Shape, Statuses
    <3> DEFINE r == [doc[b] EXCEPT !.status = call[c].target]
    <3>2. doc' = [doc EXCEPT ![b] = r] /\ r \in Document /\ r.status = call[c].target
      BY <1>2, <1>3, <2>2, <3>1 DEF SaveTerminal, Document
    <3> HIDE DEF r
    <3> QED
      BY <2>2, <3>2 DEF SaveTerminal, Goto
  <2> QED
    BY <2>1, <2>2
<1>5. /\ pc' \in [Calls -> Steps] /\ pc'[c] = step /\ \A d \in Calls \ {c} : pc'[d] = pc[d]
      /\ doc' \in [Bookings -> Document] /\ doc'[b].status = r.status
      /\ \A e \in Bookings \ {b} : doc'[e] = doc[e]
  BY <1>4 DEF IInv, TypeOK, HotelTypeOK, Steps
<1>6. /\ call' \in [Calls -> Call] /\ call'[c] = call[c] /\ Of(c)' = b
      /\ \A d \in Calls \ {c} : \/ call'[d] = call[d] /\ pc[c] = "tag"
                                \/ call'[d] = call[d] /\ Of(d) # b
                                \/ Of(d) = b /\ call'[d] = [call[d] EXCEPT !.stale = TRUE]
  <2>1. \A d \in Calls : [call[d] EXCEPT !.stale = TRUE] \in Call /\ call[d] \in Call
    BY <1>3 DEF Call
  <2>2. CASE call' = call /\ pc[c] = "tag"
    BY <1>2, <1>3, <2>2 DEF Of
  <2>3. CASE call' = [d \in Calls |-> IF d # c /\ Of(d) = Of(c)
                                      THEN [call[d] EXCEPT !.stale = TRUE] ELSE call[d]]
    <3>1. \A d \in Calls : call'[d] = IF d # c /\ Of(d) = b THEN [call[d] EXCEPT !.stale = TRUE] ELSE call[d]
      BY <1>2, <2>3
    <3>2. call' \in [Calls -> Call]
      BY <2>1, <2>3
    <3> QED
      BY <1>2, <3>1, <3>2 DEF Of
  <2> QED
    BY <1>4, <2>2, <2>3
<1>7. TypeOK' /\ OnlyAt(b) /\ Others(c, b)
  BY <1>1, <1>5, <1>6 DEF IInv, TypeOK, HotelTypeOK, OnlyAt, Others
<1>8. Shape(pc'[c], call'[c])
  BY <1>1, <1>3, <1>4, <1>5, <1>6 DEF Shape, CancelSteps
<1>9. ASSUME b \notin torn' PROVE Consistent(b)'
  <2>1. Consistent(b) /\ Of(c) = b /\ TypeOK /\ pc[c] \in CancelSteps
    BY <1>1, <1>2, <1>9 DEF IInv, CancelSteps
  <2>2. /\ doc[b].status \in Cancelling /\ change[b] # "none"
        /\ queued[b]["poll-cancel"] = 0
        /\ \A d \in Calls : Of(d) = b => ~Runs(d) /\ ~HoldsPoll(d) /\ pc[d] # "book"
        /\ \A d \in Calls : Of(d) = b /\ d # c =>
             pc[d] \notin {"createJob", "request", "enqueueCancel"} \cup CancelSteps
    BY <2>1, CancelsAlone
  <2>3. doc'[b].status \in Cancelling
    BY <1>3, <1>4, <1>5, <2>2 DEF Shape, Cancelling
  <2>4. \A d \in Calls : Of(d)' = b /\ d # c =>
          /\ Of(d) = b /\ pc'[d] = pc[d] /\ ~Runs(d)' /\ ~HoldsPoll(d)'
          /\ ~call'[d].stale => call'[d] = call[d] /\ ~call[d].stale
          /\ pc'[d] \notin {"createJob", "request", "enqueueCancel"} \cup CancelSteps
          /\ ~HoldsCancel(d)'
    <3>1. ASSUME NEW d \in Calls \ {c}, Of(d)' = b
          PROVE  Of(d) = b /\ pc'[d] = pc[d] /\ ~Runs(d)' /\ ~HoldsPoll(d)'
      BY <1>7, <2>1, <2>2, <3>1, Bystanders
    <3>2. ASSUME NEW d \in Calls \ {c}, ~call'[d].stale PROVE call'[d] = call[d] /\ ~call[d].stale
      BY <1>3, <1>6, <3>2 DEF Call
    <3>3. ASSUME NEW d \in Calls \ {c}, Of(d)' = b
          PROVE  pc'[d] \notin {"createJob", "request", "enqueueCancel"} \cup CancelSteps /\ ~HoldsCancel(d)'
      BY <2>2, <3>1, <3>3 DEF HoldsCancel, CancelSteps
    <3> QED
      BY <3>1, <3>2, <3>3
  <2>5. /\ ~Runs(c)' /\ ~SavesVoucher(c)' /\ HoldsCancel(c)' /\ ~HoldsPoll(c)' /\ pc'[c] \in {"terminal", "finish"}
    BY <1>1, <1>3, <1>4, <1>5, <1>6 DEF Runs, SavesVoucher, HoldsPoll, HoldsCancel, CancelSteps, Shape
  <2>6. FreshKnows(b)'
    <3>1. \A d \in Calls : Of(d) = b /\ ~call[d].stale =>
            /\ pc[d] \notin {"gate", "block", "askApproval", "approve", "reject", "debit", "debited",
                            "fetch", "still", "requeue", "generate", "send", "createJob", "request"}
            /\ ~SavesVoucher(d)
      BY <2>1, <2>2 DEF Consistent, FreshKnows, Cancelling
    <3> QED
      BY <2>4, <2>5, <3>1 DEF FreshKnows, SavesVoucher
  <2>7. OneRuns(b)' /\ OnePolls(b)'
    <3>1. doc'[b].status \notin Early
      BY <2>3 DEF Cancelling, Early
    <3> QED
      BY <2>4, <2>5, <3>1 DEF OneRuns, OnePolls
  <2>8. Forward(b)' /\ OneCancels(b)'
    BY <1>1, <2>2, <2>3, <2>4, <2>5 DEF Forward, OneCancels, CancelSteps
  <2>9. RoomKnown(b)'
    <3>1. RoomFor(doc[b].status, b)' /\ doc'[b].status # "HELD"
      BY <2>3 DEF RoomFor, Cancelling, Early
    <3>2. b \notin doubled /\ (change[b] \in GivenUp => room[b] = "cancelled")
      BY <2>1 DEF Consistent, RoomKnown
    <3> QED
      BY <1>1, <2>4, <2>5, <3>1, <3>2 DEF RoomKnown, Runs
  <2>10. MoneyKnown(b)'
    <3>1. InFlight(b)' = InFlight(b)
      BY <1>1, <1>2, <1>7, <2>1, <2>4, <2>5, Bystanders DEF InFlight
    <3>2. Stands(b) => Stands(b)'
      BY <1>1, <3>1 DEF Stands, Committed
    <3>3. money[b].refund \in {0, 1} /\ Stands(b)
      BY <2>1, <2>2 DEF Consistent, MoneyKnown
    <3> QED
      BY <1>1, <2>3, <2>4, <2>5, <3>2, <3>3 DEF MoneyKnown, Early, Cancelling
  <2>11. SettledKnown(b)'
    <3>1. /\ settled[b] \in {0, 1} /\ (settled[b] = 1 => change[b] = "processed")
          /\ doc[b].status = "CANCELLED" => Decided(b)
          /\ pc[c] = "tag" \/ call[c].target = "CANCELLED" => Decided(b)
      BY <1>1, <2>1 DEF Consistent, SettledKnown, Decided
    <3>2. doc'[b].status = "CANCELLED" => Decided(b)
      BY <1>4, <1>5, <3>1
    <3>3. \A d \in Calls : Of(d)' = b /\ pc'[d] \in {"createJob", "request", "enqueueCancel"} \cup CancelSteps => d = c
      BY <2>4
    <3> QED
      BY <1>1, <1>6, <2>2, <2>5, <3>1, <3>2, <3>3 DEF SettledKnown, Decided, CancelSteps
  <2> QED
    BY <2>6, <2>7, <2>8, <2>9, <2>10, <2>11 DEF Consistent
<1>10. cancelJob'[b].credited => cancelJob'[b].completed
  BY <1>1 DEF IInv
<1> QED
  BY <1>2, <1>6, <1>7, <1>8, <1>9, <1>10, Acts

LEMMA FinishStep ==
    ASSUME IInv, NEW c \in Calls, FinishJob(c)
    PROVE  IInv'
<1>1. /\ UNCHANGED <<doc, lock, queued, room, doubled, money, refused, torn, change, settled>>
      /\ pc[c] = "finish" /\ Leave(c)
      /\ cancelJob' = [cancelJob EXCEPT ![Of(c)].completed = TRUE, ![Of(c)].credited = call[c].credited,
                                        ![Of(c)].polls = @ + 1]
  BY DEF FinishJob, supplier, books
<1>2. PICK b \in Bookings : b = Of(c)
  BY <1>1 DEF IInv, Shape, Of
<1>3. /\ pc' \in [Calls -> Steps] /\ call' \in [Calls -> Call]
      /\ pc'[c] \in Resting /\ Shape(pc'[c], call'[c])
      /\ ~call'[c].checked /\ call'[c].job = None
      /\ \A d \in Calls \ {c} : pc'[d] = pc[d] /\ call'[d] = call[d]
  BY <1>1, <1>2, Leaves DEF IInv
<1>4. /\ cancelJob' \in [Bookings -> CancelJob]
      /\ \A e \in Bookings : cancelJob'[e].credited => cancelJob'[e].completed
  <2>1. cancelJob[b] \in CancelJob /\ call[c] \in Call
    BY Typed DEF IInv
  <2>2. call[c].credited \in BOOLEAN /\ cancelJob[b].polls + 1 \in Nat
    BY <2>1 DEF CancelJob, Call
  <2> DEFINE r == [cancelJob[b] EXCEPT !.completed = TRUE, !.credited = call[c].credited, !.polls = @ + 1]
  <2>3. r \in CancelJob /\ r.completed
    BY <2>1, <2>2 DEF CancelJob
  <2>4. cancelJob' = [cancelJob EXCEPT ![b] = r]
    BY <1>1, <1>2 DEF IInv, TypeOK
  <2> HIDE DEF r
  <2> QED
    BY <2>3, <2>4 DEF IInv, TypeOK
<1>5. TypeOK'
  BY <1>1, <1>3, <1>4 DEF IInv, TypeOK, HotelTypeOK
<1>6. Retires(c)
  BY <1>1, <1>3, HotelAssumption DEF Retires, Runs
<1>7. \A e \in Bookings \ torn : SameBut(e)
  BY <1>1 DEF SameBut
<1>8. \A e \in Bookings \ torn : Consistent(e)'
  BY <1>3, <1>6, <1>7, Frame DEF IInv
<1>9. \A d \in Calls : Shape(pc'[d], call'[d])
  BY <1>3 DEF IInv
<1> QED
  BY <1>1, <1>4, <1>5, <1>8, <1>9 DEF IInv


-----------------------------------------------------------------------------
(* The invariant *)

LEMMA InitIInv == Init => IInv
<1> SUFFICES ASSUME Init PROVE IInv
  OBVIOUS
<1>1. TypeOK
  BY HotelAssumption DEF Init, HotelInit, TypeOK, HotelTypeOK, Document, Call, NoCall, CancelJob,
     Statuses, Rooms, Steps, Jobs, Changes
<1>2. /\ NoCall.booking = None /\ ~NoCall.checked /\ NoCall.job = None /\ NoCall.left = 0
      /\ \A c \in Calls : pc[c] = "idle" /\ call[c] = NoCall
  BY DEF Init, HotelInit, NoCall
<1>3. \A c \in Calls : Shape(pc[c], call[c])
  BY <1>2, HotelAssumption DEF Shape, CancelSteps
<1>4. ASSUME NEW b \in Bookings PROVE Consistent(b)
  <2>1. /\ doc[b].status = "DRAFT" /\ ~doc[b].debited /\ ~doc[b].refunded /\ room[b] = "none"
        /\ b \notin doubled /\ money[b].debit = 0 /\ money[b].refund = 0
        /\ change[b] = "none" /\ settled[b] = 0
        /\ queued[b]["poll"] = 0 /\ queued[b]["poll-cancel"] = 0
    BY DEF Init, HotelInit, Jobs
  <2>2. \A c \in Calls : Of(c) # b
    BY <1>2, HotelAssumption DEF Of
  <2>3. FreshKnows(b) /\ OneRuns(b) /\ OnePolls(b) /\ Forward(b) /\ OneCancels(b)
    BY <2>1, <2>2 DEF FreshKnows, OneRuns, OnePolls, Forward, OneCancels, Cancelling
  <2>4. RoomKnown(b)
    BY <2>1, <2>2 DEF RoomKnown, RoomFor, GivenUp
  <2>5. MoneyKnown(b)
    <3>1. InFlight(b) = {}
      BY <2>2 DEF InFlight
    <3>2. Committed(b) = 0
      BY <2>1, <3>1, FS_EmptySet DEF Committed
    <3> QED
      BY <2>1, <2>2, <3>2 DEF MoneyKnown, Fell, Cancelling
  <2>6. SettledKnown(b)
    BY <2>1, <2>2 DEF SettledKnown, Decided
  <2> QED
    BY <2>3, <2>4, <2>5, <2>6 DEF Consistent
<1> QED
  BY <1>1, <1>3, <1>4 DEF IInv, Init, HotelInit

LEMMA StutterStep == ASSUME IInv, UNCHANGED vars PROVE IInv'
<1>1. UNCHANGED <<doc, lock, queued, room, doubled, money, refused, torn, pc, call, change, cancelJob, settled>>
  BY DEF vars, hotelVars, cancelVars
<1>2. TypeOK'
  BY <1>1 DEF IInv, TypeOK, HotelTypeOK
<1> QED
  BY <1>1, <1>2, Quiet DEF SameBut

LEMMA StartSteps ==
    ASSUME IInv, NEW c \in Calls, NEW b \in Bookings, Start(c, b)
    PROVE  IInv'
<1>1. CASE LockDraft(c, b) /\ UNCHANGED cancelVars
  BY <1>1, LockSteps
<1>2. CASE ReadForApproval(c, b) /\ UNCHANGED cancelVars
  BY <1>2, ReadSteps
<1>3. CASE ReadPending(c, b) /\ UNCHANGED cancelVars
  BY <1>3, TakeSteps
<1>4. CASE ReadHeld(c, b) /\ UNCHANGED cancelVars
  <2>1. CASE TakeJob(c, b, "voucher")
    BY <1>4, <2>1, TakeSteps
  <2>2. CASE UNCHANGED queued
    BY <1>4, <2>2, ReadSteps
  <2> QED
    BY <1>4, <2>1, <2>2 DEF ReadHeld
<1>5. CASE DropVoucher(c, b) /\ UNCHANGED cancelVars
  BY <1>5, DropsVoucher
<1>6. CASE ReadForCancel(c, b)
  <2>1. UNCHANGED cancelVars
    BY <1>6 DEF ReadForCancel
  <2> QED
    BY <1>6, <2>1, ReadSteps
<1>7. CASE ReadJob(c, b)
  BY <1>7, TakeSteps
<1> QED
  BY <1>1, <1>2, <1>3, <1>4, <1>5, <1>6, <1>7 DEF Start, HotelStart

LEMMA HotelProceeds ==
    ASSUME IInv, NEW c \in Calls, HotelProceed(c), UNCHANGED cancelVars
    PROVE  IInv'
<1>1. CASE LoadDraft(c)
  <2>1. CASE Bookable(Of(c))
    <3>1. Of(c) \in Bookings
      BY <1>1 DEF LoadDraft, IInv, Shape, Of
    <3> QED
      BY <1>1, <2>1, <3>1, ReadSteps
  <2>2. CASE ~Bookable(Of(c))
    BY <1>1, <2>2, GiveUpSteps
  <2> QED
    BY <2>1, <2>2
<1>2. CASE Gate(c) \/ FetchNothing(c)
  BY <1>2, DecideSteps
<1>3. CASE Block(c) \/ Approve(c) \/ Reject(c)
  BY <1>3, EarlySteps
<1>4. CASE AskApproval(c)
  <2>1. CASE call[c].stale
    BY <1>4, <2>1, GiveUpSteps
  <2>2. CASE ~call[c].stale
    BY <1>4, <2>2, EarlySteps
  <2> QED
    BY <2>1, <2>2
<1>5. CASE CheckLock(c) \/ DeleteLock(c)
  BY <1>5, LockSteps
<1>6. CASE Debit(c)
  BY <1>6, DebitStep
<1>7. CASE DebitRefused(c)
  BY <1>7, GiveUpSteps
<1>8. CASE SaveInterim(c)
  BY <1>8, SaveInterimStep
<1>9. CASE Book(c)
  BY <1>9, BookStep
<1>10. CASE Refund(c)
  BY <1>10, RefundStep
<1>11. CASE SaveOutcome(c)
  BY <1>11, SaveOutcomeStep, SaveVoucherStep
<1>12. CASE VersionConflict(c)
  BY <1>12, ConflictStep
<1>13. CASE EnqueueNext(c) \/ RequeuePoll(c)
  BY <1>13, EnqueueSteps
<1>14. CASE Fetch(c) \/ FetchError(c)
  BY <1>14, FetchStep
<1>15. CASE PollAgain(c)
  BY <1>15, AgainSteps
<1>16. CASE GenerateVoucher(c)
  BY <1>16, GenerateStep
<1>17. CASE VoucherFails(c)
  BY <1>17, VoucherFailsStep
<1>18. CASE WriteFails(c, {"save", "enqueue", "still", "requeue"})
  BY <1>18, WriteFailsStep
<1> QED
  BY <1>1, <1>2, <1>3, <1>4, <1>5, <1>6, <1>7, <1>8, <1>9, <1>10, <1>11, <1>12, <1>13, <1>14,
     <1>15, <1>16, <1>17, <1>18 DEF HotelProceed

LEMMA ProceedSteps ==
    ASSUME IInv, NEW c \in Calls, Proceed(c)
    PROVE  IInv'
<1>1. CASE HotelProceed(c) /\ UNCHANGED cancelVars
  BY <1>1, HotelProceeds
<1>2. CASE SendChangeRequest(c)
  BY <1>2, RequestSteps, RequestLostStep DEF SendChangeRequest
<1>3. CASE ChangeRefused(c) \/ StatusFails(c)
  <2>1. UNCHANGED cancelVars
    BY <1>3 DEF ChangeRefused, StatusFails
  <2> QED
    BY <1>3, <2>1, GiveUpSteps
<1>4. CASE CreateJob(c)
  BY <1>4, RequestSteps
<1>5. CASE SaveRequested(c)
  BY <1>5, SaveRequestedStep
<1>6. CASE EnqueueCancel(c) \/ RequeueCancel(c)
  <2>1. UNCHANGED cancelVars
    BY <1>6 DEF EnqueueCancel, RequeueCancel
  <2> QED
    BY <1>6, <2>1, EnqueueSteps
<1>7. CASE PollCancelAgain(c)
  BY <1>7, AgainSteps
<1>8. CASE StatusKnown(c)
  BY <1>8, DecideSteps
<1>9. CASE CreditRefund(c)
  BY <1>9, CreditStep
<1>10. CASE TagBooking(c) \/ SaveTerminal(c)
  BY <1>10, OutcomeSteps
<1>11. CASE FinishJob(c)
  BY <1>11, FinishStep
<1>12. CASE /\ WriteFails(c, {"createJob", "request", "enqueueCancel", "requeueCancel",
                               "terminal", "finish"})
            /\ UNCHANGED cancelVars
  BY <1>12, WriteFailsStep
<1> QED
  BY <1>1, <1>2, <1>3, <1>4, <1>5, <1>6, <1>7, <1>8, <1>9, <1>10, <1>11, <1>12 DEF Proceed

LEMMA NextIInv == ASSUME IInv, [Next]_vars PROVE IInv'
<1>1. ASSUME NEW c \in Calls, Proceed(c) PROVE IInv'
  BY <1>1, ProceedSteps
<1>2. ASSUME NEW c \in Calls, Crash(c) PROVE IInv'
  BY <1>2, CrashStep
<1>3. ASSUME NEW c \in Calls, NEW b \in Bookings, Start(c, b) PROVE IInv'
  BY <1>3, StartSteps
<1>4. ASSUME NEW b \in Bookings, SupplierDecides(b) PROVE IInv'
  BY <1>4, DecidesStep
<1>5. ASSUME NEW b \in Bookings, HotelEnvironment(b), UNCHANGED cancelVars PROVE IInv'
  BY <1>5, LockExpiresStep, ResolvesStep DEF HotelEnvironment
<1> QED
  BY <1>1, <1>2, <1>3, <1>4, <1>5, StutterStep DEF Next

\* The strengthened invariant holds in every reachable state.
THEOREM Invariance == Spec => []IInv
<1>1. Init => IInv
  BY InitIInv
<1>2. IInv /\ [Next]_vars => IInv'
  BY NextIInv
<1> QED
  BY <1>1, <1>2, PTL DEF Spec

-----------------------------------------------------------------------------
(* What follows from it *)

\* Type correctness: every document, job, answer and copy keeps to its range.
THEOREM TypesKept == Spec => []TypeOK
<1>1. IInv => TypeOK
  BY DEF IInv
<1> QED
  BY <1>1, Invariance, PTL

\* Every order of attempts, approvals, polls, refunds and crashes leaves a debit with a
\* room or its refund, and one of them only.
THEOREM DebitsHaveOneOutcome == Spec => []DebitHasOneOutcome
<1>1. ASSUME IInv PROVE DebitHasOneOutcome
  <2>1. ASSUME NEW b \in Bookings \ (torn \cup refused)
        PROVE  /\ MoneyKnown(b) /\ OneRuns(b)
               /\ money[b] \in [debit : Nat, refund : Nat] /\ Cardinality(InFlight(b)) \in Nat
    BY <1>1, <2>1, BookingTyped DEF IInv, Consistent
  <2>2. RoomIsPaid
    <3> SUFFICES ASSUME NEW b \in Bookings \ (torn \cup refused),
                        doc[b].status \in {"HELD", "VOUCHERED", "CANCEL_REQUESTED", "CANCEL_REJECTED"},
                        money[b].debit <= 2
                 PROVE  money[b].debit = money[b].refund + 1 + Cardinality(InFlight(b))
      BY DEF RoomIsPaid
    <3>1. /\ MoneyKnown(b) /\ OneRuns(b)
          /\ money[b] \in [debit : Nat, refund : Nat] /\ Cardinality(InFlight(b)) \in Nat
      BY <2>1
    <3>2. Stands(b)
      BY <3>1 DEF MoneyKnown, OneRuns, Cancelling
    <3>3. /\ money[b].refund < Committed(b)
          /\ money[b].refund = IF Committed(b) = 1 THEN 0 ELSE 1
      BY <3>2 DEF Stands
    <3> QED
      BY <3>1, <3>3 DEF Committed
  <2>3. FirstFailureRefunded
    <3> SUFFICES ASSUME NEW b \in Bookings \ (torn \cup refused),
                        doc[b].status = "BOOK_FAILED", money[b].debit = 1, InFlight(b) = {}
                 PROVE  money[b].refund = 1
      BY DEF FirstFailureRefunded
    <3>1. MoneyKnown(b) /\ OneRuns(b)
      BY <2>1
    <3>2. Fell(b)
      BY <3>1 DEF MoneyKnown, OneRuns
    <3>3. Committed(b) = 1
      BY FS_EmptySet DEF Committed
    <3> QED
      BY <3>2, <3>3 DEF Fell
  <2> QED
    BY <2>2, <2>3 DEF DebitHasOneOutcome
<1> QED
  BY <1>1, Invariance, PTL

\* The lock, although it may expire, and the status saved before Book keep a booking that is
\* not torn from being booked twice.
THEOREM RoomsBookedOnce == Spec => []BookedOnce
<1>1. ASSUME IInv PROVE BookedOnce
  BY <1>1 DEF IInv, TypeOK, HotelTypeOK, Consistent, RoomKnown, BookedOnce
<1> QED
  BY <1>1, Invariance, PTL

\* A voucher is that of a room the supplier has confirmed and not cancelled, until a change
\* request is about to be saved.
THEOREM VouchersReal == Spec => []VoucherIsReal
<1>1. ASSUME IInv PROVE VoucherIsReal
  <2> SUFFICES ASSUME NEW b \in Bookings \ torn, doc[b].status = "VOUCHERED"
               PROVE  \/ room[b] = "confirmed"
                      \/ \E c \in Calls : Of(c) = b /\ pc[c] \in {"createJob", "request"}
    BY DEF VoucherIsReal
  <2>1. OneCancels(b) /\ RoomKnown(b)
    BY <1>1 DEF IInv, Consistent
  <2>2. CASE change[b] \in GivenUp
    BY <2>1, <2>2 DEF OneCancels, Cancelling, GivenUp
  <2>3. CASE change[b] \notin GivenUp
    BY <2>1, <2>3 DEF RoomKnown, RoomFor
  <2> QED
    BY <2>2, <2>3
<1> QED
  BY <1>1, Invariance, PTL

\* Change request, job, credit and status agree: the agency never gets back more than it paid,
\* a cancellation is refunded only for a room that was given up, and it is when it shows.
THEOREM CancellationsSettleOnce == Spec => []CancellationSettlesOnce
<1>1. ASSUME IInv PROVE CancellationSettlesOnce
  <2>1. ASSUME NEW b \in Bookings \ torn
        PROVE  /\ Consistent(b)
               /\ money[b] \in [debit : Nat, refund : Nat] /\ Cardinality(InFlight(b)) \in Nat
               /\ settled[b] \in {0, 1}
               /\ settled[b] = 1 => change[b] = "processed" /\ room[b] = "cancelled"
    BY <1>1, <2>1, BookingTyped DEF IInv, Consistent, SettledKnown, Decided, RoomKnown, GivenUp
  <2>2. MoneyBackOnce
    <3> SUFFICES ASSUME NEW b \in Bookings \ torn
                 PROVE  money[b].refund + settled[b] <= money[b].debit
      BY DEF MoneyBackOnce
    <3>1. CASE Stands(b)
      BY <2>1, <3>1 DEF Stands, Committed
    <3>2. CASE Fell(b) /\ settled[b] = 0
      BY <2>1, <3>2 DEF Fell, Committed
    <3>3. doc[b].status \in Statuses
      BY <1>1, BookingTyped DEF IInv, Document
    <3>4. settled[b] = 1 => doc[b].status \in {"VOUCHERED"} \cup Cancelling
      BY <2>1 DEF Consistent, OneCancels
    <3>5. Stands(b) \/ (Fell(b) /\ settled[b] = 0)
      <4>1. CASE \E c \in Calls : Of(c) = b /\ Runs(c)
        <5>1. Stands(b) \/ Fell(b)
          BY <2>1, <4>1 DEF Consistent, MoneyKnown
        <5>2. doc[b].status \in {"APPROVED", "PENDING_SUPPLIER"}
          BY <2>1, <4>1 DEF Consistent, OneRuns
        <5> QED
          BY <2>1, <3>4, <5>1, <5>2 DEF Cancelling
      <4>2. CASE ~\E c \in Calls : Of(c) = b /\ Runs(c)
        <5>1. /\ doc[b].status \in Early \cup {"BOOK_FAILED"} => Fell(b)
              /\ doc[b].status \in {"PENDING_SUPPLIER", "HELD", "VOUCHERED"} \cup Cancelling => Stands(b)
          BY <2>1, <4>2 DEF Consistent, MoneyKnown
        <5> QED
          BY <2>1, <3>3, <3>4, <5>1 DEF Early, Cancelling, Statuses
      <4> QED
        BY <4>1, <4>2
    <3> QED
      BY <3>1, <3>2, <3>5
  <2>3. SettledIsCancelled
    BY <2>1 DEF SettledIsCancelled
  <2>4. CancelledIsSettled
    BY <2>1 DEF CancelledIsSettled, Consistent, SettledKnown, Decided
  <2> QED
    BY <2>2, <2>3, <2>4 DEF CancellationSettlesOnce
<1> QED
  BY <1>1, Invariance, PTL
=============================================================================
