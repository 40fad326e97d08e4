------------------------- MODULE MCFlightAmendment -------------------------
(* Instances of FlightAmendment for TLC. *)
EXTENDS FlightAmendment, TLC

\* Every booking takes a seat of the series inventory.
MCSeatsOf == [b \in Bookings |-> 1]
MCSeries == [b \in Bookings |-> "SERIES"]

MCSymmetry == Permutations(Calls) \cup Permutations(Bookings)

\* Bounds: nothing is explored after a clobbering or an amendment out of order, nor
\* after a refused refund or a cancellation the supplier refused, which touch no seat; beside
\* an amendment the inventory is not edited.
InOrder ==
    /\ clobbered = {} /\ strayed = {} /\ torn = {}
    /\ refused = {}
    /\ \A c \in Calls :
         /\ call[c].supplierCancel # "FAILED"
         /\ pc[c] = "edit" => \A m \in Amendments : amendment[m].status = "NONE"
=============================================================================
