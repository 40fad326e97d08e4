------------------------ MODULE MCHotelCancellation ------------------------
(* Instances of HotelCancellation for TLC. *)
EXTENDS HotelCancellation, TLC

\* Calls are interchangeable.
MCSymmetry == Permutations(Calls)

\* Bound: nothing is explored after a booking is torn.
NothingTorn == torn = {}
=============================================================================
