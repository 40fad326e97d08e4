--------------------------- MODULE MCFlightBooking ---------------------------
(* Instances of FlightBooking for TLC. *)
EXTENDS FlightBooking, TLC

\* Every booking takes a seat of the series inventory, or none of ours.
MCSeatsOf == [b \in Bookings |-> 1]
MCNoSeats == [b \in Bookings |-> 0]

MCSeries == [b \in Bookings |-> "SERIES"]
MCLcc == [b \in Bookings |-> "LCC"]
=============================================================================
