SPECIFICATION FairSpec
CONSTANTS
    Seats = {s1, s2}
    Attempts = {k1, k2}
    Prices = {3}
    Calls = {c1, c2}
    MaxWork = 3
    MaxCancellations = 2
    None = None
CHECK_DEADLOCK FALSE
CONSTRAINT LittleWork
INVARIANTS
    BookedIsPaid
    LostTicketIsFound
    OneApprovedBooking
    CancellationsTellSeats
PROPERTY
    OperatorCancellationArrives
