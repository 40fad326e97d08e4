SPECIFICATION AmendmentSpec
CONSTANTS
    Bookings = {b1, b2}
    Calls = {c1, c2}
    SeatsOf <- MCSeatsOf
    Price = 1
    Fee = 1
    TotalSeats = 1
    NewTotals = {2}
    SupplierOf <- MCSeries
    Amendments = {m1}
    None = None
CHECK_DEADLOCK FALSE
SYMMETRY MCSymmetry
CONSTRAINT InOrder
INVARIANTS
    AmendedSeatsConserved
    AmendmentTellsMoney
    LockedUntilDecided
