SPECIFICATION Spec
CONSTANTS
    Bookings = {b1}
    Calls = {c1, c2}
    MaxBooks = 2
    MaxPolls = 2
    Deliveries = 2
    None = None
CHECK_DEADLOCK FALSE
CONSTRAINT NothingTorn
SYMMETRY MCSymmetry
INVARIANT
    FailureRefunded
