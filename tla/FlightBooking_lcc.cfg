SPECIFICATION Spec
CONSTANTS
    Bookings = {b1}
    Calls = {c1, c2}
    SeatsOf <- MCNoSeats
    Price = 3
    Fee = 1
    TotalSeats = 1
    NewTotals = {}
    SupplierOf <- MCLcc
    None = None
CHECK_DEADLOCK FALSE
INVARIANT
    NoForgottenTicket
