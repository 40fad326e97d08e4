SPECIFICATION FairSpec
CONSTANTS
    Bookings = {b1}
    Calls = {c1, c2}
    SeatsOf <- MCSeatsOf
    Price = 3
    Fee = 1
    TotalSeats = 1
    NewTotals = {}
    SupplierOf <- MCSeries
    None = None
CHECK_DEADLOCK FALSE
INVARIANTS
    DebitedOnce
    TicketedOnce
    MoneyFollowsBooking
    NoForgottenTicket
PROPERTY
    HoldsEnd
