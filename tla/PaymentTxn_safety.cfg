SPECIFICATION Spec
CONSTANTS
    Payments = {p1}
    Handlers = {h1, h2}
    EventTypes = {"SUCCESS", "FAILED", "REFUND_ACCEPTED", "REFUND_COMPLETED", "REFUND_FAILED"}
    Repeated = {"REFUND_COMPLETED"}
    Notices = {}
    MaxAttempts = 1
    WaterfallLive = FALSE
    SessionId = "order"
    Expires = TRUE
    Reconciles = FALSE
    None = None
CHECK_DEADLOCK FALSE
SYMMETRY CallSymmetry
INVARIANTS
    CreditedOnce
    CreditsMatchCaptures
    ReversalsFollowRefunds
    AcknowledgedEventsTookEffect
PROPERTY
    RefundsAreFinal
