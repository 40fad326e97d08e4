SPECIFICATION Spec
CONSTANTS
    Payments = {p1}
    Handlers = {h1, h2}
    EventTypes = {"SUCCESS"}
    Repeated = {}
    Notices = {}
    MaxAttempts = 2
    WaterfallLive = TRUE
    SessionId = "session"
    Expires = TRUE
    Reconciles = FALSE
    None = None
CHECK_DEADLOCK FALSE
INVARIANT
    CreditedOnce
