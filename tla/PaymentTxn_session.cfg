SPECIFICATION FairSpec
CONSTANTS
    Payments = {p1}
    Handlers = {h1, h2}
    EventTypes = {"SUCCESS"}
    Repeated = {}
    Notices = {"return", "advice"}
    MaxAttempts = 2
    WaterfallLive = FALSE
    SessionId = "session"
    Expires = FALSE
    Reconciles = TRUE
    None = None
CHECK_DEADLOCK FALSE
PROPERTY
    CapturedIsCredited
