\* Two requests at a time of one account, from one address.
CONSTANTS
    h1 = h1
    h2 = h2
    p1 = p1
    p2 = p2
    Names = {"ann"}
    Addrs = {"a1"}
    LimiterKeys = {"ann", "a1"}
    MaxAttempts = 2
    Window = 2
    Passwords = {p1, p2}
    Handlers = {h1, h2}
    TTL = 3
    RenewAfter = 1
    DbFails = TRUE
    MaxClock = 3
    MaxRequests = 4
    MaxRestarts = 1
\* All requests may have been served.
CHECK_DEADLOCK FALSE
SYMMETRY Alike
SPECIFICATION Spec
INVARIANTS
    TypeOK
    RevokedStaysOut
    ExpirySlides
    AttemptsAreBounded
    RetryAfterIsExact
