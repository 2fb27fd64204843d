SPECIFICATION FairSpec
CONSTANTS
    Caller = {c1, c2}
    c1 = c1
    c2 = c2
    NoCaller = none
    N = 1
    Healthy = {}
    Cancellable = {c1}
    HasPassword = TRUE
    Override = 0
    Persist = TRUE
    InitFile = {0, 1}
    Quota = 1
    Expiring = {1, 2}
    Fault = {"disk", "read", "crash", "page", "captcha", "badCredentials", "otherError", "garbled"}
INVARIANTS TypeOK MutexHeldInLogin
PROPERTY CallsReturn
