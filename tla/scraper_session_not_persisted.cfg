SPECIFICATION Spec
CONSTANTS
    Caller = {c1, c2}
    c1 = c1
    c2 = c2
    NoCaller = none
    N = 2
    Healthy = {1}
    Cancellable = {}
    HasPassword = TRUE
    Override = 0
    Persist = TRUE
    InitFile = {1}
    Quota = 1
    Expiring = {}
    Fault = {}
INVARIANT LastLoginPersisted
