SPECIFICATION Spec
CONSTANTS
    Caller = {c1, c2}
    c1 = c1
    c2 = c2
    NoCaller = none
    N = 1
    Healthy = {0}
    Cancellable = {}
    HasPassword = TRUE
    Override = 0
    Persist = TRUE
    InitFile = {1}
    Quota = 2
    Expiring = {1}
    Fault = {}
INVARIANT PasswordClientRecovers
