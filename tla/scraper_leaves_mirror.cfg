SPECIFICATION Spec
CONSTANTS
    Caller = {c1, c2}
    c1 = c1
    c2 = c2
    NoCaller = none
    N = 2
    Healthy = {0, 1}
    Cancellable = {c1}
    HasPassword = FALSE
    Override = 0
    Persist = FALSE
    InitFile = {0}
    Quota = 0
    Expiring = {}
    Fault = {}
PROPERTY LeavesMirrorOnlyOnItsFailure
