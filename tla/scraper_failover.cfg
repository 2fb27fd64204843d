SPECIFICATION ClientSpec
CONSTANTS
    c1 = c1
    c2 = c2
    c3 = c3
    NoCaller = none
    Caller = {c1, c2}
    Client = {"configured", "shared"}
    N = 3
    Healthy = {2}
    Cancellable = {}
    HasPassword = TRUE
    Override = 0
    Persist = TRUE
    InitFile = {0, 1}
    Quota = 1
    Expiring = {}
    Fault = {}
SYMMETRY Symmetry
INVARIANTS AuthedHasCookie HealthyMirrorFound ThreeCallersShareLogin
