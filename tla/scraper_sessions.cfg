SPECIFICATION ClientSpec
CONSTANTS
    c1 = c1
    c2 = c2
    c3 = c3
    NoCaller = none
    Caller = {c1, c2}
    Client = {"configured", "sequential", "oneMirror"}
    N = 2
    Healthy = {}
    Cancellable = {c1, c2}
    HasPassword = FALSE
    Override = 1
    Persist = TRUE
    InitFile = {0}
    Quota = 0
    Expiring = {1}
    Fault = {"crash", "read", "page"}
INVARIANTS CookieOnlyStaysAuthed OneCallRecovers OneMirrorPersists
