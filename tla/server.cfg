SPECIFICATION ServerFairSpec
CONSTANTS
    Request = {r1, r2}
    r1 = r1
    r2 = r2
    Token = {t1, t2}
    t1 = t1
    t2 = t2
    NoToken = none
    Putter = {p1}
    p1 = p1
    TTL = 1
    MaxItems = 1
    LastPut = 0
CHECK_DEADLOCK FALSE
INVARIANTS TypeOK FailureReported HttpOutlivesStdio JanitorCoversServing OneTransferPerToken UrlWorksUntilAskedToStop
PROPERTIES StopsWhenAsked FullStoreDrains
