SPECIFICATION Spec
CONSTANTS
    Token = {t1, t2, t3}
    t1 = t1
    t2 = t2
    t3 = t3
    NoToken = none
    Putter = {p1, p2}
    p1 = p1
    p2 = p2
    TTL = 2
    MaxItems = 2
    LastPut = 3
INVARIANTS TypeOK StoreBounded NeverEvicted
PROPERTIES CapabilityKept RefusedAtCapacity
