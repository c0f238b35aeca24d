SPECIFICATION Spec
CONSTANTS
    Nil = Nil
    c1 = c1
    c2 = c2
    c3 = c3
    s1 = s1
    p1 = p1
    Call = {c1, c2, c3}
    Scope = {s1}
    Payload = {p1}
    TTL = 3
    LockTimeout = 2
    CleanupLimit = 1
    MaxClock = 3
    MaxFaults = 0
SYMMETRY CallSymmetry
INVARIANTS
    ExclusiveWithinLock
