SPECIFICATION Spec
CONSTANTS
    Nil = Nil
    c1 = c1
    c2 = c2
    s1 = s1
    p1 = p1
    Call = {c1, c2}
    Scope = {s1}
    Payload = {p1}
    TTL = 2
    LockTimeout = 1
    CleanupLimit = 1
    MaxClock = 1
    MaxFaults = 0
SYMMETRY CallSymmetry
INVARIANTS
    UnavailableOnlyOnFault
