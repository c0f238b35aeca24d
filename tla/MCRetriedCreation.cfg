SPECIFICATION Spec
CONSTANTS
    Call = {c1, c2, c3}
    Client = {k1, k2}
    Mail = {m1}
    Wanted <- MCWanted
    TTL = 3
    LockTimeout = 2
    MaxFaults = 1
    MaxLosses = 1
    MaxTicks = 2
    Nil = Nil
SYMMETRY MCSymmetry
INVARIANTS ToldTrue OneVerdict
