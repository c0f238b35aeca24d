SPECIFICATION FairSpec
CONSTANTS
    Call = {c1, c2, c3, c4, c5}
    Client = {k1}
    Mail = {m1}
    Wanted <- MCWanted
    TTL = 3
    LockTimeout = 2
    MaxFaults = 1
    MaxLosses = 1
    MaxTicks = 0
    Nil = Nil
PROPERTIES EventuallyTold
