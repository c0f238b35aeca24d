SPECIFICATION Spec
CONSTANTS
    Nil = Nil
    c1 = c1
    c2 = c2
    c3 = c3
    u1 = u1
    Call = {c1, c2, c3}
    User = {u1}
    RefreshTTL = 2
    AccessTTL = 1
    MaxClock = 3
    MaxFaults = 2
SYMMETRY CallSymmetry
INVARIANTS
    TypeOK
    SingleUse
    AccessEndsAfterRevocation
    RefusedTokenDead
    LoggedOutTokenDead
    SessionBehindToken
    CurrentTokenKnown
PROPERTIES
    SessionOnlyAges
    ImplementsContract
