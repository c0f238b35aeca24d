SPECIFICATION Spec
CONSTANTS
    Nil = Nil
    Call = {c1, c2, c3}
    Scope = {s1}
    Payload = {p1, p2}
    TTL = 2
    LockTimeout = 1
    CleanupLimit = 1
    MaxClock = 2
    MaxFaults = 1
SYMMETRY MCSymmetry
INVARIANTS
    TypeOK
    HeldReservation
    ReplayFidelity
    StoredResultStays
    NoAbandonedReservation
    EventPerExecution
PROPERTIES
    NoReexecutionInWindow
    ImplementsKeys
