SPECIFICATION FairSpec
CONSTANTS
    Req = {r1, r2, r3}
    MaxConns = 2
INVARIANTS TypeOK AcceptedIsAnswered PoolOutlivesHandlers NotServingFirst ReleasedAtExit FailureReported
PROPERTIES ShutdownCompletes
