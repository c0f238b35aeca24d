SPECIFICATION Spec
CONSTANTS
    Numbers <- MCNumbers
    Durations <- MCDurations
    Default <- MCDefault
    Half = 8
    MaxEdits = 3
    Unset = Unset
    Malformed = Malformed
INVARIANTS
    StartedIsSane
    PoolAsAsked
PROPERTY
    RepairAdvances
