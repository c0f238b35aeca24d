SPECIFICATION FairSpec
CONSTANTS
    Row = {1, 2, 3}
    Tag = {a, b}
    Size <- MCSize
    DefaultSize = 2
    MaxSize = 3
    MaxClock = 2
    Nil = Nil
INVARIANTS PagesDescend WalkComplete TokenPromisesRow
PROPERTIES WalkEnds
