SPECIFICATION FairSpec
CONSTANTS
    p1 = p1
    p2 = p2
    a = a
    b = b
    c = c
    Pipes = {p1, p2}
    Leaves = {a, b, c}
    Root = p2
    LeftOf <- Left3
    RightOf <- Right3
    Works <- Works3
    Items = 2
    Cap = 1
    MaxFail = 1
INVARIANTS
    TypeOK
    PromptRestored
    StatusIsLast
    NoOrphans
    WaitsEmptyHanded
PROPERTIES
    SigPipeOnlyWhenReaderGone
    LineEnds
