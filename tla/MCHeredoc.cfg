SPECIFICATION FairSpec
CONSTANTS
    Letters = {"a", "b"}
    Docs <- Both
    Sources <- Mixed
    Cap = 4
    MaxSignals = 1
INVARIANTS
    TypeOK
    BodyIsText
    EveryPieceOnce
PROPERTIES
    HeredocEnds
