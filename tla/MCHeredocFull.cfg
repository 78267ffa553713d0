SPECIFICATION FairSpec
CONSTANTS
    Letters = {"a", "b"}
    Docs <- OnlyA
    Sources <- Typed
    Cap = 2
    MaxSignals = 0
PROPERTIES
    HeredocEnds
CHECK_DEADLOCK FALSE
