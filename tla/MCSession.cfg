SPECIFICATION FairSpec
CONSTANTS
    d1 = d1
    d2 = d2
    here = here
    c = c
    o = o
    Path <- MCPath
    Here = here
    StartFiles <- MCStartFiles
    Names = {c, o}
    MaxChanges = 1
    Lines <- MCLines
    Codes = {3}
    MaxSignals = 1
    IntSize = 16
    Byte = 4
INVARIANTS
    TypeOK
    ListFits
    RunsFirstOnPath
    ExitIsModulo
PROPERTIES
    SignalsReachCommands
    LineEnds
