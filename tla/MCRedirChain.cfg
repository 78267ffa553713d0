SPECIFICATION Spec
CONSTANTS
    f = f
    g = g
    locked = locked
    Files = {f, g, locked}
    Locked = {locked}
    MaxFd = 9
    Lines <- MCLines
INVARIANTS
    TypeOK
    Restored
    CommandStreams
    FilesAsAsked
    SuccessIsTrue
