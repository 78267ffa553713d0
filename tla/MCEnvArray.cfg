SPECIFICATION Spec
CONSTANTS
    d1 = d1
    d2 = d2
    PWD = PWD
    OLDPWD = OLDPWD
    HOME = HOME
    Bare = Bare
    Unset = Unset
    Invalid = Invalid
    Names = {PWD, OLDPWD, HOME}
    Values = {d1, d2}
    Dirs = {d1, d2}
    ArgLists <- MCArgLists
    StartEnvs <- MCStartEnvs
INVARIANTS
    TypeOK
    UniqueNames
    PwdIsCwd
    ExportAppliesAll
PROPERTIES
    RefinesMap
