\* Three redirections after a command: cmd > word > word > word.
CONSTANTS
    MaxAll = 1
    MaxCore = 1
    MaxLong = 7
    Lines <- MCLines
SPECIFICATION Spec
INVARIANT AppliesAll
CHECK_DEADLOCK FALSE
