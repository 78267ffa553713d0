\* One line, from init_yggdrasil to the last of its jobs.
CONSTANTS
    MaxAll = 3
    MaxCore = 5
    MaxLong = 7
    Lines <- MCLines
SPECIFICATION Spec
INVARIANTS
    TypeOK
    StagesKept
    NothingTwice
    StaleStatusHarmless
    SimpleStages
\* The line is over when its jobs are.
CHECK_DEADLOCK FALSE
