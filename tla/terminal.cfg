SPECIFICATION Spec
CONSTANTS
    MaxExecutions = 3
    Capacity = 1
INVARIANT TypeOK
INVARIANT MapBounded
INVARIANT RunningKept
PROPERTY EndedOnce
PROPERTY EveryCommandEnds
CHECK_DEADLOCK FALSE
