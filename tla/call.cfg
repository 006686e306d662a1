\* Two ticks of idle time, three pieces; fairness.
SPECIFICATION Spec
CONSTANTS
    Stall = 2
    MaxChunks = 3
INVARIANTS
    WatchdogsOwnUp
    NoBodyLeft
PROPERTIES
    ProgressIsSafe
    CallEnds
CHECK_DEADLOCK FALSE
