CONSTANTS
    sys = sys
    Systems = {sys}
    PriorityOf <- AllNormal
    Starters = {1, 2}
    Stoppers = {1, 2}
    TimerEvents <- LateEvents
    MaxTimers = 1
CHECK_DEADLOCK FALSE
SPECIFICATION FairLoopSpec
INVARIANTS
    OneLoop
    PendingCovers
PROPERTIES
    StopIsComplete
    StopReturns
