CONSTANTS
    sys = sys
    Systems = {sys}
    PriorityOf <- AllNormal
    Starters = {1}
    Stoppers = {1}
    TimerEvents = {}
    MaxTimers = 0
CHECK_DEADLOCK FALSE
SPECIFICATION LoopSpec
PROPERTIES EventsInOrder
