CONSTANTS
    s1 = s1  s2 = s2  s3 = s3  r1 = r1
    NoSystem = NoSystem
    Systems = {s1, s2, s3}
    Resources = {r1}
    Definitions <- ReadOrWrite
    Dependencies <- Ring
    Strategies = {"FCFS", "Priority", "SJF"}
    Priorities = {2}
    Estimates = {10}
    MaxConcurrent = 2
    DirectStarts = FALSE
    LateChanges = FALSE
    DoubleEnqueue = FALSE
    MaxPending = 3
    MaxDeps = 2
SYMMETRY Rotations
SPECIFICATION NarrowSpec
CHECK_DEADLOCK FALSE
INVARIANTS GrantsMatch DependenciesDoneFirst NoMutualWait WithinLimit
PROPERTIES ImplementsBorrowRules BatchStartsFresh StrategyRespected
