CONSTANTS
    s1 = s1  s2 = s2  s3 = s3  r1 = r1
    NoSystem = NoSystem
    Systems = {s1, s2, s3}
    Resources = {r1}
    Leasable = {r1, r2}
    Definitions <- ReadOrWrite
    Dependencies <- Chain
    Strategies = {"FCFS", "RoundRobin", "WorkStealing"}
    Priorities = {}
    Estimates = {}
    MaxConcurrent = 2
    DirectStarts = FALSE
    LateChanges = FALSE
    DoubleEnqueue = FALSE
    MaxPending = 3
    MaxDeps = 1
    t1 = t1  t2 = t2  r2 = r2
    NoTask = NoTask
    Reaper = Reaper
    Tasks = {t1, t2}
    Accesses = {"Immutable", "Mutable"}
    Durations = {1, 2}
    MaxTimeouts = 2
    Serial = TRUE
SPECIFICATION ManagersSpec
CHECK_DEADLOCK FALSE
INVARIANTS UndisturbedExclusive TimeoutsMatchLeases
PROPERTIES QueuedSystemsComplete LeasesEnd
