CONSTANTS
    s1 = s1  s2 = s2  s3 = s3  r1 = r1
    NoSystem = NoSystem
    Systems = {s1, s2, s3}
    Resources = {r1}
    Definitions <- OneResource
    Dependencies <- NoDependencies
    Strategies = {"FCFS"}
    Priorities = {}
    Estimates = {}
    MaxConcurrent = 2
    DirectStarts = TRUE
    LateChanges = TRUE
    DoubleEnqueue = TRUE
    MaxPending = 2
    MaxDeps = 0
SYMMETRY Perms
SPECIFICATION Spec
CHECK_DEADLOCK FALSE
INVARIANTS TypeOK BorrowSafety PendingNeverStarted
