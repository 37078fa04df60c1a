CONSTANTS
    NoTask = NoTask
    Reaper = Reaper
    Tasks = {t1, t2}
    Leasable = {r1, r2}
    Accesses = {"Immutable", "Mutable"}
    Durations = {1, 2}
    MaxTimeouts = 3
    Serial = TRUE
CHECK_DEADLOCK FALSE
SPECIFICATION LeaseSpec
INVARIANT LeasesExclusive
