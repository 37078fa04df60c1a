CONSTANTS
    t1 = t1  t2 = t2  t3 = t3  s1 = s1  s2 = s2  s3 = s3  r1 = r1  r2 = r2
    NoSystem = NoSystem
    NoTask = NoTask
    Tasks = {t1, t2}
    Systems = {s1, s2}
    Resources = {r1, r2}
    SystemOf <- OwnSystem
    Parameters <- Sharing
    Tickers = {k1, k2}
    Endless = {}
    SubmitFirst = FALSE
    Drains = TRUE
    Cancels = TRUE
    Failures = TRUE
    Yields = TRUE
    Timeouts = TRUE
    MaxSteps = 1
CHECK_DEADLOCK FALSE
SYMMETRY TickersAlike
SPECIFICATION Spec
INVARIANTS QueuedOnce TasksBorrowSafe RunningHoldsAll BorrowsReturned
