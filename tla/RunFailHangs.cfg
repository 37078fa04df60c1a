CONSTANTS
    t1 = t1  t2 = t2  t3 = t3  s1 = s1  s2 = s2  s3 = s3  r1 = r1  r2 = r2
    NoSystem = NoSystem
    NoTask = NoTask
    Tasks = {t1}
    Systems = {s1}
    Resources = {r1}
    SystemOf <- OwnSystem
    Parameters <- ReadersOnly
    Tickers = {k1}
    Endless = {}
    SubmitFirst = TRUE
    Drains = FALSE
    Cancels = FALSE
    Failures = TRUE
    Yields = FALSE
    Timeouts = FALSE
    MaxSteps = 0
CHECK_DEADLOCK FALSE
SPECIFICATION FairSpec
PROPERTIES TickReturns
