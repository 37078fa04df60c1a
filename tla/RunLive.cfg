CONSTANTS
    t1 = t1  t2 = t2  t3 = t3  s1 = s1  s2 = s2  s3 = s3  r1 = r1  r2 = r2
    NoSystem = NoSystem
    NoTask = NoTask
    Tasks = {t1, t2}
    Systems = {s1, s2}
    Resources = {r1}
    SystemOf <- OwnSystem
    Parameters <- ReadersOnly
    Tickers = {k1, k2}
    Endless = {t2}
    SubmitFirst = TRUE
    Drains = FALSE
    Cancels = TRUE
    Failures = FALSE
    Yields = FALSE
    Timeouts = FALSE
    MaxSteps = 1
    k = k  a = a  x = x  y = y  z = z
    None = None
    Unset = Unset
    Stored = {k, a}
    Computed = {x, y}
    PrimaryKey = k
    Values <- MCValues
    Accepts <- MCAccepts
    CanHold <- MCAccepts
    Default <- MCDefault
    MaxRows = 2
    Rows <- MCRows
    Updates <- MCUpdates
    Indexed = {}
    Schemas <- MCSchemas
    MarksColumns = FALSE
CHECK_DEADLOCK FALSE
SPECIFICATION RuntimeTablesSpec
INVARIANTS IndexExact CyclesRefused
PROPERTIES ImplementsKeyedTable FutureResolves
