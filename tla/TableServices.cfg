SPECIFICATION ServicesSpec
CONSTANTS
    k = k
    a = a
    b = b
    None = None
    Stored = {k, a, b}
    Computed = {}
    PrimaryKey = k
    Values <- MCValues
    Accepts <- MCAccepts
    CanHold <- MCAccepts
    Default <- MCDefault
    ColumnType <- MCColumnType
    MaxRows = 4
    t1 = t1  t2 = t2  ra = ra  rb = rb
    NoTask = NoTask
    Tasks = {t1, t2}
    Leasable = {ra, rb}
    Batches <- MCBatches
    LockTimeout = 1
    MaxQueries = 3
    MaxTimeouts = 2
    Clients = {"c1", "c2", "c3"}
    QueryTimeout = 2
    LargeTable = 4
    Databases <- MCDatabases
    Queries <- MCQueries
INVARIANTS
    SelectsExact
    JoinsExact
    BatchAllOrNothing
    ResultGivenOnce
CHECK_DEADLOCK FALSE
