SPECIFICATION ComputedSpec
CONSTANTS
    k = k
    a = a
    x = x
    y = y
    z = z
    None = None
    Unset = Unset
    Stored = {k, a}
    Computed = {x, y}
    PrimaryKey = k
    Values <- MCValues
    Accepts <- MCAccepts
    CanHold <- MCAccepts
    Default <- MCDefault
    MaxRows = 2
    Rows <- MCRows
    Updates <- MCUpdates
    Indexed = {}
    Schemas <- MCSchemas
    MarksColumns = TRUE
INVARIANT ServedValuesFresh
CHECK_DEADLOCK FALSE
