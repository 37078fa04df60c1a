SPECIFICATION ToolchainSpec
CONSTANTS
    x = x  table = table  missing = missing
    Literal = Literal  NotAName = NotAName  NoPlan = NoPlan
    Bodies <- MCBodies
    Plans <- MCPlans
    RegisteredTables = {table}
    SystemResources = {r1}
    MaxTrace = 6
    r1 = r1  r2 = r2
    NoWriter = NoWriter
    RequestLists <- MCRequestLists
    Programs <- MCPrograms
    Functions <- MCFunctions
    MaxRounds = 2
INVARIANTS
    PlanFollowsBody
    BatchesExact
    UsageExclusive
    ScopesLexical
    ColumnTypesExact
    CodeFollowsBody
    DropsOnce
PROPERTIES
    ContextRestored
CHECK_DEADLOCK FALSE
