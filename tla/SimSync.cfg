\* Up to two runs over two SIMs, in batches of one and two, with operators.
SPECIFICATION Spec
CONSTANTS
    s1 = s1
    s2 = s2
    o1 = o1
    Sims = {s1, s2}
    Listings <- AllListings
    Operators = {o1}
    SetStatuses = {"LOCKED"}
    UsageBatch = 2
    UpsertBatch = 1
    MaxMB = 1
    MaxRuns = 2
    MaxEdits = 2
    LastMonth = 2
CHECK_DEADLOCK FALSE
INVARIANTS
    SyncReflected
    UntouchedFollowsUsage
    HistoryNotAhead
PROPERTY
    RunKeepsDecisions
