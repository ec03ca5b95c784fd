\* An operator locks a SIM while a run has a snapshot of it.
SPECIFICATION Spec
CONSTANTS
    s1 = s1
    s2 = s2
    o1 = o1
    Sims = {s1, s2}
    Listings <- Pair
    Operators = {o1}
    SetStatuses = {"LOCKED"}
    UsageBatch = 2
    UpsertBatch = 1
    MaxMB = 1
    MaxRuns = 2
    MaxEdits = 1
    LastMonth = 1
CHECK_DEADLOCK FALSE
PROPERTY SyncActivatesNew
