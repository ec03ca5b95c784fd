\* A run over four SIMs asked about one at a time, with a breaker of two.
SPECIFICATION MCSpec
CONSTANTS
    n1 = n1
    n2 = n2
    n3 = n3
    n4 = n4
    m1 = m1
    x1 = x1
    Normal <- NormalSims
    Masters <- MasterSims
    Unasked = {x1, n4}
    Concurrency = 1
    MasterBatch = 2
    SaveBatch = 2
    MaxFailing = 2
    MaxMB = 1
    LastMonth = 2
    MaxRuns = 1
    MaxResets = 1
CHECK_DEADLOCK FALSE
INVARIANTS
    ReportTrue
    BreakerJustified
PROPERTY
    KeepsUnanswered
