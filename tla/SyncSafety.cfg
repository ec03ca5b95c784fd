\* One account, two manual SIM syncs with their nested rating plan syncs, an
\* event stream, every fate of a write, progress writes, a crash.
SPECIFICATION EventsSpec
CONSTANTS
    a1 = a1
    a2 = a2
    NoCall = NoCall
    Accounts = {a1}
    Manual = {m1, m2}
    Cron = {}
    Streams = {s1}
    Watched <- FirstAccount
    Requests <- SimsOfFirst
    EligibleLists <- OneAccount
    Outcomes = {"saved", "lost", "unanswered"}
    MaxSyncs = 2
    MaxPending = 1
    MaxCrashes = 1
SYMMETRY ManualSymmetry
INVARIANTS
    TypeOK
    LockMatchesRuns
    StatusIsTheRuns
    RunningIsBacked
    TableMatchesMemory
    ReportedSyncIsDurable
    TokenIsTheRuns
    StreamCurrent
PROPERTY
    SyncTimeNeverErased
