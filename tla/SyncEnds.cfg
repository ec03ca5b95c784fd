\* A cron pass over two accounts against manual SIM syncs and an event stream of
\* the first; no status is ever saved.
SPECIFICATION EventsFairSpec
CONSTANTS
    a1 = a1
    a2 = a2
    NoCall = NoCall
    Accounts = {a1, a2}
    Manual = {m1}
    Cron = {c1}
    Streams = {s1}
    Watched <- FirstAccount
    Requests <- SimsOfFirst
    EligibleLists <- BothAccounts
    Outcomes = {"lost"}
    MaxSyncs = 1
    MaxPending = 0
    MaxCrashes = 0
INVARIANT
    SimsFollowPlans
PROPERTIES
    LockImplemented
    CallsEnd
    StreamShowsEnd
