\* The evaluation of a SIM sync and a request, with operators at work.
SPECIFICATION MCSpec
CONSTANTS
    s1 = s1
    s2 = s2
    a1 = a1
    a2 = a2
    sync = sync
    get = get
    Sims = {s1, s2}
    Alerts = {a1, a2}
    Syncs = {sync}
    Requests = {get}
    Fields <- Scope
    Rules <- TwoRules
    Profiles <- TwoProfiles
    Legacy <- AnyLegacy
    MaxChanges = 1
SYMMETRY Same
INVARIANTS
    TypeOK
    EvaluationComplete
PROPERTIES
    EvaluationSound
    ReviewsStand
