\* A bulk review of a SIM without the label a rule asks for.
SPECIFICATION MCSpec
CONSTANTS
    s1 = s1
    s2 = s2
    a1 = a1
    a2 = a2
    sync = sync
    get = get
    Sims = {s1, s2}
    Alerts = {a1}
    Syncs = {sync}
    Requests = {}
    Fields <- Scope
    Rules <- LabelRules
    Profiles <- TwoProfiles
    Legacy <- NoLegacy
    MaxChanges = 1
SYMMETRY Same
PROPERTIES
    BulkReviewSound
