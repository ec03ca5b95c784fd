\* Up to five items in pages of two, with two attempts each, while two changes
\* happen to the upstream.
SPECIFICATION FairSpec
CONSTANTS
    Items = {1, 2, 3, 4, 5}
    PageSize = 2
    MaxAttempts = 2
    MaxChanges = 2
INVARIANT ListingComplete
PROPERTIES
    GivesUpLate
    LoopEnds
