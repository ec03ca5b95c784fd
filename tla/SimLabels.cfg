\* Two requests at a time, four in all, over two SIMs, two codes and a group.
SPECIFICATION MCSpec
CONSTANTS
    s1 = s1
    s2 = s2
    c1 = c1
    c2 = c2
    o1 = o1
    o2 = o2
    phone = phone
    unknown = unknown
    A = A
    B = B
    g1 = g1
    Sims = {s1, s2}
    Codes = {c1, c2}
    Names = {A, B}
    Groups = {g1}
    Identifiers = {phone, unknown}
    Found <- FoundIn
    Operators = {o1, o2}
    MaxRequests = 4
SYMMETRY Same
CHECK_DEADLOCK FALSE
INVARIANTS
    TypeOK
    RemovalsMeetNoOldMembers
PROPERTIES
    MembersStay
    GroupReplaced
