\* Three logins of two emails, two requests and a restart that may change the
\* configured email.
SPECIFICATION Spec
CONSTANTS
    legacy = legacy
    a1 = a1
    a2 = a2
    q1 = q1
    q2 = q2
    l1 = l1
    l2 = l2
    r1 = r1
    r2 = r2
    r3 = r3
    Ann = Ann
    Bob = Bob
    ann = ann
    bob = bob
    Index = {"0", "1"}
    Compounds = {"accountId_code"}
    EmptyObject = "empty object"
    MaxDepth = 4
    Addresses = {Ann, ann, Bob, bob}
    Emails = {ann, bob}
    Normal <- MCNormal
    Ids = {legacy, a1, a2}
    LEGACY_ACCOUNT_ID = legacy
    Lifetimes = {0, 1}
    Logins = {l1, l2}
    Requests = {q1, q2}
    RowIds = {r1, r2, r3}
    Queries <- MCQueries
    LastTime = 3
    MaxLogins = 3
    MaxWrites = 1
    MaxRestarts = 1
SYMMETRY Same
CHECK_DEADLOCK FALSE
INVARIANTS
    OwnRows
    RefusedOnlyIfReconfigured
    SessionsServed
PROPERTY
    TablesApart
