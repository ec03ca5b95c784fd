--------------------------- MODULE AccountsProofs ---------------------------
(***************************************************************************)
(* Proofs about TenantScope and Accounts: what is true of the rewritten    *)
(* arguments of every query, when a login is refused, that a request finds *)
(* the rows of its tenant and no others, that Accounts implements          *)
(* TenantTables, and that sessions have a token, for any emails, accounts, *)
(* logins, requests and restarts.                                          *)
(***************************************************************************)
EXTENDS Accounts, TLAPS

----------------------------------------------------------------------------
(* Query arguments.                                                        *)

\* A query that writes no data is filtered by the account, whatever where it
\* came with or without.
THEOREM QueriesFiltered ==
    ASSUME NEW args, NEW accountId, ~HasOwn(args, "data")
    PROVE  scopeTenantArgs(args, accountId)[<<"where", "accountId">>] = accountId
  <1>1. <<"where">> \in Stamped(args)
    <2>1. <<"where">> \in (IF HasOwn(args, "data") THEN {} ELSE {<<"where">>})
      OBVIOUS
    <2>2. <<"where">> \in Filters(args)
      BY <2>1 DEF Filters
    <2> QED
      BY <2>2 DEF Stamped
  <1>2. <<"where", "accountId">> = Append(<<"where">>, "accountId")
    OBVIOUS
  <1>3. <<"where", "accountId">> \in {Append(n, "accountId") : n \in Stamped(args)}
    BY <1>1, <1>2
  <1> QED
    BY <1>3 DEF scopeTenantArgs

\* Wherever the rewriting passes an accountId, it is the account's own: one that
\* the arguments came with is gone.
THEOREM NoForeignAccount ==
    ASSUME NEW args, NEW accountId, NEW p \in DOMAIN scopeTenantArgs(args, accountId),
           Len(p) \in Walked(p), p[Len(p)] = "accountId"
    PROVE  scopeTenantArgs(args, accountId)[p] = accountId
  <1> DEFINE stamps == {Append(n, "accountId") : n \in Stamped(args)}
             kept == {q \in DOMAIN args : Kept(q)} \ Stamped(args)
  <1>1. scopeTenantArgs(args, accountId)
          = [q \in kept \cup stamps |-> IF q \in stamps THEN accountId ELSE args[q]]
    BY DEF scopeTenantArgs
  <1>2. p \notin kept
    BY DEF Kept
  <1> QED
    BY <1>1, <1>2

----------------------------------------------------------------------------
(* Logins.                                                                 *)

LoginTypes ==
    /\ account \in [Ids -> [email : Emails \cup {NoEmail}, expires : Nat]]
    /\ now \in Nat
    /\ login \in [Logins -> [place : {"none", "ask", "store", "sign"},
                             email : Emails \cup {NoEmail},
                             expires : Nat, id : Ids \cup {NoId}]]
    /\ \A l \in Logins : login[l].place # "none" => login[l].email \in Emails

\* The unique index.
EmailsUnique ==
    \A i, j \in Ids : i # j /\ account[i].email = account[j].email
        => account[i].email = NoEmail

\* As long as one email was configured, no account but the legacy one has it.
ConfiguredKept ==
    /\ configured \in everConfigured /\ configured \in Emails \cup {NoEmail}
    /\ everConfigured = {configured} =>
          \A i \in Ids \ {LEGACY_ACCOUNT_ID} :
              account[i].email # NoEmail => account[i].email # configured

LoginsKept == LoginTypes /\ EmailsUnique /\ ConfiguredKept

LEMMA LoginsInit ==
    ASSUME Init
    PROVE  LoginsKept
  BY NormalAssumption DEF Init, NoAccount, NoLogin, LoginsKept, LoginTypes, EmailsUnique,
     ConfiguredKept

LEMMA LoginStep ==
    ASSUME LoginsKept, NEW l \in Logins, Ask(l) \/ Answer(l) \/ Sign(l) \/ Refuse(l)
    PROVE  LoginsKept'
  <1>1. UNCHANGED <<account, configured, everConfigured, now>>
    BY DEF Ask, Answer, Sign, Refuse
  <1>2. LoginTypes'
    <2>1. CASE Ask(l)
      <3>1. PICK a \in Addresses :
               login' = [login EXCEPT ![l] =
                           [NoLogin EXCEPT !.place = "ask", !.email = Normal[a]]]
        BY <2>1 DEF Ask
      <3>2. Normal[a] \in Emails
        BY NormalAssumption
      <3> QED
        BY <1>1, <3>1, <3>2 DEF NoLogin, LoginsKept, LoginTypes
    <2>2. CASE Answer(l)
      <3>1. PICK life \in Lifetimes :
               login' = [login EXCEPT ![l] = IF life = 0 THEN NoLogin
                            ELSE [@ EXCEPT !.place = "store", !.expires = now + life]]
        BY <2>2 DEF Answer
      <3>2. life \in Nat
        BY LifetimesAssumption
      <3> QED
        <4>1. login[l].place = "ask" /\ login[l].email \in Emails /\ now + life \in Nat
          <5>1. login[l].place = "ask"
            BY <2>2 DEF Answer
          <5> QED
            BY <3>2, <5>1 DEF LoginsKept, LoginTypes
        <4>2. CASE life = 0
          BY <1>1, <3>1, <4>2 DEF NoLogin, LoginsKept, LoginTypes
        <4>3. CASE life # 0
          <5> DEFINE stored == [login[l] EXCEPT !.place = "store", !.expires = now + life]
          <5>1. login' = [login EXCEPT ![l] = stored]
            BY <3>1, <4>3
          <5>2. /\ stored \in [place : {"none", "ask", "store", "sign"},
                               email : Emails \cup {NoEmail},
                               expires : Nat, id : Ids \cup {NoId}]
                /\ stored.email \in Emails
            BY <4>1 DEF LoginsKept, LoginTypes
          <5> HIDE DEF stored
          <5> QED
            BY <1>1, <5>1, <5>2 DEF LoginsKept, LoginTypes
        <4> QED
          BY <4>2, <4>3
    <2>3. CASE Sign(l) \/ Refuse(l)
      BY <1>1, <2>3 DEF Sign, Refuse, NoLogin, LoginsKept, LoginTypes
    <2> QED
      BY <2>1, <2>2, <2>3
  <1> QED
    BY <1>1, <1>2 DEF LoginsKept, EmailsUnique, ConfiguredKept

LEMMA StoreStep ==
    ASSUME LoginsKept, NEW l \in Logins, Store(l)
    PROVE  LoginsKept'
  <1> DEFINE email == login[l].email
  <1>1. PICK i \in Targets(email) :
           /\ ~Conflict(email, i)
           /\ account' = [account EXCEPT ![i] = AuthData(l, i)]
           /\ login' = [login EXCEPT ![l].place = "sign", ![l].id = i]
    BY DEF Store
  <1>2. login[l].place = "store" /\ UNCHANGED <<configured, everConfigured, now>>
    BY DEF Store
  <1>3. i \in Ids /\ email \in Emails /\ email # NoEmail
    BY <1>2, IdsAssumption, NormalAssumption
    DEF Targets, Owners, Unused, LoginsKept, LoginTypes
  <1>4. account'[i].email = email /\ (\A j \in Ids \ {i} : account'[j] = account[j])
    BY <1>1, <1>3 DEF AuthData, LoginsKept, LoginTypes
  <1>5. LoginTypes'
    BY <1>1, <1>2, <1>3 DEF AuthData, LoginsKept, LoginTypes
  <1>6. EmailsUnique'
    BY <1>1, <1>3, <1>4 DEF Conflict, Owners, LoginsKept, EmailsUnique
  <1>7. i # LEGACY_ACCOUNT_ID => email # configured
    BY DEF Targets
  <1>8. ConfiguredKept'
    BY <1>2, <1>3, <1>4, <1>7 DEF LoginsKept, ConfiguredKept
  <1> QED
    BY <1>5, <1>6, <1>8 DEF LoginsKept

LEMMA RestartStep ==
    ASSUME LoginsKept, Restart
    PROVE  LoginsKept'
  <1>1. UNCHANGED <<account, now>> /\ everConfigured' = everConfigured \cup {configured'}
        /\ configured' \in Emails \cup {NoEmail}
    BY NormalAssumption DEF Restart
  <1>2. LoginTypes'
    BY <1>1 DEF Restart, NoLogin, LoginsKept, LoginTypes
  <1>3. everConfigured' = {configured'} =>
           everConfigured = {configured} /\ configured' = configured
    BY <1>1 DEF LoginsKept, ConfiguredKept
  <1> QED
    BY <1>1, <1>2, <1>3 DEF LoginsKept, EmailsUnique, ConfiguredKept

LEMMA LoginsStep ==
    ASSUME LoginsKept, [Next]_vars
    PROVE  LoginsKept'
  <1>1. ASSUME NEW q \in Requests, Enter(q) \/ Query(q) \/ Leave(q) PROVE LoginsKept'
    BY <1>1 DEF Enter, Query, Leave, auth, LoginsKept, LoginTypes, EmailsUnique, ConfiguredKept
  <1>2. CASE Tick
    BY <1>2 DEF Tick, auth, LoginsKept, LoginTypes, EmailsUnique, ConfiguredKept
  <1>3. CASE UNCHANGED vars
    BY <1>3 DEF vars, auth, LoginsKept, LoginTypes, EmailsUnique, ConfiguredKept
  <1> QED
    BY <1>1, <1>2, <1>3, LoginStep, StoreStep, RestartStep DEF Next

\* A login that the upstream accepted is refused only when the configured email
\* was changed to that of another account.
THEOREM RefusalsExplained == Spec => []RefusedOnlyIfReconfigured
  <1>1. Init => LoginsKept
    BY LoginsInit
  <1>2. LoginsKept /\ [Next]_vars => LoginsKept'
    BY LoginsStep
  <1>3. LoginsKept => RefusedOnlyIfReconfigured
    <2> SUFFICES ASSUME LoginsKept, NEW l \in Logins, login[l].place = "store",
                        NEW i \in Targets(login[l].email), Conflict(login[l].email, i)
                 PROVE  configured = login[l].email /\ everConfigured # {configured}
      BY DEF RefusedOnlyIfReconfigured
    <2> DEFINE email == login[l].email
    <2>1. email \in Emails /\ email # NoEmail
      BY NormalAssumption DEF LoginsKept, LoginTypes
    <2>2. PICK j \in Ids : account[j].email = email /\ j # i
      BY DEF Conflict, Owners
    <2>3. configured = email
      BY <2>1, <2>2 DEF Targets, Owners, LoginsKept, EmailsUnique
    <2>4. i = LEGACY_ACCOUNT_ID
      BY <2>3 DEF Targets
    <2> QED
      BY <2>1, <2>2, <2>3, <2>4 DEF LoginsKept, ConfiguredKept
  <1> QED
    BY <1>1, <1>2, <1>3, PTL DEF Spec

----------------------------------------------------------------------------
(* Rows.                                                                   *)

\* What the rewriting stamps has the account.
LEMMA StampsSet ==
    ASSUME NEW args, NEW accountId, NEW n \in Stamped(args)
    PROVE  /\ Append(n, "accountId") \in DOMAIN scopeTenantArgs(args, accountId)
           /\ scopeTenantArgs(args, accountId)[Append(n, "accountId")] = accountId
  <1>1. Append(n, "accountId") \in {Append(m, "accountId") : m \in Stamped(args)}
    OBVIOUS
  <1> QED
    BY <1>1 DEF scopeTenantArgs

\* An object at the key k is below a leaf whose path begins with k.
LEMMA ObjectsHaveLeaves ==
    ASSUME NEW args, DOMAIN args \subseteq Seq(STRING), NEW k,
           Entries(args, <<k>>) = {<<k>>}
    PROVE  \E p \in DOMAIN args :
              p \in Seq(STRING) /\ Len(p) >= 1 /\ p[1] = k /\ SubSeq(p, 1, 1) = <<k>>
  <1>1. IsObject(args, <<k>>)
    BY DEF Entries
  <1>2. PICK p \in DOMAIN args : Starts(<<k>>, p)
    BY <1>1 DEF IsObject
  <1>3. p \in Seq(STRING) /\ Len(<<k>>) = 1 /\ <<k>>[1] = k
    OBVIOUS
  <1>4. Len(p) >= 1 /\ SubSeq(p, 1, 1) = <<k>>
    BY <1>2, <1>3 DEF Starts
  <1>5. p[1] = SubSeq(p, 1, 1)[1]
    BY <1>3, <1>4
  <1> QED
    BY <1>3, <1>4, <1>5

\* A where that is an object is filtered.
LEMMA WhereFiltered ==
    ASSUME NEW args, DOMAIN args \subseteq Seq(STRING), Entries(args, <<"where">>) = {<<"where">>}
    PROVE  <<"where">> \in Filters(args)
  <1>1. PICK p \in DOMAIN args : /\ p \in Seq(STRING) /\ Len(p) >= 1 /\ p[1] = "where"
                                /\ SubSeq(p, 1, 1) = <<"where">>
    BY ObjectsHaveLeaves, Zenon
  <1>2. \A k \in Walked(p) : k = 1
    BY <1>1 DEF Walked
  <1>3. 1 \in Walked(p)
    BY <1>1 DEF Walked
  <1>4. Kept(p)
    BY <1>1, <1>2 DEF Kept
  <1>5. 1 \in 1..MaxDepth
    BY DepthAssumption
  <1> DEFINE S == {y \in (DOMAIN args) \X (1..MaxDepth) :
                     /\ Kept(y[1]) /\ y[2] \in Walked(y[1])
                     /\ y[1][y[2]] \in {"where", "connect"}}
  <1>6. <<p, 1>> \in S
    <2>1. <<p, 1>> \in (DOMAIN args) \X (1..MaxDepth)
      BY <1>1, <1>5
    <2>2. <<p, 1>>[1] = p /\ <<p, 1>>[2] = 1
      OBVIOUS
    <2> QED
      BY <1>1, <1>3, <1>4, <2>1, <2>2, Zenon
  <1>7. Entries(args, SubSeq(p, 1, 1)) \in {Entries(args, SubSeq(x[1], 1, x[2])) : x \in S}
    BY <1>6
  <1>8. <<"where">> \in UNION {Entries(args, SubSeq(x[1], 1, x[2])) : x \in S}
    BY <1>1, <1>7
  <1> QED
    BY <1>8 DEF Filters

\* What a query finds is filtered, and what it writes is stamped.
LEMMA QueriesStamped ==
    ASSUME NEW c \in Queries
    PROVE  /\ c.op \notin Creates => <<"where">> \in Filters(c.args)
           /\ c.op \in {"create", "updateMany"} => <<"data">> \in Stamped(c.args)
           /\ Entries(c.args, <<"data">>) \subseteq Stamped(c.args)
           /\ c.op = "upsert" =>
                 <<"create">> \in Stamped(c.args) /\ <<"update">> \in Stamped(c.args)
  <1>1. DOMAIN c.args \subseteq Seq(STRING)
    BY QueriesAssumption
  <1>2. ASSUME c.op \notin Creates PROVE <<"where">> \in Filters(c.args)
    <2>1. CASE HasOwn(c.args, "data")
      BY <1>1, <1>2, <2>1, QueriesAssumption, WhereFiltered
    <2>2. CASE ~HasOwn(c.args, "data")
      BY <2>2 DEF Filters
    <2> QED
      BY <2>1, <2>2
  <1>3. ASSUME c.op \in {"create", "updateMany"} PROVE <<"data">> \in Stamped(c.args)
    <2>1. Entries(c.args, <<"data">>) = {<<"data">>}
      BY <1>3, QueriesAssumption
    <2> QED
      BY <2>1 DEF Records, Stamped
  <1>4. ASSUME c.op = "upsert"
        PROVE  <<"create">> \in Stamped(c.args) /\ <<"update">> \in Stamped(c.args)
    <2>1. \A k \in {"where", "create", "update"} : Entries(c.args, <<k>>) = {<<k>>}
      BY <1>4, QueriesAssumption
    <2>2. \A k \in {"where", "create", "update"} : HasOwn(c.args, k)
      <3> SUFFICES ASSUME NEW k \in {"where", "create", "update"} PROVE HasOwn(c.args, k)
        OBVIOUS
      <3>1. PICK p \in DOMAIN c.args : p \in Seq(STRING) /\ Len(p) >= 1 /\ p[1] = k
        BY <1>1, <2>1, ObjectsHaveLeaves, Zenon
      <3>2. p # <<>>
        BY <3>1
      <3> QED
        BY <3>1, <3>2 DEF HasOwn
    <2> QED
      BY <2>1, <2>2 DEF Records, Stamped
  <1>5. Entries(c.args, <<"data">>) \subseteq Stamped(c.args)
    BY DEF Records, Stamped
  <1> QED
    BY <1>2, <1>3, <1>4, <1>5

\* A query finds rows of its request's account only.
LEMMA SelectsOwn ==
    ASSUME NEW q \in Requests, request[q].sub \in Ids, NEW c \in Queries, c.op \notin Creates,
           NEW r \in Selected(Scoped(q, c))
    PROVE  r \in RowIds /\ rows[r] # NoRow /\ rows[r]["accountId"] = request[q].sub
  <1>1. Scoped(q, c) = scopeTenantArgs(c.args, request[q].sub)
    BY DEF Scoped, ScopedQueries, getCurrentAccountId
  <1>2. /\ Append(<<"where">>, "accountId") \in DOMAIN Scoped(q, c)
        /\ Scoped(q, c)[Append(<<"where">>, "accountId")] = request[q].sub
    BY <1>1, QueriesStamped, StampsSet DEF Stamped
  <1>3. r \in RowIds /\ rows[r] # NoRow /\ Holds(Scoped(q, c), <<"where">>, r)
    BY DEF Selected
  <1> QED
    BY <1>2, <1>3 DEF Holds, Fields

\* A query changes and removes rows of its request's account only, and makes no others.
LEMMA WritesOwn ==
    ASSUME NEW q \in Requests, request[q].sub \in Ids, NEW c \in Queries,
           rows = [r \in RowIds |-> rows[r]], rows' \in Results(c, Scoped(q, c))
    PROVE  /\ rows' = [r \in RowIds |-> rows'[r]]
           /\ \A r \in RowIds :
                 \/ rows'[r] = rows[r]
                 \/ /\ rows[r] = NoRow \/ rows[r].accountId = request[q].sub
                    /\ rows'[r] = NoRow \/ rows'[r].accountId = request[q].sub
  <1> DEFINE args == Scoped(q, c)
             Own == /\ rows' = [r \in RowIds |-> rows'[r]]
                    /\ \A r \in RowIds :
                          \/ rows'[r] = rows[r]
                          \/ /\ rows[r] = NoRow \/ rows[r].accountId = request[q].sub
                             /\ rows'[r] = NoRow \/ rows'[r].accountId = request[q].sub
  <1>1. args = scopeTenantArgs(c.args, request[q].sub)
    BY DEF Scoped, ScopedQueries, getCurrentAccountId
  <1>2. \A n \in Stamped(c.args) : /\ Append(n, "accountId") \in DOMAIN args
                                   /\ args[Append(n, "accountId")] = request[q].sub
    BY <1>1, StampsSet
  <1>3. c.op \notin Creates =>
           \A r \in Selected(args) : r \in RowIds /\ rows[r].accountId = request[q].sub
    <2> SUFFICES ASSUME c.op \notin Creates, NEW r \in Selected(args)
                 PROVE  r \in RowIds /\ rows[r].accountId = request[q].sub
      OBVIOUS
    <2> QED
      BY SelectsOwn
  <1>4. ASSUME NEW n \in Stamped(c.args), rows' \in Create(args, n) PROVE Own
    <2>1. PICK r \in RowIds : rows[r] = NoRow /\ rows' = [rows EXCEPT ![r] = Made(args, n, r)]
      BY <1>4 DEF Create
    <2>2. Made(args, n, r).accountId = request[q].sub
      BY <1>2, <1>4 DEF Made, Given
    <2> HIDE DEF args
    <2>3. rows' = [x \in RowIds |-> IF x = r THEN Made(args, n, r) ELSE rows[x]]
      BY <2>1
    <2> QED
      BY <2>1, <2>2, <2>3
  <1>5. ASSUME NEW n \in Stamped(c.args), c.op \notin Creates, rows' \in Update(args, n) PROVE Own
    <2>1. rows' = [r \in RowIds |-> IF r \in Selected(args) THEN Changed(args, n, r) ELSE rows[r]]
      BY <1>5 DEF Update
    <2>2. \A r \in Selected(args) : Changed(args, n, r).accountId = request[q].sub
      BY <1>2, <1>5 DEF Changed, Given
    <2> HIDE DEF args
    <2> QED
      BY <1>3, <1>5, <2>1, <2>2
  <1>6. ASSUME NEW es \in SUBSET Stamped(c.args), rows' \in CreateMany(args, es) PROVE Own
    <2>1. PICK f \in [RowIds -> es \cup {<<>>}] :
             /\ \A r \in RowIds : rows[r] # NoRow => f[r] = <<>>
             /\ rows' = [r \in RowIds |-> IF f[r] = <<>> THEN rows[r] ELSE Made(args, f[r], r)]
      BY <1>6 DEF CreateMany
    <2>2. \A n \in es, r \in RowIds : Made(args, n, r).accountId = request[q].sub
      BY <1>2, <1>6 DEF Made, Given
    <2> HIDE DEF args
    <2>3. ASSUME NEW r \in RowIds, f[r] # <<>>
          PROVE  rows[r] = NoRow /\ rows'[r].accountId = request[q].sub
      <3>1. f[r] \in es
        BY <2>3
      <3>2. rows'[r] = Made(args, f[r], r)
        BY <2>1, <2>3
      <3> QED
        BY <2>1, <2>2, <2>3, <3>1, <3>2
    <2> QED
      BY <2>1, <2>3
  <1> HIDE DEF args
  <1>7. CASE c.op = "createMany"
    <2>1. Results(c, args) = CreateMany(args, Entries(c.args, <<"data">>))
      BY <1>7 DEF Results
    <2>2. rows' \in CreateMany(args, Entries(c.args, <<"data">>))
      BY <2>1 DEF args
    <2> QED
      BY <1>6, <2>2, QueriesStamped
  <1>8. CASE c.op = "create"
    <2>1. Results(c, args) = Create(args, <<"data">>)
      BY <1>8 DEF Results
    <2>2. rows' \in Create(args, <<"data">>)
      BY <2>1 DEF args
    <2> QED
      BY <1>4, <1>8, <2>2, QueriesStamped
  <1>9. CASE c.op = "updateMany"
    <2>1. Results(c, args) = Update(args, <<"data">>)
      BY <1>9 DEF Results
    <2>2. rows' \in Update(args, <<"data">>)
      BY <2>1 DEF args
    <2> QED
      BY <1>5, <1>9, <2>2, QueriesStamped DEF Creates
  <1>10. CASE c.op = "deleteMany"
    <2>1. rows' = [r \in RowIds |-> IF r \in Selected(args) THEN NoRow ELSE rows[r]]
      BY <1>10 DEF Results, args
    <2> QED
      BY <1>3, <1>10, <2>1 DEF Creates
  <1>11. CASE c.op = "upsert"
    <2>1. \/ Results(c, args) = Create(args, <<"create">>)
          \/ Results(c, args) = Update(args, <<"update">>)
      BY <1>11 DEF Results
    <2>2. rows' \in Create(args, <<"create">>) \/ rows' \in Update(args, <<"update">>)
      BY <2>1 DEF args
    <2> QED
      BY <1>4, <1>5, <1>11, <2>2, QueriesStamped DEF Creates
  <1>12. CASE c.op \notin {"create", "createMany", "updateMany", "deleteMany", "upsert"}
    <2>1. rows' = rows
      BY <1>12 DEF Results
    <2> QED
      BY <2>1
  <1> QED
    BY <1>7, <1>8, <1>9, <1>10, <1>11, <1>12

----------------------------------------------------------------------------
(* Accounts apart from one another.                                        *)

\* The emails that may be behind an account: of the legacy one all that were
\* configured, of any other its own.
Belongs(e, i) ==
    IF i = LEGACY_ACCOUNT_ID THEN e \in everConfigured \cup {NoEmail}
    ELSE e \in Emails /\ e = account[i].email

SessionsApart ==
    /\ \A s \in sessions : s.sub \in Ids /\ s.email \in Emails /\ Belongs(s.email, s.sub)
    /\ \A l \in Logins : login[l].place = "sign" =>
          login[l].id \in Ids /\ Belongs(login[l].email, login[l].id)
    /\ account[LEGACY_ACCOUNT_ID].email \in everConfigured \cup {NoEmail}
    /\ request \in [Requests -> sessions \cup {NoSession}]

RowsApart ==
    /\ rows = [r \in RowIds |-> rows[r]] /\ by = [r \in RowIds |-> by[r]]
    /\ \A r \in RowIds : rows[r] = NoRow => by[r] = {}
    /\ \A r \in RowIds : rows[r] # NoRow =>
          rows[r].accountId \in Ids /\ \A e \in by[r] : Belongs(e, rows[r].accountId)

Apart == SessionsApart /\ RowsApart

\* An email stays with its account, as nobody but its owner gets one that is taken.
LEMMA EmailsStay ==
    ASSUME LoginsKept, [Next]_vars, NEW e, NEW i \in Ids, Belongs(e, i)
    PROVE  Belongs(e, i)'
  <1>1. CASE \E l \in Logins : Store(l)
    <2>1. PICK l \in Logins : Store(l)
      BY <1>1
    <2>2. PICK t \in Targets(login[l].email) : account' = [account EXCEPT ![t] = AuthData(l, t)]
      BY <2>1 DEF Store
    <2>3. UNCHANGED everConfigured /\ t \in Ids
      BY <2>1, IdsAssumption DEF Store, Targets, Owners, Unused
    <2>4. \A j \in Ids \ {LEGACY_ACCOUNT_ID} :
             account[j].email \in {account'[j].email, NoEmail}
      BY <2>2, <2>3 DEF AuthData, Targets, Owners, Unused, NoAccount, LoginsKept, LoginTypes
    <2> QED
      BY <2>3, <2>4, NormalAssumption DEF Belongs
  <1>2. CASE ~\E l \in Logins : Store(l)
    <2>1. UNCHANGED account
      BY <1>2 DEF Next, Ask, Answer, Sign, Refuse, Enter, Query, Leave, Tick, Restart, vars, auth
    <2>2. everConfigured \subseteq everConfigured'
      BY <1>2 DEF Next, Ask, Answer, Sign, Refuse, Enter, Query, Leave, Tick, Restart, vars
    <2> QED
      BY <2>1, <2>2 DEF Belongs
  <1> QED
    BY <1>1, <1>2

LEMMA SessionsApartStep ==
    ASSUME LoginsKept, SessionsApart, [Next]_vars
    PROVE  SessionsApart'
  <1>1. \A i \in Ids : \A e : Belongs(e, i) => Belongs(e, i)'
    BY EmailsStay
  <1>2. ASSUME NEW l \in Logins, Store(l) PROVE SessionsApart'
    <2>1. PICK t \in Targets(login[l].email) :
             /\ account' = [account EXCEPT ![t] = AuthData(l, t)]
             /\ login' = [login EXCEPT ![l].place = "sign", ![l].id = t]
      BY <1>2 DEF Store
    <2>2. UNCHANGED <<configured, sessions, request, everConfigured>> /\ t \in Ids
      BY <1>2, IdsAssumption DEF Store, Targets, Owners, Unused, data
    <2>3. login[l].email \in Emails /\ login[l].email # NoEmail
      BY <1>2, NormalAssumption DEF Store, LoginsKept, LoginTypes
    <2>4. t = LEGACY_ACCOUNT_ID => login[l].email \in everConfigured
      BY <2>3 DEF Targets, Owners, Unused, SessionsApart, LoginsKept, ConfiguredKept
    <2>5. account'[t].email = login[l].email /\ \A j \in Ids \ {t} : account'[j] = account[j]
      BY <2>1, <2>2 DEF AuthData, LoginsKept, LoginTypes
    <2>6. Belongs(login[l].email, t)'
      <3>1. login'[l].email = login[l].email
        BY <2>1 DEF LoginsKept, LoginTypes
      <3> QED
        BY <2>2, <2>3, <2>4, <2>5, <3>1 DEF Belongs
    <2>7. \A k \in Logins : login'[k].place = "sign" =>
             login'[k].id \in Ids /\ Belongs(login[k].email, login[k].id)'
      <3>1. \A k \in Logins \ {l} : login'[k] = login[k]
        BY <2>1 DEF LoginsKept, LoginTypes
      <3>2. login'[l].id = t
        BY <2>1 DEF LoginsKept, LoginTypes
      <3>3. ASSUME NEW k \in Logins, login'[k].place = "sign"
            PROVE  login'[k].id \in Ids /\ Belongs(login[k].email, login[k].id)'
        <4>1. CASE k = l
          BY <2>2, <2>6, <3>2, <4>1
        <4>2. CASE k # l
          BY <1>1, <3>1, <3>3, <4>2 DEF SessionsApart, Belongs
        <4> QED
          BY <4>1, <4>2
      <3> QED
        BY <3>3
    <2>8. account'[LEGACY_ACCOUNT_ID].email \in everConfigured \cup {NoEmail}
      BY <2>4, <2>5, IdsAssumption DEF SessionsApart
    <2> QED
      BY <1>1, <2>2, <2>7, <2>8 DEF SessionsApart, Belongs
  <1>3. ASSUME NEW l \in Logins, Sign(l) PROVE SessionsApart'
    <2>1. UNCHANGED <<account, everConfigured, request>> /\ login[l].place = "sign"
      BY <1>3 DEF Sign, data
    <2>2. sessions' = sessions \cup
             {[sub |-> login[l].id, email |-> login[l].email, exp |-> login[l].expires]}
      BY <1>3 DEF Sign
    <2>3. login[l].email \in Emails
      BY <2>1 DEF LoginsKept, LoginTypes
    <2>4. login' = [login EXCEPT ![l] = NoLogin]
      BY <1>3 DEF Sign
    <2>5. \A k \in Logins : login'[k].place = "sign" => login'[k] = login[k]
      BY <2>4 DEF NoLogin, LoginsKept, LoginTypes
    <2> QED
      BY <2>1, <2>2, <2>3, <2>5 DEF SessionsApart, Belongs
  <1>4. ASSUME NEW l \in Logins, Ask(l) \/ Answer(l) \/ Refuse(l) PROVE SessionsApart'
    <2>1. UNCHANGED <<account, everConfigured, request, sessions>>
      BY <1>4 DEF Ask, Answer, Refuse, data
    <2>2. \A k \in Logins \ {l} : login'[k] = login[k]
      BY <1>4 DEF Ask, Answer, Refuse, LoginsKept, LoginTypes
    <2>3. login'[l].place # "sign"
      <3>1. CASE Ask(l)
        <4>1. PICK a \in Addresses :
                 login' = [login EXCEPT ![l] =
                             [NoLogin EXCEPT !.place = "ask", !.email = Normal[a]]]
          BY <3>1 DEF Ask
        <4> QED
          BY <4>1 DEF NoLogin, LoginsKept, LoginTypes
      <3>2. CASE Answer(l)
        <4>1. PICK life \in Lifetimes :
                 login' = [login EXCEPT ![l] = IF life = 0 THEN NoLogin
                              ELSE [@ EXCEPT !.place = "store", !.expires = now + life]]
          BY <3>2 DEF Answer
        <4>2. login[l].place = "ask"
          BY <3>2 DEF Answer
        <4> QED
          BY <4>1, <4>2 DEF NoLogin, LoginsKept, LoginTypes
      <3>3. CASE Refuse(l)
        BY <3>3 DEF Refuse, NoLogin, LoginsKept, LoginTypes
      <3> QED
        BY <1>4, <3>1, <3>2, <3>3
    <2> QED
      BY <2>1, <2>2, <2>3 DEF SessionsApart, Belongs
  <1>5. ASSUME NEW q \in Requests, Enter(q) \/ Query(q) \/ Leave(q) PROVE SessionsApart'
    <2>1. UNCHANGED <<account, everConfigured, login, sessions>>
      BY <1>5 DEF Enter, Query, Leave, auth
    <2>2. request' \in [Requests -> sessions \cup {NoSession}]
      BY <1>5 DEF Enter, Query, Leave, SessionsApart
    <2> QED
      BY <2>1, <2>2 DEF SessionsApart, Belongs
  <1>6. CASE Restart
    <2>1. UNCHANGED <<account, sessions>> /\ everConfigured \subseteq everConfigured'
      BY <1>6 DEF Restart
    <2>2. \A l \in Logins : login'[l].place # "sign"
      BY <1>6 DEF Restart, NoLogin
    <2>3. request' \in [Requests -> sessions \cup {NoSession}]
      BY <1>6 DEF Restart
    <2> QED
      BY <2>1, <2>2, <2>3 DEF SessionsApart, Belongs
  <1>7. CASE Tick \/ UNCHANGED vars
    BY <1>7 DEF Tick, vars, auth, data, SessionsApart, Belongs
  <1> QED
    BY <1>2, <1>3, <1>4, <1>5, <1>6, <1>7 DEF Next

LEMMA RowsApartStep ==
    ASSUME LoginsKept, Apart, [Next]_vars
    PROVE  RowsApart'
  <1>1. \A i \in Ids : \A e : Belongs(e, i) => Belongs(e, i)'
    BY EmailsStay
  <1>2. ASSUME NEW q \in Requests, Query(q) PROVE RowsApart'
    <2>1. PICK c \in Queries : rows' \in Results(c, Scoped(q, c))
      BY <1>2 DEF Query
    <2>2. request[q] \in sessions
      BY <1>2 DEF Query, Apart, SessionsApart
    <2>3. request[q].sub \in Ids /\ Belongs(request[q].email, request[q].sub)
      BY <2>2 DEF Apart, SessionsApart
    <2>4. /\ rows' = [r \in RowIds |-> rows'[r]]
          /\ \A r \in RowIds :
                \/ rows'[r] = rows[r]
                \/ /\ rows[r] = NoRow \/ rows[r].accountId = request[q].sub
                   /\ rows'[r] = NoRow \/ rows'[r].accountId = request[q].sub
      BY <2>1, <2>3, WritesOwn DEF Apart, RowsApart
    <2>5. by' = [r \in RowIds |-> IF rows'[r] = NoRow THEN {}
                                 ELSE IF rows'[r] # rows[r] THEN by[r] \cup {request[q].email}
                                 ELSE by[r]]
      BY <1>2 DEF Query
    <2>6. ASSUME NEW r \in RowIds, rows'[r] # NoRow
          PROVE  /\ rows'[r].accountId \in Ids
                 /\ \A e \in by'[r] : Belongs(e, rows'[r].accountId)
      <3>1. CASE rows'[r] = rows[r]
        BY <2>5, <2>6, <3>1 DEF Apart, RowsApart
      <3>2. CASE rows'[r] # rows[r]
        <4>1. /\ rows'[r].accountId = request[q].sub
              /\ rows[r] = NoRow \/ rows[r].accountId = request[q].sub
          BY <2>4, <2>6, <3>2
        <4>2. by'[r] = by[r] \cup {request[q].email}
          BY <2>5, <2>6, <3>2
        <4>3. \A e \in by[r] : Belongs(e, request[q].sub)
          BY <4>1 DEF Apart, RowsApart
        <4> QED
          BY <2>3, <4>1, <4>2, <4>3
      <3> QED
        BY <3>1, <3>2
    <2>7. UNCHANGED <<account, everConfigured>>
      BY <1>2 DEF Query, auth
    <2>8. \A r \in RowIds : rows'[r] # NoRow =>
             rows'[r].accountId \in Ids /\ \A e \in by'[r] : Belongs(e, rows[r].accountId)'
      BY <2>6, <2>7 DEF Belongs
    <2> QED
      BY <2>4, <2>5, <2>8 DEF RowsApart
  <1>3. CASE ~\E q \in Requests : Query(q)
    <2>1. UNCHANGED <<rows, by>>
      BY <1>3 DEF Next, Ask, Answer, Store, Sign, Refuse, Enter, Leave, Tick, Restart, vars, data
    <2>2. \A r \in RowIds : rows[r] # NoRow =>
             rows[r].accountId \in Ids /\ \A e \in by[r] : Belongs(e, rows[r].accountId)'
      BY <1>1, <2>1 DEF Apart, RowsApart, Belongs
    <2> QED
      BY <2>1, <2>2 DEF Apart, RowsApart, Belongs
  <1> QED
    BY <1>2, <1>3

\* A query of a request finds no row that was written by anybody but those who logged
\* in with the email of its session; the part of OwnRows that keeps tenants apart.
NoForeignRows ==
    \A q \in Requests, c \in Queries :
       request[q] # NoSession /\ c.op \notin Creates => OwnRowsOnly(q, c)

LEMMA ApartSuffices ==
    ASSUME Apart
    PROVE  NoForeignRows
  <1> SUFFICES ASSUME NEW q \in Requests, NEW c \in Queries,
                      request[q] # NoSession, c.op \notin Creates,
                      NEW r \in Selected(Scoped(q, c)), NEW e \in by[r]
               PROVE  e \in Sharers(request[q])
    BY DEF NoForeignRows, OwnRowsOnly
  <1>1. request[q] \in sessions
    BY DEF Apart, SessionsApart
  <1>2. /\ request[q].sub \in Ids /\ request[q].email \in Emails
        /\ Belongs(request[q].email, request[q].sub)
    BY <1>1 DEF Apart, SessionsApart
  <1>3. r \in RowIds /\ rows[r] # NoRow /\ rows[r].accountId = request[q].sub
    BY <1>2, SelectsOwn
  <1>4. Belongs(e, request[q].sub)
    BY <1>3 DEF Apart, RowsApart
  <1> QED
    BY <1>2, <1>4, NormalAssumption DEF Belongs, Sharers

LEMMA ApartCorrect == Spec => [](LoginsKept /\ Apart)
  <1>1. Init => LoginsKept /\ Apart
    <2> SUFFICES ASSUME Init PROVE LoginsKept /\ Apart
      OBVIOUS
    <2>1. LoginsKept
      BY LoginsInit
    <2>2. SessionsApart
      BY IdsAssumption DEF Init, NoAccount, NoLogin, NoSession, SessionsApart
    <2>3. RowsApart
      BY IdsAssumption DEF Init, NoRow, RowsApart, Belongs
    <2> QED
      BY <2>1, <2>2, <2>3 DEF Apart
  <1>2. LoginsKept /\ Apart /\ [Next]_vars => LoginsKept' /\ Apart'
    BY LoginsStep, SessionsApartStep, RowsApartStep DEF Apart
  <1> QED
    BY <1>1, <1>2, PTL DEF Spec

----------------------------------------------------------------------------
(* The tables of the accounts.                                             *)

\* A query changes the table of its session's account and leaves the others alone.
LEMMA QueryWrites ==
    ASSUME Apart, NEW q \in Requests, Query(q)
    PROVE  request[q].sub \in Ids /\ Tables!Write(request[q].sub)
  <1> DEFINE a == request[q].sub
  <1>1. PICK c \in Queries : rows' \in Results(c, Scoped(q, c))
    BY DEF Query
  <1>2. request[q] # NoSession /\ request' = request
    BY DEF Query
  <1>3. a \in Ids
    BY <1>2 DEF Apart, SessionsApart
  <1>4. \A r \in RowIds :
           \/ rows'[r] = rows[r]
           \/ /\ rows[r] = NoRow \/ rows[r].accountId = a
              /\ rows'[r] = NoRow \/ rows'[r].accountId = a
    BY <1>1, <1>3, WritesOwn DEF Apart, RowsApart
  <1>5. ASSUME NEW b \in Ids \ {a} PROVE TableOf'[b] = TableOf[b]
    <2>1. \A r \in RowIds : rows[r] # NoRow /\ rows[r].accountId = b => rows'[r] = rows[r]
      BY <1>4, <1>5
    <2>2. \A r \in RowIds : rows'[r] # NoRow /\ rows'[r].accountId = b => rows'[r] = rows[r]
      BY <1>4, <1>5
    <2>3. {x \in RowIds : rows'[x] # NoRow /\ rows'[x].accountId = b}
             = {x \in RowIds : rows[x] # NoRow /\ rows[x].accountId = b}
      BY <2>1, <2>2
    <2> QED
      BY <2>1, <2>3 DEF TableOf
  <1>6. AtWork' = AtWork /\ a \in AtWork
    BY <1>2 DEF AtWork
  <1>7. DOMAIN TableOf' = DOMAIN TableOf
    BY DEF TableOf
  <1> QED
    BY <1>3, <1>5, <1>6, <1>7 DEF Tables!Write

\* A request that comes or goes adds its account to those at work, or takes it from
\* them unless another request is at work there.
LEMMA RequestsComeAndGo ==
    ASSUME Apart, NEW q \in Requests, Enter(q) \/ Leave(q)
    PROVE  Tables!Next \/ UNCHANGED <<TableOf, AtWork>>
  <1>1. TableOf' = TableOf
    BY DEF Enter, Leave, TableOf
  <1>2. \A p \in Requests : p # q => request'[p] = request[p]
    BY DEF Enter, Leave, Apart, SessionsApart
  <1>3. CASE Enter(q)
    <2>1. PICK s \in sessions : request' = [request EXCEPT ![q] = s]
      BY <1>3 DEF Enter
    <2>2. request[q] = NoSession /\ request'[q] = s
      BY <1>3, <2>1 DEF Enter, Apart, SessionsApart
    <2>3. s.sub \in Ids /\ s # NoSession
      BY IdsAssumption DEF NoSession, Apart, SessionsApart
    <2>4. AtWork' = AtWork \cup {s.sub}
      <3>1. {p \in Requests : request'[p] # NoSession}
               = {p \in Requests : request[p] # NoSession} \cup {q}
        BY <1>2, <2>2, <2>3
      <3> QED
        BY <1>2, <2>2, <3>1 DEF AtWork
    <2> QED
      BY <1>1, <2>3, <2>4 DEF Tables!Next, Tables!Come
  <1>4. CASE Leave(q)
    <2> DEFINE a == request[q].sub
    <2>1. request[q] # NoSession /\ request'[q] = NoSession
      BY <1>4 DEF Leave, Apart, SessionsApart
    <2>2. a \in Ids /\ a \in AtWork
      BY <2>1 DEF Apart, SessionsApart, AtWork
    <2>3. {p \in Requests : request'[p] # NoSession}
             = {p \in Requests : request[p] # NoSession} \ {q}
      BY <1>2, <2>1
    <2>4. AtWork' \cup {a} = AtWork
      BY <1>2, <2>2, <2>3 DEF AtWork
    <2> HIDE DEF a
    <2>5. CASE a \in AtWork'
      <3>1. AtWork' = AtWork
        BY <2>4, <2>5
      <3> QED
        BY <1>1, <3>1
    <2>6. CASE a \notin AtWork'
      <3>1. AtWork' = AtWork \ {a}
        BY <2>4, <2>6
      <3> QED
        BY <1>1, <2>2, <3>1 DEF Tables!Next, Tables!Go
    <2> QED
      BY <2>5, <2>6
  <1> QED
    BY <1>3, <1>4

LEMMA TablesStep ==
    ASSUME Apart, [Next]_vars
    PROVE  Tables!Next \/ UNCHANGED <<TableOf, AtWork>>
  <1>1. ASSUME NEW q \in Requests, Query(q) PROVE Tables!Next
    BY <1>1, QueryWrites DEF Tables!Next
  <1>2. CASE Restart
    <2>1. rows' = rows /\ \A q \in Requests : request'[q] = NoSession
      BY <1>2 DEF Restart
    <2>2. AtWork' = {} /\ TableOf' = TableOf
      BY <2>1 DEF AtWork, TableOf
    <2> QED
      BY <2>2 DEF Tables!Next, Tables!Restart
  <1>3. CASE (\E l \in Logins : Ask(l) \/ Answer(l) \/ Store(l) \/ Sign(l) \/ Refuse(l))
             \/ Tick \/ UNCHANGED vars
    <2>1. rows' = rows /\ request' = request
      BY <1>3 DEF Ask, Answer, Store, Sign, Refuse, Tick, vars, data
    <2> QED
      BY <2>1 DEF TableOf, AtWork
  <1> QED
    BY <1>1, <1>2, <1>3, RequestsComeAndGo DEF Next

\* What a request creates, changes or removes is in the account of its session, and no
\* row changes hands: seen table by table, logins, sessions, requests and rewritten
\* queries only ever come, go, and change the table of an account at work.
THEOREM TablesRefined == Spec => TablesApart
  <1>1. Init => Tables!Init
    <2> SUFFICES ASSUME Init PROVE Tables!Init
      OBVIOUS
    <2>1. AtWork = {}
      BY DEF Init, AtWork
    <2>2. ASSUME NEW i \in Ids \ {LEGACY_ACCOUNT_ID} PROVE TableOf[i] = {}
      BY <2>2 DEF Init, TableOf
    <2> QED
      BY <2>1, <2>2 DEF Tables!Init
  <1>2. Apart /\ [Next]_vars => [Tables!Next]_<<TableOf, AtWork>>
    BY TablesStep
  <1> QED
    BY <1>1, <1>2, ApartCorrect, PTL DEF Spec, TablesApart, Tables!Spec, Tables!vars

----------------------------------------------------------------------------
(* All rows of an account.                                                 *)

\* What a path consists of.
Keys == STRING \cup Index \cup Compounds \cup {"where", "OR", "data", "create", "update"}

LEMMA AppendStarts ==
    ASSUME NEW n \in Seq(Keys), NEW f
    PROVE  /\ Starts(n, Append(n, f)) /\ Append(n, f) # n
           /\ Append(n, f)[Len(Append(n, f))] = f
  <1>1. Len(Append(n, f)) = Len(n) + 1 /\ Append(n, f)[Len(n) + 1] = f
    OBVIOUS
  <1>2. SubSeq(Append(n, f), 1, Len(n)) = n
    OBVIOUS
  <1>3. Len(n) \in Nat
    OBVIOUS
  <1>4. Append(n, f) # n
    BY <1>1, <1>3
  <1>5. Starts(n, Append(n, f))
    BY <1>1, <1>2, <1>3 DEF Starts
  <1> QED
    BY <1>1, <1>4, <1>5

\* The objects Entries looks at.
LEMMA EntriesNear ==
    ASSUME NEW args, NEW n, NEW m \in Entries(args, n)
    PROVE  m = n \/ \E i \in Index : m = Append(n, i)
  BY DEF Entries

\* A filter of the where itself is the where, or an entry of it.
LEMMA FilterPaths ==
    ASSUME NEW args, DOMAIN args \subseteq Seq(STRING), NEW m \in Filters(args)
    PROVE  /\ m \in Seq(Keys) /\ Len(m) >= 1
           /\ m[1] = "where" => Len(m) = 1 \/ (Len(m) = 2 /\ m[2] \in Index)
  <1>1. CASE m = <<"where">>
    <2>1. "where" \in Keys
      BY DEF Keys
    <2> QED
      BY <1>1, <2>1
  <1>2. CASE m # <<"where">>
    <2> DEFINE S == {y \in (DOMAIN args) \X (1..MaxDepth) :
                       /\ Kept(y[1]) /\ y[2] \in Walked(y[1])
                       /\ y[1][y[2]] \in {"where", "connect"}}
    <2>1. PICK x \in S : m \in Entries(args, SubSeq(x[1], 1, x[2]))
      BY <1>2 DEF Filters
    <2>2. PICK p \in DOMAIN args, k \in 1..MaxDepth : x = <<p, k>>
      BY <2>1
    <2>3. /\ p \in Seq(STRING) /\ k \in 1..Len(p)
          /\ \A j \in 1..k : p[j] \in {"where", "connect"} => j = k
      BY <2>1, <2>2 DEF Walked
    <2>4. p \in Seq(Keys)
      BY <2>3 DEF Keys
    <2> DEFINE n == SubSeq(p, 1, k)
    <2>5. n \in Seq(Keys) /\ Len(n) = k /\ n[1] = p[1]
      BY <2>3, <2>4
    <2>6. n[1] = "where" => Len(n) = 1
      BY <2>3, <2>5
    <2>7. m = n \/ \E i \in Index : m = Append(n, i)
      BY <2>1, <2>2, EntriesNear
    <2> HIDE DEF n
    <2>8. CASE m = n
      BY <2>3, <2>5, <2>6, <2>8
    <2>9. ASSUME NEW i \in Index, m = Append(n, i)
          PROVE  /\ m \in Seq(Keys) /\ Len(m) >= 1
                 /\ m[1] = "where" => Len(m) = 1 \/ (Len(m) = 2 /\ m[2] \in Index)
      <3>1. i \in Keys
        BY DEF Keys
      <3>2. m \in Seq(Keys) /\ Len(m) = k + 1 /\ m[1] = n[1] /\ m[k + 1] = i
        BY <2>3, <2>5, <2>9, <3>1
      <3> QED
        BY <2>3, <2>5, <2>6, <3>2
    <2> QED
      BY <2>7, <2>8, <2>9
  <1> QED
    BY <1>1, <1>2

\* Nothing below an OR is stamped.
LEMMA StampedPaths ==
    ASSUME NEW args, DOMAIN args \subseteq Seq(STRING), NEW m \in Stamped(args)
    PROVE  /\ m \in Seq(Keys) /\ Len(m) >= 1
           /\ m[1] = "where" /\ Len(m) >= 2 => m[2] # "OR"
  <1>1. CASE m \in Filters(args)
    BY <1>1, FilterPaths, KeysAssumption
  <1>2. CASE m \in CompoundKeys(args)
    <2>1. PICK n \in Filters(args), c \in Compounds : m = Append(n, c)
      BY <1>2 DEF CompoundKeys
    <2>2. /\ n \in Seq(Keys) /\ Len(n) >= 1
          /\ n[1] = "where" => Len(n) = 1 \/ (Len(n) = 2 /\ n[2] \in Index)
      BY FilterPaths
    <2>3. c \in Keys
      BY DEF Keys
    <2>4. m \in Seq(Keys) /\ Len(m) = Len(n) + 1 /\ m[1] = n[1]
      BY <2>1, <2>2, <2>3
    <2>5. CASE Len(n) = 1
      <3>1. m[Len(n) + 1] = c
        BY <2>1, <2>2, <2>3
      <3> QED
        BY <2>2, <2>4, <2>5, <3>1, KeysAssumption
    <2>6. CASE Len(n) # 1
      <3>1. m[2] = n[2]
        BY <2>1, <2>2, <2>6
      <3> QED
        BY <2>2, <2>4, <2>6, <3>1, KeysAssumption
    <2> QED
      BY <2>5, <2>6
  <1>3. CASE m \in Records(args)
    <2>1. PICK k \in {"data", "create", "update"} : m \in Entries(args, <<k>>)
      BY <1>3 DEF Records
    <2>2. k \in Keys
      BY DEF Keys
    <2>3. \A n : m \in Entries(args, n) => m = n \/ \E i \in Index : m = Append(n, i)
      BY DEF Entries
    <2>7. m = <<k>> \/ \E i \in Index : m = Append(<<k>>, i)
      BY <2>1, <2>3, Zenon
    <2>4. CASE m = <<k>>
      BY <2>2, <2>4
    <2>5. ASSUME NEW i \in Index, m = Append(<<k>>, i)
          PROVE  m \in Seq(Keys) /\ Len(m) >= 1 /\ m[1] = k
      <3>1. i \in Keys
        BY DEF Keys
      <3> QED
        BY <2>2, <2>5, <3>1
    <2>6. m \in Seq(Keys) /\ Len(m) >= 1 /\ m[1] = k
      BY <2>7, <2>4, <2>5, <2>2
    <2> QED
      BY <2>6
  <1> QED
    BY <1>1, <1>2, <1>3 DEF Stamped

\* A row of the account that meets the other conditions at n meets the rewritten ones,
\* unless n names an account that is not rewritten.
LEMMA HoldsScoped ==
    ASSUME NEW c \in Queries, NEW a, NEW r \in RowIds, rows[r]["accountId"] = a,
           NEW n \in Seq(Keys), Holds(OtherConditions[c], n, r),
           \/ n \in Stamped(c.args)
           \/ Append(n, "accountId") \notin DOMAIN c.args
    PROVE  Holds(scopeTenantArgs(c.args, a), n, r)
  <1> DEFINE stamps == {Append(m, "accountId") : m \in Stamped(c.args)}
             kept == {q \in DOMAIN c.args : Kept(q)} \ Stamped(c.args)
             scoped == scopeTenantArgs(c.args, a)
  <1>1. scoped = [q \in kept \cup stamps |-> IF q \in stamps THEN a ELSE c.args[q]]
    BY DEF scopeTenantArgs
  <1>2. DOMAIN c.args \subseteq Seq(STRING)
    BY QueriesAssumption
  <1> SUFFICES ASSUME NEW f \in Fields, Append(n, f) \in DOMAIN scoped
               PROVE  rows[r][f] = scoped[Append(n, f)]
    BY DEF Holds
  <1>3. CASE f = "accountId"
    <2>1. Append(n, "accountId") \in stamps
      <3>1. CASE n \in Stamped(c.args)
        BY <3>1
      <3>2. CASE Append(n, "accountId") \notin DOMAIN c.args
        BY <1>1, <1>3, <3>2
      <3> QED
        BY <3>1, <3>2
    <2>2. scoped[Append(n, "accountId")] = a
      BY <1>1, <2>1
    <2> QED
      BY <1>3, <2>2
  <1>4. CASE f # "accountId"
    <2>1. Append(n, f) \notin stamps
      <3> SUFFICES ASSUME NEW m \in Stamped(c.args), Append(n, f) = Append(m, "accountId")
                   PROVE  FALSE
        OBVIOUS
      <3>1. m \in Seq(Keys)
        BY <1>2, StampedPaths
      <3> QED
        BY <1>4, <3>1
    <2>2. Append(n, f) \in DOMAIN c.args /\ scoped[Append(n, f)] = c.args[Append(n, f)]
      BY <1>1, <2>1
    <2> DEFINE p == Append(n, f)
    <2>3. p[Len(p)] = f
      OBVIOUS
    <2>4. p \in DOMAIN OtherConditions[c] /\ OtherConditions[c][p] = c.args[p]
      BY <1>4, <2>2, <2>3 DEF OtherConditions
    <2> QED
      BY <2>2, <2>4 DEF Holds
  <1> QED
    BY <1>3, <1>4

\* The rewriting leaves the alternatives of a where as they are.
LEMMA AlternativesKept ==
    ASSUME NEW c \in Queries, NEW a, NEW i \in Index
    PROVE  IsObject(scopeTenantArgs(c.args, a), <<"where", "OR", i>>)
             <=> IsObject(OtherConditions[c], <<"where", "OR", i>>)
  <1> DEFINE n == <<"where", "OR", i>>
             args == c.args
             stamps == {Append(m, "accountId") : m \in Stamped(args)}
             kept == {q \in DOMAIN args : Kept(q)} \ Stamped(args)
             scoped == scopeTenantArgs(args, a)
  <1>1. scoped = [q \in kept \cup stamps |-> IF q \in stamps THEN a ELSE args[q]]
    BY DEF scopeTenantArgs
  <1>2. /\ DOMAIN args \subseteq Seq(STRING)
        /\ \A p \in DOMAIN args : Starts(n, p) => p[Len(p)] # "accountId"
    BY QueriesAssumption
  <1>3. \A m \in Stamped(args) : /\ m \in Seq(Keys) /\ Len(m) >= 1
                                 /\ m[1] = "where" /\ Len(m) >= 2 => m[2] # "OR"
    BY <1>2, StampedPaths
  <1>4. \A S : \A p \in Seq(S) : Starts(n, p) =>
           Len(p) >= 3 /\ p[1] = "where" /\ p[2] = "OR"
    <2> SUFFICES ASSUME NEW S, NEW p \in Seq(S), Starts(n, p)
                 PROVE  Len(p) >= 3 /\ p[1] = "where" /\ p[2] = "OR"
      OBVIOUS
    <2>1. Len(p) >= 3 /\ SubSeq(p, 1, 3) = n
      BY DEF Starts
    <2>2. SubSeq(p, 1, 3)[1] = p[1] /\ SubSeq(p, 1, 3)[2] = p[2]
      BY <2>1
    <2>3. n[1] = "where" /\ n[2] = "OR"
      OBVIOUS
    <2> HIDE DEF n
    <2> QED
      BY <2>1, <2>2, <2>3
  <1>5. ASSUME NEW p \in stamps PROVE ~Starts(n, p)
    <2>1. PICK m \in Stamped(args) : p = Append(m, "accountId")
      OBVIOUS
    <2>2. m \in Seq(Keys \cup {"accountId"}) /\ p \in Seq(Keys \cup {"accountId"})
          /\ Len(p) = Len(m) + 1
      BY <1>3, <2>1
    <2> SUFFICES ASSUME Starts(n, p) PROVE FALSE
      OBVIOUS
    <2>3. Len(p) >= 3 /\ p[1] = "where" /\ p[2] = "OR"
      BY <1>4, <2>2
    <2>4. m[1] = p[1] /\ m[2] = p[2]
      BY <2>1, <2>2, <2>3
    <2> QED
      BY <1>3, <2>2, <2>3, <2>4
  <1>6. ASSUME NEW p \in DOMAIN args, Starts(n, p)
        PROVE  p \in kept /\ p \in DOMAIN OtherConditions[c] /\ OtherConditions[c][p] = args[p]
    <2>1. p \in Seq(STRING)
      BY <1>2
    <2>2. Len(p) >= 3 /\ p[1] = "where" /\ p[2] = "OR"
      BY <1>4, <1>6, <2>1
    <2>3. p[Len(p)] # "accountId"
      BY <1>2, <1>6
    <2>4. Kept(p)
      BY <2>1, <2>2 DEF Kept, Walked
    <2>5. p \notin Stamped(args)
      BY <1>3, <2>2
    <2> QED
      BY <2>3, <2>4, <2>5 DEF OtherConditions
  <1>7. IsObject(scoped, n) => IsObject(OtherConditions[c], n)
    <2> SUFFICES ASSUME NEW p \in DOMAIN scoped, Starts(n, p),
                        p = n => scoped[p] = EmptyObject
                 PROVE  IsObject(OtherConditions[c], n)
      BY DEF IsObject
    <2>1. p \notin stamps
      BY <1>5
    <2>2. p \in DOMAIN args /\ scoped[p] = args[p]
      BY <1>1, <2>1
    <2> QED
      BY <1>6, <2>2 DEF IsObject
  <1>8. IsObject(OtherConditions[c], n) => IsObject(scoped, n)
    <2> SUFFICES ASSUME NEW p \in DOMAIN OtherConditions[c], Starts(n, p),
                        p = n => OtherConditions[c][p] = EmptyObject
                 PROVE  IsObject(scoped, n)
      BY DEF IsObject
    <2>1. p \in DOMAIN args
      BY DEF OtherConditions
    <2>2. p \in kept /\ p \notin stamps /\ OtherConditions[c][p] = args[p]
      BY <1>5, <1>6, <2>1
    <2>3. p \in DOMAIN scoped /\ scoped[p] = args[p]
      BY <1>1, <2>2
    <2> QED
      BY <2>2, <2>3 DEF IsObject
  <1> QED
    BY <1>7, <1>8

\* A query finds every row of its request's account that meets its other conditions.
LEMMA FindsOwn ==
    ASSUME NEW q \in Requests, request[q].sub \in Ids, NEW c \in Queries, c.op \notin Creates
    PROVE  OwnRowsFound(q, c)
  <1> DEFINE a == request[q].sub
  <1>1. Scoped(q, c) = scopeTenantArgs(c.args, a)
    BY DEF Scoped, ScopedQueries, getCurrentAccountId
  <1> SUFFICES ASSUME NEW r \in Selected(OtherConditions[c]), rows[r].accountId = a
               PROVE  r \in Selected(scopeTenantArgs(c.args, a))
    BY <1>1 DEF OwnRowsFound
  <1>2. /\ r \in RowIds /\ rows[r] # NoRow
        /\ Holds(OtherConditions[c], <<"where">>, r)
        /\ \A k \in Compounds : Holds(OtherConditions[c], <<"where", k>>, r)
        /\ LET any == {i \in Index : IsObject(OtherConditions[c], <<"where", "OR", i>>)}
           IN  any # {} => \E i \in any : Holds(OtherConditions[c], <<"where", "OR", i>>, r)
    BY DEF Selected
  <1>3. /\ DOMAIN c.args \subseteq Seq(STRING)
        /\ \A p \in DOMAIN c.args, i \in Index :
              Starts(<<"where", "OR", i>>, p) => p[Len(p)] # "accountId"
    BY QueriesAssumption
  <1>4. <<"where">> \in Filters(c.args) /\ <<"where">> \in Stamped(c.args)
    BY QueriesStamped DEF Stamped
  <1>5. /\ "where" \in Keys /\ "OR" \in Keys /\ (\A k \in Compounds \cup Index : k \in Keys)
        /\ <<"where">> \in Seq(Keys)
    BY DEF Keys
  <1> HIDE DEF a
  <1>6. Holds(scopeTenantArgs(c.args, a), <<"where">>, r)
    BY <1>2, <1>4, <1>5, HoldsScoped
  <1>7. ASSUME NEW k \in Compounds
        PROVE  Holds(scopeTenantArgs(c.args, a), <<"where", k>>, r)
    <2>1. <<"where", k>> \in Seq(Keys)
      BY <1>5
    <2>2. \/ <<"where", k>> \in Stamped(c.args)
          \/ Append(<<"where", k>>, "accountId") \notin DOMAIN c.args
      <3> SUFFICES ASSUME Append(<<"where", k>>, "accountId") \in DOMAIN c.args
                   PROVE  <<"where", k>> \in Stamped(c.args)
        OBVIOUS
      <3> DEFINE p == Append(<<"where", k>>, "accountId")
      <3>1. Starts(<<"where", k>>, p) /\ p # <<"where", k>>
        BY <2>1, AppendStarts
      <3>2. IsObject(c.args, <<"where", k>>)
        BY <3>1 DEF IsObject
      <3>3. <<"where", k>> = Append(<<"where">>, k)
        OBVIOUS
      <3>4. <<"where", k>> \in {Append(x[1], x[2]) : x \in Filters(c.args) \X Compounds}
        <4>1. <<<<"where">>, k>> \in Filters(c.args) \X Compounds
          BY <1>4
        <4>2. /\ <<<<"where">>, k>>[1] = <<"where">> /\ <<<<"where">>, k>>[2] = k
          OBVIOUS
        <4> QED
          BY <3>3, <4>1, <4>2, Zenon
      <3> QED
        BY <3>2, <3>4 DEF CompoundKeys, Stamped
    <2> QED
      BY <1>2, <2>1, <2>2, HoldsScoped
  <1>8. ASSUME NEW i \in Index, Holds(OtherConditions[c], <<"where", "OR", i>>, r)
        PROVE  Holds(scopeTenantArgs(c.args, a), <<"where", "OR", i>>, r)
    <2>1. <<"where", "OR", i>> \in Seq(Keys)
      BY <1>5
    <2> DEFINE p == Append(<<"where", "OR", i>>, "accountId")
    <2>2. Starts(<<"where", "OR", i>>, p) /\ p[Len(p)] = "accountId"
      BY <2>1, AppendStarts
    <2>3. p \notin DOMAIN c.args
      BY <1>3, <2>2
    <2> QED
      BY <1>2, <1>8, <2>1, <2>3, HoldsScoped
  <1>9. LET any == {i \in Index : IsObject(scopeTenantArgs(c.args, a), <<"where", "OR", i>>)}
        IN  any # {} => \E i \in any : Holds(scopeTenantArgs(c.args, a), <<"where", "OR", i>>, r)
    BY <1>2, <1>8, AlternativesKept
  <1> QED
    BY <1>2, <1>6, <1>7, <1>9 DEF Selected

\* A query of a request finds the rows of its account that meet its other conditions,
\* all of them and no others, and these are of those who logged in with the session's
\* email: for any emails, requests, restarts and queries of the services' forms.
THEOREM OwnRowsCorrect == Spec => []OwnRows
  <1>1. LoginsKept /\ Apart => OwnRows
    <2> SUFFICES ASSUME LoginsKept, Apart, NEW q \in Requests, NEW c \in Queries,
                        request[q] # NoSession, c.op \notin Creates
                 PROVE  OwnRowsOnly(q, c) /\ OwnRowsFound(q, c)
      BY DEF OwnRows
    <2>1. OwnRowsOnly(q, c)
      BY ApartSuffices DEF NoForeignRows
    <2>2. request[q] \in sessions
      BY DEF Apart, SessionsApart
    <2>3. request[q].sub \in Ids
      BY <2>2 DEF Apart, SessionsApart
    <2> QED
      BY <2>1, <2>3, FindsOwn
  <1> QED
    BY <1>1, ApartCorrect, PTL

----------------------------------------------------------------------------
(* Tokens.                                                                 *)

\* No token lives longer than one that is given now.
TokensBounded ==
    \A life \in Lifetimes \ {0} :
        /\ \A i \in Ids : account[i].expires <= now + life
        /\ \A l \in Logins : login[l].place = "store" => login[l].expires <= now + life

\* A login under way has a token at least as late as the one it is to replace, or it
\* was overtaken.
LatestLast ==
    \A l \in Logins : login[l].place = "store" =>
        \A i \in Targets(login[l].email) :
            l \in overtaken \/ account[i].expires <= login[l].expires

\* An account has a token as late as any session or login that was to store it.
Outlived(i, expires) == i \in crossed \/ expires <= account[i].expires
TokensLast ==
    /\ \A s \in sessions : s.sub \in Ids /\ s.exp \in Nat /\ Outlived(s.sub, s.exp)
    /\ \A l \in Logins : login[l].place = "sign" =>
          login[l].id \in Ids /\ Outlived(login[l].id, login[l].expires)

TokensKept == TokensBounded /\ LatestLast /\ TokensLast

\* A stored token moves the row of no other login but one that it overtakes.
LEMMA TargetsMove ==
    ASSUME LoginsKept, NEW l \in Logins, NEW i \in Ids,
           account' = [account EXCEPT ![i] = AuthData(l, i)],
           configured' = configured, NEW email, NEW j \in Targets(email)', j # i
    PROVE  j \in Ids /\ (j \in Targets(email) \/ account[j] = NoAccount)
  <1>1. j \in Ids
    BY IdsAssumption DEF Targets, Owners, Unused
  <1>2. account'[j] = account[j]
    BY <1>1 DEF LoginsKept, LoginTypes
  <1>3. CASE configured = email
    BY <1>1, <1>3 DEF Targets
  <1>4. CASE configured # email
    <2>1. CASE account'[j].email = email
      BY <1>1, <1>2, <1>4, <2>1 DEF Targets, Owners
    <2>2. CASE account'[j].email # email
      <3>1. j \notin Owners(email)'
        BY <2>2 DEF Owners
      <3>2. j \in Unused'
        BY <1>4, <3>1 DEF Targets
      <3> QED
        BY <1>1, <1>2, <3>2 DEF Unused, NoAccount
    <2> QED
      BY <2>1, <2>2
  <1> QED
    BY <1>3, <1>4

LEMMA StoreTokensStep ==
    ASSUME LoginsKept, TokensKept, NEW l \in Logins, Store(l)
    PROVE  TokensKept'
  <1>1. PICK i \in Targets(login[l].email) :
           /\ account' = [account EXCEPT ![i] = AuthData(l, i)]
           /\ login' = [login EXCEPT ![l].place = "sign", ![l].id = i]
           /\ crossed' = IF l \in overtaken THEN crossed \cup {i} ELSE crossed
           /\ overtaken' = overtaken \cup
                 {k \in Logins \ {l} : login[k].place = "store" /\ i \in Targets(login[k].email)'}
    BY DEF Store
  <1>2. /\ login[l].place = "store" /\ UNCHANGED <<configured, now, sessions>>
        /\ i \in Ids
    BY IdsAssumption DEF Store, Targets, Owners, Unused
  <1>3. /\ account'[i].expires = login[l].expires
        /\ \A j \in Ids \ {i} : account'[j] = account[j]
    BY <1>1, <1>2 DEF AuthData, LoginsKept, LoginTypes
  <1>4. /\ \A k \in Logins \ {l} : login'[k] = login[k]
        /\ login'[l].place = "sign" /\ login'[l].id = i
        /\ login'[l].expires = login[l].expires
    BY <1>1 DEF LoginsKept, LoginTypes
  <1>5. TokensBounded'
    <2>1. ASSUME NEW life \in Lifetimes \ {0}, NEW j \in Ids
          PROVE  account'[j].expires <= now' + life
      BY <1>2, <1>3 DEF TokensKept, TokensBounded
    <2>2. ASSUME NEW life \in Lifetimes \ {0}, NEW k \in Logins, login'[k].place = "store"
          PROVE  login'[k].expires <= now' + life
      BY <1>2, <1>4, <2>2 DEF TokensKept, TokensBounded
    <2> QED
      BY <2>1, <2>2 DEF TokensBounded
  <1>6. LatestLast'
    <2> SUFFICES ASSUME NEW k \in Logins, login'[k].place = "store",
                        NEW j \in Targets(login[k].email)'
                 PROVE  k \in overtaken' \/ account'[j].expires <= login'[k].expires
      BY DEF LatestLast
    <2>1. k # l /\ login'[k] = login[k] /\ login[k].place = "store"
      BY <1>4
    <2>2. CASE j = i
      BY <1>1, <2>1, <2>2
    <2>3. CASE j # i
      <3>1. j \in Ids /\ (j \in Targets(login[k].email) \/ account[j] = NoAccount)
        BY <1>1, <1>2, <2>1, <2>3, TargetsMove
      <3>2. login[k].expires \in Nat
        BY DEF LoginsKept, LoginTypes
      <3> QED
        BY <1>1, <1>3, <2>1, <2>3, <3>1, <3>2 DEF TokensKept, LatestLast, NoAccount
    <2> QED
      BY <2>2, <2>3
  <1>7. \A j \in Ids, e \in Nat : Outlived(j, e) => j \in crossed' \/ e <= account'[j].expires
    <2> SUFFICES ASSUME NEW j \in Ids, NEW e \in Nat, Outlived(j, e)
                 PROVE  j \in crossed' \/ e <= account'[j].expires
      OBVIOUS
    <2>1. CASE j # i
      BY <1>1, <1>3, <2>1 DEF Outlived
    <2>2. CASE j = i /\ l \in overtaken
      BY <1>1, <2>2 DEF Outlived
    <2>3. CASE j = i /\ l \notin overtaken
      <3>1. account[i].expires <= login[l].expires
        BY <1>1, <1>2, <2>3 DEF TokensKept, LatestLast
      <3> QED
        BY <1>1, <1>2, <1>3, <2>3, <3>1 DEF Outlived, LoginsKept, LoginTypes
    <2> QED
      BY <2>1, <2>2, <2>3
  <1>8. TokensLast'
    <2>1. \A s \in sessions' : /\ s.sub \in Ids /\ s.exp \in Nat
                               /\ s.sub \in crossed' \/ s.exp <= account'[s.sub].expires
      BY <1>2, <1>7 DEF TokensKept, TokensLast
    <2>2. ASSUME NEW k \in Logins, login'[k].place = "sign"
          PROVE  /\ login'[k].id \in Ids
                 /\ \/ login'[k].id \in crossed'
                    \/ login'[k].expires <= account'[login'[k].id].expires
      <3>1. CASE k = l
        <4>1. account'[i].expires \in Nat /\ login'[l].expires = account'[i].expires
          BY <1>3, <1>4 DEF LoginsKept, LoginTypes
        <4> QED
          BY <1>2, <1>4, <3>1, <4>1
      <3>2. CASE k # l
        <4>1. login[k].expires \in Nat /\ login[k].place = "sign" /\ login'[k] = login[k]
          BY <1>4, <2>2, <3>2 DEF LoginsKept, LoginTypes
        <4>2. login[k].id \in Ids /\ Outlived(login[k].id, login[k].expires)
          BY <4>1 DEF TokensKept, TokensLast
        <4> QED
          BY <1>7, <4>1, <4>2
      <3> QED
        BY <3>1, <3>2
    <2> QED
      BY <2>1, <2>2 DEF TokensLast, Outlived
  <1> QED
    BY <1>5, <1>6, <1>8 DEF TokensKept

\* One life for all tokens that are not refused at once.
OneLifetime == \A a, b \in Lifetimes \ {0} : a = b

LEMMA LoginTokensStep ==
    ASSUME OneLifetime, LoginsKept, TokensKept, NEW l \in Logins,
           Ask(l) \/ Answer(l) \/ Sign(l) \/ Refuse(l)
    PROVE  TokensKept'
  <1>1. UNCHANGED <<now, configured, account, crossed>>
    BY DEF Ask, Answer, Sign, Refuse
  <1>2. \A k \in Logins \ {l} : login'[k] = login[k] /\ (k \in overtaken => k \in overtaken')
    BY DEF Ask, Answer, Sign, Refuse, LoginsKept, LoginTypes
  <1>3. \/ login'[l].place \notin {"store", "sign"}
        \/ /\ login'[l].place = "store" /\ login'[l].expires \in Nat
           /\ \A life \in Lifetimes \ {0} : login'[l].expires = now + life
           /\ \E life \in Lifetimes \ {0} : TRUE
    <2>1. CASE Ask(l)
      <3>1. PICK a \in Addresses :
               login' = [login EXCEPT ![l] =
                           [NoLogin EXCEPT !.place = "ask", !.email = Normal[a]]]
        BY <2>1 DEF Ask
      <3> QED
        BY <3>1 DEF NoLogin, LoginsKept, LoginTypes
    <2>2. CASE Answer(l)
      <3>1. PICK life \in Lifetimes :
               login' = [login EXCEPT ![l] = IF life = 0 THEN NoLogin
                            ELSE [@ EXCEPT !.place = "store", !.expires = now + life]]
        BY <2>2 DEF Answer
      <3>2. life \in Nat /\ now \in Nat
        BY LifetimesAssumption DEF LoginsKept, LoginTypes
      <3>3. CASE life = 0
        BY <3>1, <3>3 DEF NoLogin, LoginsKept, LoginTypes
      <3>4. CASE life # 0
        <4>1. login'[l].place = "store" /\ login'[l].expires = now + life
          BY <3>1, <3>4 DEF LoginsKept, LoginTypes
        <4>2. \A b \in Lifetimes \ {0} : b = life
          BY <3>4 DEF OneLifetime
        <4>3. now + life \in Nat
          BY <3>2
        <4>4. \A b \in Lifetimes \ {0} : login'[l].expires = now + b
          BY <4>1, <4>2
        <4> QED
          BY <3>4, <4>1, <4>3, <4>4
      <3> QED
        BY <3>3, <3>4
    <2>3. CASE Sign(l) \/ Refuse(l)
      BY <2>3 DEF Sign, Refuse, NoLogin, LoginsKept, LoginTypes
    <2> QED
      BY <2>1, <2>2, <2>3
  <1>4. TokensBounded'
    <2>1. ASSUME NEW life \in Lifetimes \ {0}, NEW k \in Logins, login'[k].place = "store"
          PROVE  login'[k].expires <= now' + life
      <3>1. life \in Nat /\ now \in Nat
        BY LifetimesAssumption DEF LoginsKept, LoginTypes
      <3>2. CASE k = l
        BY <1>1, <1>3, <2>1, <3>1, <3>2
      <3>3. CASE k # l
        BY <1>1, <1>2, <2>1, <3>3 DEF TokensKept, TokensBounded
      <3> QED
        BY <3>2, <3>3
    <2> QED
      BY <1>1, <2>1 DEF TokensKept, TokensBounded
  <1>5. LatestLast'
    <2>1. \A email : Targets(email)' = Targets(email)
      BY <1>1 DEF Targets, Owners, Unused
    <2>2. ASSUME NEW k \in Logins, login'[k].place = "store", NEW i \in Targets(login'[k].email)
          PROVE  k \in overtaken' \/ account[i].expires <= login'[k].expires
      <3>1. i \in Ids
        BY IdsAssumption DEF Targets, Owners, Unused
      <3>2. CASE k = l
        <4>1. PICK life \in Lifetimes \ {0} : login'[l].expires = now + life
          BY <1>3, <2>2, <3>2
        <4> QED
          BY <3>1, <3>2, <4>1 DEF TokensKept, TokensBounded
      <3>3. CASE k # l
        BY <1>2, <2>2, <3>3 DEF TokensKept, LatestLast
      <3> QED
        BY <3>2, <3>3
    <2> QED
      BY <1>1, <2>1, <2>2 DEF LatestLast, Targets, Owners, Unused
  <1>6. TokensLast'
    <2>1. \A k \in Logins : login'[k].place = "sign" => login'[k] = login[k]
      BY <1>2, <1>3
    <2>2. ASSUME NEW s \in sessions'
          PROVE  s.sub \in Ids /\ s.exp \in Nat /\ Outlived(s.sub, s.exp)
      <3>1. CASE s \in sessions
        BY <3>1 DEF TokensKept, TokensLast
      <3>2. CASE s \notin sessions
        <4>1. /\ login[l].place = "sign"
              /\ s = [sub |-> login[l].id, email |-> login[l].email, exp |-> login[l].expires]
          <5>1. Sign(l)
            BY <2>2, <3>2 DEF Ask, Answer, Refuse
          <5>2. login[l].place = "sign"
            BY <5>1 DEF Sign
          <5> QED
            BY <2>2, <3>2, <5>1, <5>2 DEF Sign
        <4>2. login[l].expires \in Nat
          BY DEF LoginsKept, LoginTypes
        <4> QED
          BY <4>1, <4>2 DEF TokensKept, TokensLast
      <3> QED
        BY <3>1, <3>2
    <2> QED
      BY <1>1, <2>1, <2>2 DEF TokensKept, TokensLast, Outlived
  <1> QED
    BY <1>4, <1>5, <1>6 DEF TokensKept

\* The account of a session that has not expired is served by the cron pass, unless
\* overlapping logins stored their tokens out of order: for any emails, accounts,
\* logins and restarts, provided the upstream gives all tokens one life.
THEOREM SessionsCorrect ==
    ASSUME OneLifetime
    PROVE  Spec => []SessionsServed
  <1>1. Init => LoginsKept /\ TokensKept
    <2> SUFFICES ASSUME Init PROVE LoginsKept /\ TokensKept
      OBVIOUS
    <2>1. LoginsKept
      BY LoginsInit
    <2>2. TokensKept
      BY LifetimesAssumption
      DEF Init, NoAccount, NoLogin, TokensKept, TokensBounded, LatestLast, TokensLast
    <2> QED
      BY <2>1, <2>2
  <1>2. LoginsKept /\ TokensKept /\ [Next]_vars => LoginsKept' /\ TokensKept'
    <2> SUFFICES ASSUME LoginsKept, TokensKept, [Next]_vars PROVE TokensKept'
      BY LoginsStep
    <2>1. CASE Tick
      <3>1. now' = now + 1 /\ now \in Nat
            /\ UNCHANGED <<configured, account, login, sessions, overtaken, crossed>>
        BY <2>1 DEF Tick, auth, LoginsKept, LoginTypes
      <3>2. TokensBounded'
        <4> SUFFICES ASSUME NEW life \in Lifetimes \ {0}
                     PROVE  /\ \A i \in Ids : account[i].expires <= now + 1 + life
                            /\ \A l \in Logins : login[l].place = "store" =>
                                  login[l].expires <= now + 1 + life
          BY <3>1 DEF TokensBounded
        <4>1. life \in Nat
          BY LifetimesAssumption
        <4> QED
          BY <3>1, <4>1 DEF TokensKept, TokensBounded, LoginsKept, LoginTypes
      <3> QED
        BY <3>1, <3>2 DEF TokensKept, LatestLast, TokensLast, Outlived, Targets, Owners, Unused
    <2>2. CASE Restart
      <3>1. UNCHANGED <<now, account, sessions, overtaken, crossed>>
            /\ \A l \in Logins : login'[l].place = "none"
        BY <2>2 DEF Restart, NoLogin
      <3> QED
        BY <3>1 DEF TokensKept, TokensBounded, LatestLast, TokensLast, Outlived
    <2>3. ASSUME NEW q \in Requests, Enter(q) \/ Query(q) \/ Leave(q) PROVE TokensKept'
      <3>1. UNCHANGED <<now, configured, account, login, sessions, overtaken, crossed>>
        BY <2>3 DEF Enter, Query, Leave, auth
      <3> QED
        BY <3>1 DEF TokensKept, TokensBounded, LatestLast, TokensLast, Outlived, Targets, Owners,
                    Unused
    <2>4. CASE UNCHANGED vars
      BY <2>4 DEF vars, auth, TokensKept, TokensBounded, LatestLast, TokensLast, Outlived, Targets,
                  Owners, Unused
    <2> QED
      BY <2>1, <2>2, <2>3, <2>4, StoreTokensStep, LoginTokensStep DEF Next
  <1>3. LoginsKept /\ TokensKept => SessionsServed
    <2> SUFFICES ASSUME LoginsKept, TokensKept, NEW s \in sessions, s.exp > now
                 PROVE  s.sub \in Eligible \cup crossed
      BY DEF SessionsServed
    <2>1. s.sub \in Ids /\ s.exp \in Nat /\ Outlived(s.sub, s.exp)
      BY DEF TokensKept, TokensLast
    <2> QED
      BY <2>1 DEF Outlived, Eligible, LoginsKept, LoginTypes
  <1> QED
    BY <1>1, <1>2, <1>3, PTL DEF Spec
=============================================================================
