------------------------------ MODULE Accounts ------------------------------
(***************************************************************************)
(* Who sees which rows: login (src/auth/auth.service.ts), the sessions it  *)
(* hands out (src/auth/jwt.strategy.ts), the account they run their        *)
(* requests in (tenant-context.interceptor.ts, tenant-context.ts) and the  *)
(* queries of these requests, rewritten by TenantScope.                    *)
(*                                                                         *)
(* Of the upstream's token only its expiry is kept, of an account its      *)
(* email and that expiry; passwords and ciphers are library code.  One     *)
(* table stands for those of the schema: rows with an account and a code,  *)
(* unique together.  A login is a request with awaits; so is a request     *)
(* that reads and writes rows.  A restart ends both and may come with      *)
(* another VINAPHONE_API_EMAIL.                                            *)
(***************************************************************************)
EXTENDS TenantScope

CONSTANTS
    Addresses,      \* emails as they are typed
    Emails,         \* and as normalizeEmail leaves them
    Normal,         \* normalizeEmail
    Ids,            \* ids of rows of accounts
    LEGACY_ACCOUNT_ID,
    Lifetimes,      \* how long the upstream's tokens live
    Logins, Requests,  \* concurrent calls
    RowIds,         \* ids of rows of the table
    Queries,        \* queries: the operation and its arguments, before the rewriting
    LastTime, MaxLogins, MaxWrites, MaxRestarts     \* bounds

NoEmail == "no email"
NoId == "no id"
NoRow == [accountId |-> NoId, id |-> NoId, code |-> NoId]

\* The operations that find no rows: what they write has no where.
Creates == {"create", "createMany"}

ASSUME NormalAssumption == Normal \in [Addresses -> Emails] /\ NoEmail \notin Emails
ASSUME IdsAssumption == LEGACY_ACCOUNT_ID \in Ids /\ NoId \notin Ids
ASSUME LifetimesAssumption == Lifetimes \subseteq Nat
ASSUME BoundsAssumption ==
    LastTime \in Nat /\ MaxLogins \in Nat /\ MaxWrites \in Nat /\ MaxRestarts \in Nat
\* The services' queries: what changes rows gives a where, what writes gives an object,
\* or createMany an array, and no alternative of an OR names an account.
ASSUME QueriesAssumption ==
    \A c \in Queries :
        /\ DOMAIN c.args \subseteq Seq(STRING)
        /\ \A p \in DOMAIN c.args, i \in Index :
              Starts(<<"where", "OR", i>>, p) => p[Len(p)] # "accountId"
        /\ c.op \notin Creates /\ HasOwn(c.args, "data") =>
              Entries(c.args, <<"where">>) = {<<"where">>}
        /\ c.op \in {"create", "updateMany"} => Entries(c.args, <<"data">>) = {<<"data">>}
        /\ c.op = "upsert" =>
              \A k \in {"where", "create", "update"} : Entries(c.args, <<k>>) = {<<k>>}

VARIABLES
    now,
    configured,     \* vinaphone.email of this process
    account,        \* table accounts; an id without an email and a token has no row,
                    \* except the legacy one, which the migration inserts
    login,          \* the logins under way
    sessions,       \* the JWTs handed out
    request,        \* the session of each request under way
    rows,           \* the table
    by,             \* history: whose requests wrote a row
    everConfigured, \* history: the emails that were configured
    overtaken,      \* history: logins that got their token before their account got another
    crossed,        \* history: the accounts such a login stored its token in
    logins, writes, restarts

auth == <<configured, account, login, sessions, overtaken, crossed, logins>>
data == <<request, rows, by, writes>>
vars == <<now, auth, data, everConfigured, restarts>>

----------------------------------------------------------------------------
Account == [email : Emails \cup {NoEmail}, expires : 0..LastTime]
NoAccount == [email |-> NoEmail, expires |-> 0]
Login == [place : {"none", "ask", "store", "sign"}, email : Emails \cup {NoEmail},
          expires : 0..LastTime, id : Ids \cup {NoId}]
NoLogin == [place |-> "none", email |-> NoEmail, expires |-> 0, id |-> NoId]
Session == [sub : Ids, email : Emails, exp : 0..LastTime]
NoSession == [sub |-> NoId, email |-> NoEmail, exp |-> 0]

TypeOK ==
    /\ now \in 1..LastTime
    /\ configured \in Emails \cup {NoEmail}
    /\ account \in [Ids -> Account]
    /\ \A i, j \in Ids : account[i].email = account[j].email /\ i # j
          => account[i].email = NoEmail
    /\ login \in [Logins -> Login]
    /\ sessions \subseteq Session
    /\ request \in [Requests -> sessions \cup {NoSession}]
    /\ \A r \in RowIds : rows[r] # NoRow => rows[r].accountId \in Ids
    /\ by \in [RowIds -> SUBSET (Emails \cup {NoEmail})]
    /\ logins \in 0..MaxLogins /\ writes \in 0..MaxWrites /\ restarts \in 0..MaxRestarts

\* The table has the rows from before there were accounts, all of the legacy one.
Init ==
    /\ now = 1
    /\ configured \in {Normal[a] : a \in Addresses} \cup {NoEmail}
    /\ everConfigured = {configured}
    /\ account = [i \in Ids |-> NoAccount]
    /\ login = [l \in Logins |-> NoLogin]
    /\ sessions = {}
    /\ request = [q \in Requests |-> NoSession]
    /\ \E old \in RowIds :
          /\ rows = [r \in RowIds |->
                       IF r = old THEN [accountId |-> LEGACY_ACCOUNT_ID, id |-> r, code |-> "x"]
                       ELSE NoRow]
          /\ by = [r \in RowIds |-> IF r = old THEN {NoEmail} ELSE {}]
    /\ overtaken = {} /\ crossed = {}
    /\ logins = 0 /\ writes = 0 /\ restarts = 0

----------------------------------------------------------------------------
(* Login. *)

\* login up to the upstream's answer.
Ask(l) ==
    /\ login[l] = NoLogin /\ logins < MaxLogins /\ logins' = logins + 1
    /\ \E a \in Addresses :
          login' = [login EXCEPT ![l] = [NoLogin EXCEPT !.place = "ask", !.email = Normal[a]]]
    /\ overtaken' = overtaken \ {l}
    /\ UNCHANGED <<now, configured, account, sessions, crossed, data, everConfigured, restarts>>

\* A token that has expired already is refused like wrong credentials.
Answer(l) ==
    /\ login[l].place = "ask"
    /\ \E life \in Lifetimes :
          /\ now + life <= LastTime
          /\ login' = [login EXCEPT ![l] =
                         IF life = 0 THEN NoLogin
                         ELSE [@ EXCEPT !.place = "store", !.expires = now + life]]
    /\ UNCHANGED <<now, configured, account, sessions, overtaken, crossed, logins, data,
                   everConfigured, restarts>>

Owners(email) == {i \in Ids : account[i].email = email}
Unused == {i \in Ids \ {LEGACY_ACCOUNT_ID} : account[i] = NoAccount}

\* Mutant of Targets: every login goes to the configured account.
TargetsLegacy(email) ==
    IF configured # NoEmail THEN {LEGACY_ACCOUNT_ID}
    ELSE IF Owners(email) # {} THEN Owners(email) ELSE Unused

\* Mutant of Targets: create in place of the second upsert.
TargetsNew(email) == IF configured = email THEN {LEGACY_ACCOUNT_ID} ELSE Unused

\* The row the upsert is about, which one of the two upserts finds or makes.
Targets(email) ==
    IF configured = email THEN {LEGACY_ACCOUNT_ID}
    ELSE IF Owners(email) # {} THEN Owners(email) ELSE Unused

\* The unique index on the email: the upsert by id would give a second row that email.
Conflict(email, i) == \E j \in Owners(email) : j # i

\* Mutant of AuthData: only a new account gets the expiry.
AuthDataOnce(l, i) ==
    [email |-> login[l].email,
     expires |-> IF account[i] = NoAccount THEN login[l].expires ELSE account[i].expires]

AuthData(l, i) == [email |-> login[l].email, expires |-> login[l].expires]

Store(l) ==
    /\ login[l].place = "store"
    /\ UNCHANGED <<now, configured, sessions, logins, data, everConfigured, restarts>>
    /\ \E i \in Targets(login[l].email) :
          /\ ~Conflict(login[l].email, i)
          /\ account' = [account EXCEPT ![i] = AuthData(l, i)]
          /\ login' = [login EXCEPT ![l].place = "sign", ![l].id = i]
          /\ crossed' = IF l \in overtaken THEN crossed \cup {i} ELSE crossed
          /\ overtaken' = overtaken \cup
                {k \in Logins \ {l} : login[k].place = "store" /\ i \in Targets(login[k].email)'}

Sign(l) ==
    /\ login[l].place = "sign"
    /\ sessions' = sessions \cup
          {[sub |-> login[l].id, email |-> login[l].email, exp |-> login[l].expires]}
    /\ login' = [login EXCEPT ![l] = NoLogin]
    /\ UNCHANGED <<now, configured, account, overtaken, crossed, logins, data, everConfigured,
                   restarts>>

\* The upstream refuses, or a query fails; among them the upsert of a Conflict.
Refuse(l) ==
    /\ login[l].place \in {"ask", "store"}
    /\ login' = [login EXCEPT ![l] = NoLogin]
    /\ UNCHANGED <<now, configured, account, sessions, overtaken, crossed, logins, data,
                   everConfigured, restarts>>

\* getEligibleAccountIds: the accounts a cron pass serves, and the ones that
\* getValidVinaphoneToken has a token of.
Eligible == {i \in Ids : account[i].expires > now}

----------------------------------------------------------------------------
(* Requests. *)

\* JwtStrategy.validate, and the interceptor that opens the context.
Enter(q) ==
    /\ request[q] = NoSession
    /\ \E s \in sessions : s.exp > now /\ request' = [request EXCEPT ![q] = s]
    /\ UNCHANGED <<now, auth, rows, by, writes, everConfigured, restarts>>

Leave(q) ==
    /\ request[q] # NoSession
    /\ request' = [request EXCEPT ![q] = NoSession]
    /\ UNCHANGED <<now, auth, rows, by, writes, everConfigured, restarts>>

\* Mutant of getCurrentAccountId: one variable for the process in place of a context
\* for each request.
getCurrentAccountIdShared(q) ==
    request[CHOOSE p \in Requests : request[p] # NoSession].sub

getCurrentAccountId(q) == request[q].sub

\* What the database makes of a where: the fields it gives, compound keys and OR.
Fields == {"accountId", "id", "code"}
Holds(args, n, r) ==
    \A f \in Fields : Append(n, f) \in DOMAIN args => rows[r][f] = args[Append(n, f)]
Selected(args) ==
    {r \in RowIds :
       /\ rows[r] # NoRow
       /\ Holds(args, <<"where">>, r)
       /\ \A c \in Compounds : Holds(args, <<"where", c>>, r)
       /\ LET any == {i \in Index : IsObject(args, <<"where", "OR", i>>)}
          IN  any # {} => \E i \in any : Holds(args, <<"where", "OR", i>>, r)}

\* The field f of a record the query writes.
Given(args, n, f, otherwise) ==
    IF Append(n, f) \in DOMAIN args THEN args[Append(n, f)] ELSE otherwise

\* The schema's default account is the legacy one.
Made(args, n, r) ==
    [accountId |-> Given(args, n, "accountId", LEGACY_ACCOUNT_ID), id |-> r,
     code |-> Given(args, n, "code", "x")]
Changed(args, n, r) ==
    [accountId |-> Given(args, n, "accountId", rows[r].accountId), id |-> r,
     code |-> Given(args, n, "code", rows[r].code)]

Create(args, n) ==
    {[rows EXCEPT ![r] = Made(args, n, r)] : r \in {x \in RowIds : rows[x] = NoRow}}
\* createMany with skipDuplicates, of the entries es: those that the unique index
\* refuses are left out.
CreateMany(args, es) ==
    {table \in {[r \in RowIds |-> IF f[r] = <<>> THEN rows[r] ELSE Made(args, f[r], r)] :
                  f \in {g \in [RowIds -> es \cup {<<>>}] :
                           \A r \in RowIds : rows[r] # NoRow => g[r] = <<>>}} :
       \A n \in es : \E r \in RowIds :
          /\ table[r].accountId = Made(args, n, r).accountId
          /\ table[r].code = Made(args, n, r).code}
Update(args, n) ==
    {[r \in RowIds |-> IF r \in Selected(args) THEN Changed(args, n, r) ELSE rows[r]]}

\* What the query c may leave in the table, with its arguments rewritten to args.  The
\* rewriting maps an array entry by entry, so that c has the keys of its entries.
Results(c, args) ==
    CASE c.op = "create" -> Create(args, <<"data">>)
      [] c.op = "createMany" -> CreateMany(args, Entries(c.args, <<"data">>))
      [] c.op = "updateMany" -> Update(args, <<"data">>)
      [] c.op = "deleteMany" ->
            {[r \in RowIds |-> IF r \in Selected(args) THEN NoRow ELSE rows[r]]}
      [] c.op = "upsert" -> IF Selected(args) # {} THEN Update(args, <<"update">>)
                          ELSE Create(args, <<"create">>)
      [] OTHER -> {rows}

\* The unique index on the account and the code.
Unique(table) ==
    \A r, x \in RowIds : r # x /\ table[r] # NoRow /\ table[x] # NoRow
        => <<table[r].accountId, table[r].code>> # <<table[x].accountId, table[x].code>>

\* A query as PrismaService sends it.
ScopedQueries == [i \in Ids |-> [c \in Queries |-> scopeTenantArgs(c.args, i)]]
Scoped(q, c) == ScopedQueries[getCurrentAccountId(q)][c]

Query(q) ==
    /\ request[q] # NoSession /\ writes < MaxWrites
    /\ \E c \in Queries :
          /\ rows' \in Results(c, Scoped(q, c))
          /\ rows' # rows /\ Unique(rows')
    /\ by' = [r \in RowIds |-> IF rows'[r] = NoRow THEN {}
                              ELSE IF rows'[r] # rows[r] THEN by[r] \cup {request[q].email}
                              ELSE by[r]]
    /\ writes' = writes + 1
    /\ UNCHANGED <<now, auth, request, everConfigured, restarts>>

----------------------------------------------------------------------------
Tick ==
    /\ now < LastTime /\ now' = now + 1
    /\ UNCHANGED <<auth, data, everConfigured, restarts>>

\* Logins and requests end with the process; the next one may be configured anew.
Restart ==
    /\ restarts < MaxRestarts /\ restarts' = restarts + 1
    /\ configured' \in {Normal[a] : a \in Addresses} \cup {NoEmail}
    /\ everConfigured' = everConfigured \cup {configured'}
    /\ login' = [l \in Logins |-> NoLogin]
    /\ request' = [q \in Requests |-> NoSession]
    /\ UNCHANGED <<now, account, sessions, overtaken, crossed, logins, rows, by, writes>>

Next ==
    \/ \E l \in Logins : Ask(l) \/ Answer(l) \/ Store(l) \/ Sign(l) \/ Refuse(l)
    \/ \E q \in Requests : Enter(q) \/ Query(q) \/ Leave(q)
    \/ Tick \/ Restart

Spec == Init /\ [][Next]_vars

----------------------------------------------------------------------------
(* What the holder of a session may rely on.                                *)

\* The rows from before there were accounts are shared by those who were configured
\* as the holder of the legacy account.
Sharers(s) ==
    {s.email} \cup
    (IF s.sub = LEGACY_ACCOUNT_ID /\ s.email \in everConfigured
     THEN everConfigured \cup {NoEmail} ELSE {})

OwnRowsOnly(q, c) ==
    \A r \in Selected(Scoped(q, c)) : by[r] \subseteq Sharers(request[q])

\* The conditions of a query that do not name an account.
OtherConditions ==
    [c \in Queries |->
        [p \in {x \in DOMAIN c.args : x[Len(x)] # "accountId"} |-> c.args[p]]]

OwnRowsFound(q, c) ==
    \A r \in Selected(OtherConditions[c]) :
       rows[r].accountId = request[q].sub => r \in Selected(Scoped(q, c))

\* Whatever account its arguments name, a query of a request finds no row that was
\* written by anybody but those who logged in with the email of its session, and
\* every row of its account that meets its other conditions: from the login's
\* upsert over the token and the context to the rewritten arguments.
OwnRows ==
    \A q \in Requests, c \in Queries : request[q] # NoSession /\ c.op \notin Creates
       => OwnRowsOnly(q, c) /\ OwnRowsFound(q, c)

\* A login with good credentials fails on the unique email only when the configured
\* email was changed to that of an account that exists already.
RefusedOnlyIfReconfigured ==
    \A l \in Logins : login[l].place = "store" =>
       \A i \in Targets(login[l].email) : Conflict(login[l].email, i) =>
          configured = login[l].email /\ everConfigured # {configured}

\* The account of a session that has not expired has a token that has not either, and
\* is served by the cron pass (README: the JWT expires with the token) - unless two
\* logins to the account overlapped and their tokens were stored out of order.  That
\* the upstream gives all tokens one life is assumed: Lifetimes has it, and 0.
SessionsServed ==
    \A s \in sessions : s.exp > now => s.sub \in Eligible \cup crossed

\* The tables of the accounts, and the accounts at work, as TenantTables has them.
TableOf ==
    [i \in Ids |-> {rows[r] : r \in {x \in RowIds : rows[x] # NoRow /\ rows[x].accountId = i}}]
AtWork == {request[q].sub : q \in {p \in Requests : request[p] # NoSession}}

Tables == INSTANCE TenantTables WITH
    Accounts <- Ids, Legacy <- LEGACY_ACCOUNT_ID, tables <- TableOf, atWork <- AtWork

\* What a request creates, changes or removes is in the account of its session, and a
\* row never changes hands: neither the arguments of a query, nor a default of the
\* schema, nor a request at work beside it, reach into another account.
TablesApart == Tables!Spec
=============================================================================
