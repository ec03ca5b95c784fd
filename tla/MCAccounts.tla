----------------------------- MODULE MCAccounts -----------------------------
(* Accounts for TLC: queries of the forms the services use, with arguments   *)
(* that name no account, or another one.                                     *)
EXTENDS Accounts, TLC

CONSTANTS legacy, a1, a2, q1, q2, l1, l2, r1, r2, r3

Arguments(list) == [p \in {x[1] : x \in list} |-> (CHOOSE x \in list : x[1] = p)[2]]
Q(op, list) == [op |-> op, args |-> Arguments(list)]

Naming(i) == {
    Q("findUnique", {<<<<"where", "accountId_code", "accountId">>, i>>,
                     <<<<"where", "accountId_code", "code">>, "x">>}),
    Q("updateMany", {<<<<"where", "accountId">>, i>>, <<<<"data", "code">>, "y">>,
                     <<<<"data", "accountId">>, i>>}),
    Q("createMany", {<<<<"data", "0", "code">>, "x">>, <<<<"data", "1", "code">>, "y">>,
                     <<<<"data", "1", "accountId">>, i>>}),
    Q("upsert", {<<<<"where", "accountId_code", "accountId">>, i>>,
                 <<<<"where", "accountId_code", "code">>, "x">>,
                 <<<<"create", "code">>, "x">>, <<<<"create", "accountId">>, i>>,
                 <<<<"update", "code">>, "y">>, <<<<"update", "accountId">>, i>>})}

MCQueries == (UNION {Naming(i) : i \in Ids}) \cup {
    Q("findMany", {}),
    Q("findMany", {<<<<"where">>, EmptyObject>>, <<<<"include", "sims", "where">>, EmptyObject>>}),
    Q("findMany", {<<<<"where", "OR", "0", "code">>, "x">>, <<<<"where", "OR", "1", "code">>, "y">>}),
    Q("create", {<<<<"data", "code">>, "x">>}),
    Q("deleteMany", {<<<<"where", "code">>, "x">>})}

\* " Ann " and "ann" are one email.
CONSTANTS Ann, ann, Bob, bob
MCNormal == (Ann :> ann) @@ (ann :> ann) @@ (Bob :> bob) @@ (bob :> bob)

\* The two users are alike, and so are the accounts that logins make.
Swap == (Ann :> Bob) @@ (Bob :> Ann) @@ (ann :> bob) @@ (bob :> ann)
Same == {Swap} \cup Permutations(Ids \ {legacy}) \cup Permutations(Requests)
           \cup Permutations(Logins) \cup Permutations(RowIds)
=============================================================================
