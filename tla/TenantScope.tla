---------------------------- MODULE TenantScope -----------------------------
(***************************************************************************)
(* src/prisma/tenant-scope.ts: how the arguments of a query are rewritten  *)
(* before Prisma gets them, so that it stays within one account.           *)
(*                                                                         *)
(* Arguments are a tree, given as a function from the paths of its leaves  *)
(* to their values: {where: {id: x}} is [p \in {<<"where","id">>} |-> x].  *)
(* The entries of an array have the keys of Index; an object without keys  *)
(* is a leaf of its own, EmptyObject.  No recursion is needed: what        *)
(* becomes of a leaf depends on the keys of its path alone.                *)
(***************************************************************************)
EXTENDS Naturals, Sequences

CONSTANTS
    Index,          \* keys of array entries
    Compounds,      \* the compound keys of the schema, accountId_...
    EmptyObject,
    MaxDepth        \* bound: length of a path

ASSUME DepthAssumption == MaxDepth \in Nat \ {0}
ASSUME KeysAssumption == "OR" \notin Index \cup Compounds

Starts(p, q) == Len(p) <= Len(q) /\ SubSeq(q, 1, Len(p)) = p

HasOwn(args, key) == \E p \in DOMAIN args : p # <<>> /\ p[1] = key
IsObject(args, n) ==
    \E p \in DOMAIN args : Starts(n, p) /\ (p = n => args[p] = EmptyObject)

\* The objects a function that maps arrays is applied to at n.
Entries(args, n) ==
    IF \E i \in Index : \E p \in DOMAIN args : Starts(Append(n, i), p)
    THEN {m \in {Append(n, i) : i \in Index} : IsObject(args, m)}
    ELSE {m \in {n} : IsObject(args, m)}

\* How far `transform` goes down the path p: to the first where or connect.
Walked(p) ==
    {k \in 1..Len(p) : \A j \in 1..k : p[j] \in {"where", "connect"} => j = k}

\* `transform` leaves accountId out wherever it passes it.
Kept(p) == \A k \in Walked(p) : p[k] # "accountId"

\* Mutant of Filters: a query without a where is left alone.
FiltersGiven(args) ==
    UNION {Entries(args, SubSeq(x[1], 1, x[2])) :
             x \in {y \in (DOMAIN args) \X (1..MaxDepth) :
                      /\ Kept(y[1]) /\ y[2] \in Walked(y[1])
                      /\ y[1][y[2]] \in {"where", "connect"}}}

\* The objects `scopeWhere` is applied to; a query that writes no data gets a where.
Filters(args) ==
    (UNION {Entries(args, SubSeq(x[1], 1, x[2])) :
              x \in {y \in (DOMAIN args) \X (1..MaxDepth) :
                       /\ Kept(y[1]) /\ y[2] \in Walked(y[1])
                       /\ y[1][y[2]] \in {"where", "connect"}}})
       \cup (IF HasOwn(args, "data") THEN {} ELSE {<<"where">>})

\* Mutant of Records: data that is an array is not gone through.
RecordsWhole(args) ==
    {n \in {<<"data">>} : IsObject(args, n)}
       \cup (IF HasOwn(args, "where") /\ HasOwn(args, "create") /\ HasOwn(args, "update")
             THEN Entries(args, <<"create">>) \cup Entries(args, <<"update">>) ELSE {})

\* The objects `addAccountId` is applied to.
Records(args) ==
    Entries(args, <<"data">>)
       \cup (IF HasOwn(args, "where") /\ HasOwn(args, "create") /\ HasOwn(args, "update")
             THEN Entries(args, <<"create">>) \cup Entries(args, <<"update">>) ELSE {})

\* The compound keys of the filters.
CompoundKeys(args) ==
    {m \in {Append(x[1], x[2]) : x \in Filters(args) \X Compounds} : IsObject(args, m)}

\* The objects that get the account, whatever they say of it.
Stamped(args) == Filters(args) \cup CompoundKeys(args) \cup Records(args)

scopeTenantArgs(args, accountId) ==
    LET stamps == {Append(n, "accountId") : n \in Stamped(args)}
        kept == {p \in DOMAIN args : Kept(p)} \ Stamped(args)
    IN  [p \in kept \cup stamps |-> IF p \in stamps THEN accountId ELSE args[p]]
=============================================================================
