------------------------ MODULE UpstreamPagesProofs -------------------------
(***************************************************************************)
(* Proofs about UpstreamPages, for any items, page size, attempts and      *)
(* changes of the upstream: how much a listing may lack, and when a loop   *)
(* gives up.                                                               *)
(***************************************************************************)
EXTENDS UpstreamPages, FunctionTheorems, FiniteSetTheorems, TLAPS

----------------------------------------------------------------------------
(* Ranks in a sorted listing S.                                            *)

RankIn(x, S) == Cardinality({y \in S : y <= x})

LEMMA RankType ==
    ASSUME NEW S, S \subseteq Nat, IsFiniteSet(S), NEW x \in Nat
    PROVE  /\ IsFiniteSet({y \in S : y <= x})
           /\ RankIn(x, S) \in Nat
  BY FS_Subset, FS_CardinalityType DEF RankIn

\* Greater items have greater ranks, so no two items have one rank.
LEMMA RankGrows ==
    ASSUME NEW S, S \subseteq Nat, IsFiniteSet(S), NEW x \in S, NEW y \in S, x < y
    PROVE  RankIn(x, S) < RankIn(y, S)
  <1> DEFINE X == {z \in S : z <= x}
             Y == {z \in S : z <= y}
  <1>0. x \in Nat /\ y \in Nat /\ S \subseteq Nat
    OBVIOUS
  <1>1. X \subseteq Y /\ y \in Y /\ y \notin X /\ IsFiniteSet(Y)
    <2>1. \A z \in Nat : (z <= x => z <= y) /\ y <= y /\ ~(y <= x)
      BY <1>0
    <2>3. X \subseteq Y /\ y \in Y /\ y \notin X
      BY <1>0, <2>1
    <2>2. IsFiniteSet(Y)
      BY <1>0, FS_Subset
    <2> QED
      BY <2>2, <2>3
  <1>2. Cardinality(X) <= Cardinality(Y) /\ (Cardinality(X) = Cardinality(Y) => X = Y)
    BY <1>1, FS_Subset
  <1>3. Cardinality(X) \in Nat /\ Cardinality(Y) \in Nat
    BY RankType DEF RankIn
  <1>4. Cardinality(X) # Cardinality(Y)
    BY <1>1, <1>2
  <1> HIDE DEF X, Y
  <1>5. Cardinality(X) < Cardinality(Y)
    BY <1>2, <1>3, <1>4
  <1> QED
    BY <1>5 DEF RankIn, X, Y

LEMMA RanksDiffer ==
    ASSUME NEW S, S \subseteq Nat, IsFiniteSet(S), NEW x \in S, NEW y \in S,
           RankIn(x, S) = RankIn(y, S)
    PROVE  x = y
  <1>1. RankIn(x, S) \in Nat /\ RankIn(y, S) \in Nat /\ x \in Nat /\ y \in Nat
    BY RankType
  <1>2. ~(x < y)
    <2> SUFFICES ASSUME x < y PROVE FALSE
      OBVIOUS
    <2>1. RankIn(x, S) < RankIn(y, S)
      BY RankGrows
    <2> QED
      BY <1>1, <2>1
  <1>3. ~(y < x)
    <2> SUFFICES ASSUME y < x PROVE FALSE
      OBVIOUS
    <2>1. RankIn(y, S) < RankIn(x, S)
      BY RankGrows
    <2> QED
      BY <1>1, <2>1
  <1> QED
    BY <1>1, <1>2, <1>3

LEMMA RankRange ==
    ASSUME NEW S, S \subseteq Nat, IsFiniteSet(S), NEW x \in S
    PROVE  RankIn(x, S) \in 1..Cardinality(S)
  <1> DEFINE X == {z \in S : z <= x}
  <1>1. x \in X /\ X \subseteq S /\ IsFiniteSet(X)
    <2>1. x \in X /\ X \subseteq S
      OBVIOUS
    <2>2. IsFiniteSet(X)
      BY FS_Subset
    <2> QED
      BY <2>1, <2>2
  <1>2. Cardinality(X) # 0
    BY <1>1, FS_EmptySet
  <1>3. Cardinality(X) <= Cardinality(S) /\ Cardinality(X) \in Nat /\ Cardinality(S) \in Nat
    BY <1>1, FS_Subset, FS_CardinalityType
  <1> HIDE DEF X
  <1>4. Cardinality(X) \in 1..Cardinality(S)
    BY <1>2, <1>3
  <1> QED
    BY <1>4 DEF RankIn, X

\* No stretch of n ranks has more than n items.
LEMMA StretchBounded ==
    ASSUME NEW S, S \subseteq Nat, IsFiniteSet(S), NEW from \in Nat, NEW n \in Nat
    PROVE  LET C == {x \in S : from < RankIn(x, S) /\ RankIn(x, S) <= from + n}
           IN  IsFiniteSet(C) /\ Cardinality(C) \in Nat /\ Cardinality(C) <= n
  <1> DEFINE C == {x \in S : from < RankIn(x, S) /\ RankIn(x, S) <= from + n}
             f == [x \in C |-> RankIn(x, S) - from]
  <1>0. \A x \in S : RankIn(x, S) \in Nat
    BY RankType
  <1>1. \A x \in C : f[x] \in 1..n
    BY <1>0
  <1>2. \A x, y \in C : f[x] = f[y] => x = y
    <2> SUFFICES ASSUME NEW x \in C, NEW y \in C, f[x] = f[y] PROVE x = y
      OBVIOUS
    <2>1. RankIn(x, S) = RankIn(y, S)
      BY <1>0
    <2> QED
      BY <2>1, RanksDiffer
  <1>3. f \in Injection(C, 1..n)
    <2>1. f \in [C -> 1..n]
      BY <1>1
    <2> HIDE DEF f
    <2> QED
      BY <1>2, <2>1, Fun_IsInj
  <1>4. IsFiniteSet(1..n) /\ Cardinality(1..n) = n
    BY FS_Interval
  <1> HIDE DEF f
  <1>5. IsFiniteSet(C) /\ Cardinality(C) <= Cardinality(1..n)
    BY <1>3, <1>4, FS_Injection
  <1> QED
    BY <1>4, <1>5, FS_CardinalityType

\* Every rank up to the length of the listing is somebody's.
LEMMA RankTaken ==
    ASSUME NEW S, S \subseteq Nat, IsFiniteSet(S), NEW i \in 1..Cardinality(S)
    PROVE  \E x \in S : RankIn(x, S) = i
  <1> DEFINE N == Cardinality(S)
             r == [x \in S |-> RankIn(x, S)]
  <1>1. N \in Nat
    BY FS_CardinalityType
  <1>2. IsFiniteSet(1..N) /\ Cardinality(1..N) = N
    BY <1>1, FS_Interval
  <1>3. r \in Injection(S, 1..N)
    <2>1. \A x \in S : r[x] \in 1..N
      BY RankRange
    <2>2. \A x, y \in S : r[x] = r[y] => x = y
      BY RanksDiffer
    <2>3. r \in [S -> 1..N]
      BY <2>1
    <2> HIDE DEF r
    <2> QED
      BY <2>2, <2>3, Fun_IsInj
  <1>4. r \in Surjection(S, 1..N)
    <2> HIDE DEF r
    <2> QED
      BY <1>2, <1>3, FS_Injection
  <1> QED
    BY <1>4 DEF Surjection

\* The first n ranks have n items, if there are as many.
LEMMA FirstFull ==
    ASSUME NEW S, S \subseteq Nat, IsFiniteSet(S), NEW n \in Nat, n <= Cardinality(S)
    PROVE  Cardinality({x \in S : RankIn(x, S) <= n}) = n
  <1> DEFINE C == {x \in S : RankIn(x, S) <= n}
             N == Cardinality(S)
  <1>1. N \in Nat
    BY FS_CardinalityType
  <1>5. \A i \in 1..N : \E x \in S : RankIn(x, S) = i
    BY RankTaken
  <1> DEFINE g == [i \in 1..n |-> CHOOSE x \in S : RankIn(x, S) = i]
  <1>6. \A i \in 1..n : g[i] \in S /\ RankIn(g[i], S) = i
    <2> SUFFICES ASSUME NEW i \in 1..n PROVE g[i] \in S /\ RankIn(g[i], S) = i
      OBVIOUS
    <2>1. \E x \in S : RankIn(x, S) = i
      BY <1>1, <1>5
    <2> QED
      BY <2>1
  <1>7. g \in Injection(1..n, C)
    <2> HIDE DEF C
    <2>1. \A i \in 1..n : g[i] \in C
      <3>1. \A i \in 1..n : RankIn(g[i], S) <= n
        BY <1>6
      <3> HIDE DEF g
      <3> QED
        BY <1>6, <3>1 DEF C
    <2>2. \A i, j \in 1..n : g[i] = g[j] => i = j
      <3> HIDE DEF g
      <3> QED
        BY <1>6
    <2>3. g \in [1..n -> C]
      BY <2>1
    <2> HIDE DEF g
    <2> QED
      BY <2>2, <2>3, Fun_IsInj
  <1>8. IsFiniteSet(C) /\ Cardinality(C) \in Nat
    BY FS_Subset, FS_CardinalityType
  <1>9. n <= Cardinality(C)
    <2> HIDE DEF g, C
    <2>1. Cardinality(1..n) <= Cardinality(C)
      BY <1>7, <1>8, FS_Injection
    <2>2. Cardinality(1..n) = n
      BY FS_Interval
    <2> QED
      BY <2>1, <2>2
  <1>10. Cardinality(C) <= n
    <2> DEFINE D == {x \in S : 0 < RankIn(x, S) /\ RankIn(x, S) <= 0 + n}
    <2>1. Cardinality(D) <= n
      BY StretchBounded
    <2>2. \A x \in S : RankIn(x, S) \in 1..N
      BY RankRange
    <2>3. \A x \in S : 0 < RankIn(x, S) /\ (RankIn(x, S) <= n <=> RankIn(x, S) <= 0 + n)
      BY <1>1, <2>2
    <2>4. C = D
      BY <2>3
    <2> QED
      BY <2>1, <2>4
  <1> QED
    BY <1>8, <1>9, <1>10

\* An item that is added only moves others down, one that leaves moves them up a
\* place at most.
LEMMA RankAfterAdd ==
    ASSUME NEW S, S \subseteq Nat, IsFiniteSet(S), NEW y \in Nat, NEW x \in Nat
    PROVE  RankIn(x, S) <= RankIn(x, S \cup {y})
  <1>1. IsFiniteSet(S \cup {y})
    BY FS_AddElement
  <1>2. IsFiniteSet({z \in S \cup {y} : z <= x})
    BY <1>1, FS_Subset
  <1>3. {z \in S : z <= x} \subseteq {z \in S \cup {y} : z <= x}
    OBVIOUS
  <1> QED
    BY <1>2, <1>3, FS_Subset DEF RankIn

LEMMA RankAfterDrop ==
    ASSUME NEW S, S \subseteq Nat, IsFiniteSet(S), NEW y \in S, NEW x \in Nat
    PROVE  RankIn(x, S) <= RankIn(x, S \ {y}) + 1
  <1> DEFINE X == {z \in S : z <= x}
             Y == {z \in S \ {y} : z <= x}
  <1>1. IsFiniteSet(Y) /\ Cardinality(Y) \in Nat
    BY FS_Subset, FS_CardinalityType
  <1>2. IsFiniteSet(Y \cup {y}) /\ Cardinality(Y \cup {y}) = Cardinality(Y) + 1
    BY <1>1, FS_AddElement
  <1>3. X \subseteq Y \cup {y}
    OBVIOUS
  <1>4. Cardinality(X) <= Cardinality(Y \cup {y})
    BY <1>2, <1>3, FS_Subset
  <1> QED
    BY <1>1, <1>2, <1>4 DEF RankIn

\* Of M, the items still asked for, those at the first b places: none more after an
\* item was added, and one more at most after an item left.
AtFirst(M, S, b) == {x \in M : RankIn(x, S) <= b}

LEMMA AddCost ==
    ASSUME NEW S, S \subseteq Nat, IsFiniteSet(S), NEW y \in Nat, NEW b \in Nat,
           NEW M, M \subseteq S
    PROVE  /\ IsFiniteSet(AtFirst(M, S, b)) /\ Cardinality(AtFirst(M, S, b)) \in Nat
           /\ Cardinality(AtFirst(M, S \cup {y}, b)) <= Cardinality(AtFirst(M, S, b))
  <1>1. IsFiniteSet(AtFirst(M, S, b)) /\ Cardinality(AtFirst(M, S, b)) \in Nat
    BY FS_Subset, FS_CardinalityType DEF AtFirst
  <1>2. \A x \in M : /\ RankIn(x, S) <= RankIn(x, S \cup {y})
                      /\ RankIn(x, S) \in Nat /\ RankIn(x, S \cup {y}) \in Nat
    <2> SUFFICES ASSUME NEW x \in M
                 PROVE  /\ RankIn(x, S) <= RankIn(x, S \cup {y})
                        /\ RankIn(x, S) \in Nat /\ RankIn(x, S \cup {y}) \in Nat
      OBVIOUS
    <2>1. x \in Nat /\ IsFiniteSet(S \cup {y}) /\ S \cup {y} \subseteq Nat
      BY FS_AddElement
    <2> QED
      BY <2>1, RankType, RankAfterAdd
  <1>3. AtFirst(M, S \cup {y}, b) \subseteq AtFirst(M, S, b)
    <2> SUFFICES ASSUME NEW x \in M, RankIn(x, S \cup {y}) <= b PROVE RankIn(x, S) <= b
      BY DEF AtFirst
    <2> QED
      BY <1>2
  <1> QED
    BY <1>1, <1>3, FS_Subset

LEMMA DropCost ==
    ASSUME NEW S, S \subseteq Nat, IsFiniteSet(S), NEW y \in S, NEW b \in Nat,
           NEW M, M \subseteq S
    PROVE  Cardinality(AtFirst(M \ {y}, S \ {y}, b)) <= Cardinality(AtFirst(M, S, b)) + 1
  <1> DEFINE Now == AtFirst(M, S, b)
             Then == AtFirst(M \ {y}, S \ {y}, b)
             On == {x \in S : RankIn(x, S) = b + 1}
  <1>1. IsFiniteSet(Now) /\ Cardinality(Now) \in Nat
    BY FS_Subset, FS_CardinalityType DEF AtFirst
  <1>2. \A x \in M \ {y} : /\ RankIn(x, S) <= RankIn(x, S \ {y}) + 1
                            /\ RankIn(x, S) \in Nat /\ RankIn(x, S \ {y}) \in Nat
    <2> SUFFICES ASSUME NEW x \in M \ {y}
                 PROVE  /\ RankIn(x, S) <= RankIn(x, S \ {y}) + 1
                        /\ RankIn(x, S) \in Nat /\ RankIn(x, S \ {y}) \in Nat
      OBVIOUS
    <2>1. x \in Nat /\ IsFiniteSet(S \ {y}) /\ S \ {y} \subseteq Nat
      BY FS_Subset
    <2> QED
      BY <2>1, RankType, RankAfterDrop
  <1>3. Then \subseteq Now \cup On
    <2> SUFFICES ASSUME NEW x \in Then PROVE x \in Now \/ x \in On
      OBVIOUS
    <2>1. x \in M \ {y} /\ RankIn(x, S \ {y}) <= b
      BY DEF AtFirst
    <2>2. RankIn(x, S) <= b \/ RankIn(x, S) = b + 1
      BY <1>2, <2>1
    <2> QED
      BY <2>1, <2>2 DEF AtFirst
  <1>4. CASE On = {}
    <2>1. Then \subseteq Now
      BY <1>3, <1>4
    <2>2. Cardinality(Then) <= Cardinality(Now) /\ Cardinality(Then) \in Nat
      BY <1>1, <2>1, FS_Subset, FS_CardinalityType
    <2> HIDE DEF Now, Then
    <2>3. Cardinality(Then) <= Cardinality(Now) + 1
      BY <1>1, <2>2
    <2> QED
      BY <2>3 DEF Now, Then
  <1>5. ASSUME NEW z \in On PROVE Cardinality(Then) <= Cardinality(Now) + 1
    <2>1. On = {z}
      BY RanksDiffer
    <2>2. Then \subseteq Now \cup {z}
      BY <1>3, <2>1
    <2> HIDE DEF Now, Then, On
    <2>3. /\ IsFiniteSet(Now \cup {z}) /\ Cardinality(Now \cup {z}) \in Nat
          /\ Cardinality(Now \cup {z}) <= Cardinality(Now) + 1
      <3>1. IsFiniteSet(Now \cup {z}) /\ Cardinality(Now \cup {z}) \in Nat
        BY <1>1, FS_AddElement, FS_CardinalityType
      <3>2. CASE z \in Now
        <4>1. Now \cup {z} = Now
          BY <3>2
        <4> QED
          BY <1>1, <3>1, <4>1
      <3>3. CASE z \notin Now
        <4>1. Cardinality(Now \cup {z}) = Cardinality(Now) + 1
          BY <1>1, <3>3, FS_AddElement
        <4> QED
          BY <1>1, <3>1, <4>1
      <3> QED
        BY <3>1, <3>2, <3>3
    <2>4. Cardinality(Then) <= Cardinality(Now \cup {z}) /\ Cardinality(Then) \in Nat
      BY <2>2, <2>3, FS_Subset, FS_CardinalityType
    <2> QED
      BY <1>1, <2>3, <2>4
  <1> QED
    BY <1>4, <1>5

----------------------------------------------------------------------------
(* Types, and what is counted along with them.                             *)

\* The attempts at a page are its refusals and the one under way; every item that
\* left was a change.
Counted ==
    /\ stage = "ask" => attempt = refusals + 1
    /\ stage = "save" => refusals = 0
    /\ drops <= changes

Types == TypeOK /\ Counted

USE ItemsAssumption, SizesAssumption, BoundsAssumption

LEMMA TypesInit ==
    ASSUME Init
    PROVE  Types
  <1>1. /\ upstream \subseteq Items /\ members \subseteq Items /\ fetched \subseteq Items
        /\ batch \subseteq Items /\ stayed \subseteq upstream
    BY DEF Init
  <1>0. more \in BOOLEAN
    BY DEF Init
  <1>2. /\ kind \in Kinds /\ stage \in Stages
        /\ page \in Nat /\ count \in Nat /\ attempt \in 1..MaxAttempts
        /\ drops \in 0..MaxChanges /\ refusals \in 0..MaxAttempts /\ changes \in 0..MaxChanges
    BY DEF Init, Kinds, Stages
  <1>3. stage = "idle" /\ Counted
    BY DEF Init, Counted
  <1> QED
    BY <1>0, <1>1, <1>2, <1>3 DEF Types, TypeOK

LEMMA ListingFinite ==
    ASSUME TypeOK
    PROVE  /\ upstream \subseteq Nat /\ IsFiniteSet(upstream) /\ Total \in Nat
           /\ \A p \in Nat : Content(p) \subseteq Items /\ Cardinality(Content(p)) \in Nat
  <1>1. upstream \subseteq Nat /\ IsFiniteSet(upstream)
    BY FS_Subset DEF TypeOK
  <1>2. \A p \in Nat : Content(p) \subseteq upstream
    BY DEF Content
  <1>3. \A p \in Nat : IsFiniteSet(Content(p))
    BY <1>1, <1>2, FS_Subset
  <1> QED
    BY <1>1, <1>2, <1>3, FS_CardinalityType DEF Total, TypeOK

LEMMA TurnTypes ==
    ASSUME TypeOK, NEW leave \in BOOLEAN, Turn(leave)
    PROVE  /\ stage' \in {"done", "ask"} /\ page' \in Nat /\ attempt' \in 1..MaxAttempts
           /\ stage' = "ask" => attempt' = 1
  BY DEF Turn, TypeOK

LEMMA AnswerTypes ==
    ASSUME Types, Answer
    PROVE  Types'
  <1> USE DEF Types
  <1>1. UNCHANGED <<upstream, kind, stayed, drops, changes>> /\ refusals' = 0 /\ stage = "ask"
    BY DEF Answer
  <1>2. page \in Nat /\ Content(page) \subseteq Items /\ Cardinality(Content(page)) \in Nat
    BY ListingFinite DEF TypeOK
  <1>3. CASE QuickSearchPage \/ DropdownPage
    <2>1. PICK leave \in BOOLEAN : Turn(leave)
      BY <1>3 DEF QuickSearchPage, DropdownPage
    <2>2. /\ stage' \in {"done", "ask"} /\ page' \in Nat /\ attempt' \in 1..MaxAttempts
          /\ stage' = "ask" => attempt' = 1
      BY <2>1, TurnTypes
    <2>3. fetched' \subseteq Items /\ count' \in Nat /\ UNCHANGED <<batch, more, members>>
      <3>1. Listed /\ UNCHANGED <<batch, more, members>>
        BY <1>3 DEF QuickSearchPage, DropdownPage
      <3>2. fetched \subseteq Items /\ count \in Nat
        BY DEF TypeOK
      <3>3. fetched' = fetched \cup Content(page) /\ count' = count + Cardinality(Content(page))
        BY <3>1 DEF Listed
      <3>4. fetched' \subseteq Items
        BY <1>2, <3>2, <3>3
      <3>5. \A i, j \in Nat : i + j \in Nat
        OBVIOUS
      <3>6. count' \in Nat
        BY <1>2, <3>2, <3>3, <3>5
      <3> QED
        BY <3>1, <3>4, <3>6
    <2> QED
      BY <1>1, <2>2, <2>3 DEF TypeOK, Counted, Stages
  <1>4. CASE MembersPage
    <2>1. UNCHANGED <<fetched, count, members>> /\ kind = "memberOfGr"
      BY <1>4 DEF MembersPage
    <2>0. PICK content \in Unsorted(page) :
             IF content = {} THEN Turn(TRUE) /\ UNCHANGED <<batch, more>>
             ELSE /\ stage' = "save" /\ batch' = content /\ more' = ~IsLast(page)
                  /\ UNCHANGED <<page, attempt>>
      BY <1>4 DEF MembersPage
    <2>2. CASE content = {}
      <3>1. Turn(TRUE) /\ UNCHANGED <<batch, more>>
        BY <2>0, <2>2
      <3>2. /\ stage' \in {"done", "ask"} /\ page' \in Nat /\ attempt' \in 1..MaxAttempts
            /\ stage' = "ask" => attempt' = 1
        BY <3>1, TurnTypes
      <3> QED
        BY <1>1, <2>1, <3>1, <3>2 DEF TypeOK, Counted, Stages
    <2>3. CASE content # {}
      <3>1. /\ stage' = "save" /\ batch' = content /\ more' \in BOOLEAN
            /\ UNCHANGED <<page, attempt>>
        BY <2>0, <2>3 DEF IsLast
      <3>2. content \subseteq Items
        BY DEF Unsorted, TypeOK
      <3> QED
        BY <1>1, <1>2, <2>1, <2>3, <3>1, <3>2 DEF TypeOK, Counted, Stages
    <2> QED
      BY <2>2, <2>3
  <1> QED
    BY <1>3, <1>4 DEF Answer

\* What the counter of refusals says of the attempts.
LEMMA RefusalsStep ==
    ASSUME Types, stage = "ask"
    PROVE  (refusals + 1) % (MaxAttempts + 1) = attempt
  <1>1. refusals \in Nat /\ attempt \in 1..MaxAttempts /\ attempt = refusals + 1
    BY DEF Types, TypeOK, Counted
  <1>2. \A m \in Nat : \A i \in 0..m : i % (m + 1) = i
    OBVIOUS
  <1> QED
    BY <1>1, <1>2

LEMMA RefuseTypes ==
    ASSUME Types, Refuse
    PROVE  Types'
  <1>1. PICK retryable \in BOOLEAN :
           /\ Retry(retryable)
           /\ refusals' = IF retryable THEN (refusals + 1) % (MaxAttempts + 1) ELSE 0
    BY DEF Refuse
  <1>2. stage = "ask"
        /\ UNCHANGED <<upstream, kind, page, fetched, count, batch, more, members, stayed,
                       drops, changes>>
    BY DEF Refuse
  <1>3. refusals' = IF retryable THEN attempt ELSE 0
    BY <1>1, <1>2, RefusalsStep
  <1> QED
    BY <1>1, <1>2, <1>3 DEF Types, TypeOK, Counted, Retry, Stages

LEMMA TypesStep ==
    ASSUME Types, [Next]_vars
    PROVE  Types'
  <1>1. CASE Begin
    <2>1. more' \in BOOLEAN
      BY <1>1 DEF Begin
    <2>2. /\ kind' \in Kinds /\ stage' = "ask" /\ page' = 0 /\ attempt' = 1 /\ fetched' = {}
          /\ count' = 0 /\ batch' = {} /\ stayed' = upstream /\ drops' = 0 /\ refusals' = 0
          /\ UNCHANGED <<upstream, members, changes>>
      BY <1>1 DEF Begin
    <2> QED
      BY <2>1, <2>2 DEF Types, TypeOK, Counted, Stages
  <1>2. CASE Answer
    BY <1>2, AnswerTypes
  <1>3. CASE Refuse
    BY <1>3, RefuseTypes
  <1>4. CASE SaveMember
    <2>1. UNCHANGED <<upstream, kind, fetched, count, more, stayed, drops, refusals, changes>>
      BY <1>4 DEF SaveMember
    <2>2. batch' \subseteq Items /\ members' \subseteq Items /\ stage = "save"
      BY <1>4 DEF SaveMember, Types, TypeOK
    <2>3. CASE batch' # {}
      BY <1>4, <2>1, <2>2, <2>3 DEF SaveMember, Types, TypeOK, Counted
    <2>4. CASE batch' = {}
      <3>1. Turn(~more)
        BY <1>4, <2>4 DEF SaveMember
      <3>2. /\ stage' \in {"done", "ask"} /\ page' \in Nat /\ attempt' \in 1..MaxAttempts
            /\ stage' = "ask" => attempt' = 1
        BY <3>1, TurnTypes DEF Types, TypeOK
      <3> QED
        BY <2>1, <2>2, <3>2 DEF Types, TypeOK, Counted, Stages
    <2> QED
      BY <2>3, <2>4
  <1>5. CASE SaveFails
    BY <1>5 DEF SaveFails, Types, TypeOK, Counted, Stages
  <1>6. CASE Add
    BY <1>6 DEF Add, Changes, loop, Types, TypeOK, Counted
  <1>7. CASE Drop
    BY <1>7 DEF Drop, Changes, loop, Types, TypeOK, Counted
  <1>8. CASE UNCHANGED vars
    BY <1>8 DEF vars, loop, Types, TypeOK, Counted
  <1> QED
    BY <1>1, <1>2, <1>3, <1>4, <1>5, <1>6, <1>7, <1>8 DEF Next, Step

\* Every state has the declared types, for any listing and upstream.
THEOREM TypeCorrect == Spec => []TypeOK
  <1>1. Spec => []Types
    BY TypesInit, TypesStep, PTL DEF Spec
  <1> QED
    BY <1>1, PTL DEF Types

----------------------------------------------------------------------------
(* Giving up.                                                              *)

\* A loop gives up on a page after a refusal that is final, or after MaxAttempts in
\* a row (withRetry), whatever it took to get the pages before.
THEOREM GivesUpCorrect == Spec => GivesUpLate
  <1>1. ASSUME Types, [Next]_vars, stage = "ask", stage' = "failed"
        PROVE  refusals' \in {0, MaxAttempts}
    <2>1. CASE Refuse
      <3>1. PICK retryable \in BOOLEAN :
               /\ Retry(retryable)
               /\ refusals' = IF retryable THEN (refusals + 1) % (MaxAttempts + 1) ELSE 0
        BY <2>1 DEF Refuse
      <3>2. retryable => attempt = MaxAttempts
        BY <1>1, <3>1 DEF Retry, Types, TypeOK
      <3> QED
        BY <1>1, <3>1, <3>2, RefusalsStep
    <2>2. CASE Answer
      BY <1>1, <2>2 DEF Answer, QuickSearchPage, DropdownPage, MembersPage, Turn
    <2> QED
      BY <1>1, <2>1, <2>2 DEF Next, Step, Begin, SaveMember, SaveFails, Add, Drop, loop, vars
  <1>2. Spec => []Types
    BY TypesInit, TypesStep, PTL DEF Spec
  <1>3. Types /\ [Next]_vars => [stage = "ask" /\ stage' = "failed"
                                   => refusals' \in {0, MaxAttempts}]_vars
    BY <1>1
  <1> QED
    BY <1>2, <1>3, PTL DEF Spec, GivesUpLate

----------------------------------------------------------------------------
(* What a listing may lack.                                                *)

\* The last page has been answered.
Through == stage = "done" \/ (stage = "save" /\ ~more)

\* The place up to which pages have been answered.
Reached == IF stage = "ask" THEN PageSize * page ELSE PageSize * (page + 1)

\* The items that the sorted pages answered so far should have held, and that are
\* missing.
Missed == IF Through THEN stayed \ fetched ELSE AtFirst(stayed \ fetched, upstream, Reached)

\* No more are missing than have left.
MissesFew ==
    kind = "quickSearch" /\ stage \in {"ask", "done"} => Cardinality(Missed) <= drops

\* quickSearch counts no more than its pages have places, so that it only reaches
\* the total at the last page.
CountsFew == kind = "quickSearch" /\ stage = "ask" => count <= PageSize * page

\* A dropdown list has no second page.
FirstPageOnly ==
    kind = "dropdown" =>
        /\ stage = "ask" => page = 0 /\ fetched = {} /\ count = 0
        /\ stage = "done" =>
              \A x \in stayed \ fetched : Cardinality({y \in fetched : y < x}) = PageSize

NothingUnsaved == stage \in {"ask", "done"} => batch = {}

\* A group whose first page is the last is there, or about to be saved.
OnePageWhole ==
    kind = "memberOfGr" /\ page = 0 /\ Through => stayed \subseteq members \cup batch

ListingKept == MissesFew /\ CountsFew /\ FirstPageOnly /\ NothingUnsaved /\ OnePageWhole

LEMMA Places ==
    ASSUME TypeOK
    PROVE  /\ PageSize * page \in Nat /\ PageSize * (page + 1) = PageSize * page + PageSize
           /\ PageSize * (page + 1) \in Nat
           /\ \A x \in upstream : Rank(x) = RankIn(x, upstream) /\ Rank(x) \in 1..Total
           /\ Cardinality(Content(page)) <= PageSize
  <1>1. page \in Nat /\ upstream \subseteq Nat /\ IsFiniteSet(upstream) /\ Total \in Nat
    BY ListingFinite DEF TypeOK
  <1>2. \A m, n \in Nat : m * n \in Nat /\ m * (n + 1) = m * n + m /\ m * n + m \in Nat
    OBVIOUS
  <1>3. /\ PageSize * page \in Nat /\ PageSize * (page + 1) = PageSize * page + PageSize
        /\ PageSize * (page + 1) \in Nat
    BY <1>1, <1>2
  <1>4. \A x \in upstream : Rank(x) = RankIn(x, upstream) /\ Rank(x) \in 1..Total
    BY <1>1, RankRange DEF Rank, RankIn, Total
  <1> DEFINE C == {x \in upstream : /\ PageSize * page < RankIn(x, upstream)
                                    /\ RankIn(x, upstream) <= PageSize * page + PageSize}
  <1>5. Cardinality(C) <= PageSize
    <2> PageSize \in Nat
      OBVIOUS
    <2> QED
      BY <1>1, <1>3, StretchBounded
  <1>6. C = Content(page)
    BY <1>3, <1>4 DEF Content
  <1> QED
    BY <1>3, <1>4, <1>5, <1>6

\* With its page added a listing lacks no more of M than before, up to the end of
\* the page, and of all if it was the last.
LEMMA PageCovers ==
    ASSUME TypeOK, NEW M, M \subseteq upstream
    PROVE  /\ AtFirst(M \ Content(page), upstream, PageSize * (page + 1))
                 \subseteq AtFirst(M, upstream, PageSize * page)
           /\ IsLast(page) => M \ Content(page) \subseteq AtFirst(M, upstream, PageSize * page)
  <1>1. \A x \in M : RankIn(x, upstream) <= PageSize * (page + 1)
           => x \in Content(page) \/ RankIn(x, upstream) <= PageSize * page
    BY Places DEF Content
  <1>2. IsLast(page) => \A x \in M : RankIn(x, upstream) <= PageSize * (page + 1)
    BY Places, ListingFinite DEF IsLast
  <1> QED
    BY <1>1, <1>2 DEF AtFirst

LEMMA FewerMissed ==
    ASSUME NEW N, IsFiniteSet(N), NEW M, M \subseteq N, NEW d \in Nat, Cardinality(N) <= d
    PROVE  Cardinality(M) <= d /\ IsFiniteSet(M) /\ Cardinality(M) \in Nat
  <1>1. IsFiniteSet(M) /\ Cardinality(M) <= Cardinality(N)
    BY FS_Subset
  <1>2. Cardinality(M) \in Nat /\ Cardinality(N) \in Nat
    BY <1>1, FS_CardinalityType
  <1> QED
    BY <1>1, <1>2

LEMMA MissedFinite ==
    ASSUME TypeOK
    PROVE  /\ IsFiniteSet(Missed) /\ Missed \subseteq upstream
           /\ \A b : IsFiniteSet(AtFirst(stayed \ fetched, upstream, b))
           /\ drops \in Nat
  <1>1. Missed \subseteq upstream /\ drops \in Nat
    <2>1. stayed \ fetched \subseteq upstream /\ drops \in Nat
      <3>1. stayed \subseteq upstream /\ drops \in 0..MaxChanges
        BY DEF TypeOK
      <3> QED
        BY <3>1
    <2>2. AtFirst(stayed \ fetched, upstream, Reached) \subseteq stayed \ fetched
      BY DEF AtFirst
    <2>3. Missed \subseteq stayed \ fetched
      BY <2>2 DEF Missed
    <2> QED
      BY <2>1, <2>3
  <1>2. \A b : AtFirst(stayed \ fetched, upstream, b) \subseteq upstream
    BY DEF TypeOK, AtFirst
  <1> QED
    BY <1>1, <1>2, ListingFinite, FS_Subset

\* The set of what is missing goes from what the page before left to what this
\* page leaves.
LEMMA QuickSearchKeeps ==
    ASSUME Types, ListingKept, stage = "ask", QuickSearchPage,
           UNCHANGED <<upstream, stayed, drops>>, UNCHANGED kind
    PROVE  ListingKept'
  <1> DEFINE M == stayed \ fetched
             N == AtFirst(M, upstream, PageSize * page)
  <1>1. TypeOK /\ kind = "quickSearch" /\ kind' = kind
    BY DEF Types, QuickSearchPage
  <1>2. M \subseteq upstream /\ stayed \ fetched' = M \ Content(page)
    BY <1>1 DEF QuickSearchPage, Listed, TypeOK
  <1>3. Missed = N
    BY <1>1 DEF Missed, Through, Reached
  <1>4. Cardinality(N) <= drops /\ IsFiniteSet(N) /\ drops \in Nat
    BY <1>1, <1>3, MissedFinite DEF ListingKept, MissesFew
  <1>5. count' \in Nat /\ count' <= PageSize * (page + 1)
    <2>1. count <= PageSize * page /\ count \in Nat /\ PageSize \in Nat
      BY <1>1 DEF ListingKept, CountsFew, TypeOK
    <2>2. count' = count + Cardinality(Content(page)) /\ page \in Nat
      BY <1>1 DEF QuickSearchPage, Listed, TypeOK
    <2>3. Cardinality(Content(page)) \in Nat
      BY <1>1, <2>2, ListingFinite
    <2> QED
      BY <1>1, <2>1, <2>2, <2>3, Places
  <1>6. CASE IsLast(page) \/ Enough(count')
    <2>1. IsLast(page)
      BY <1>1, <1>5, <1>6, Places, ListingFinite DEF IsLast, Enough
    <2>2. stage' = "done" /\ UNCHANGED batch
      BY <1>6 DEF QuickSearchPage, Turn
    <2>3. Missed' = M \ Content(page)
      BY <1>2, <1>3, <2>2 DEF Missed, Through
    <2>4. Cardinality(M \ Content(page)) <= drops
      <3>1. M \ Content(page) \subseteq N
        BY <1>1, <1>2, <2>1, PageCovers
      <3> QED
        BY <1>4, <3>1, FewerMissed
    <2> QED
      BY <1>1, <2>2, <2>3, <2>4
         DEF ListingKept, MissesFew, CountsFew, FirstPageOnly, NothingUnsaved,
             OnePageWhole, Through
  <1>7. CASE ~(IsLast(page) \/ Enough(count'))
    <2>1. stage' = "ask" /\ page' = page + 1 /\ UNCHANGED batch
      BY <1>7 DEF QuickSearchPage, Turn
    <2>2. Missed' = AtFirst(M \ Content(page), upstream, PageSize * (page + 1))
      BY <1>2, <1>3, <2>1 DEF Missed, Through, Reached, AtFirst
    <2>3. Cardinality(Missed') <= drops
      <3>1. Missed' \subseteq N
        BY <1>1, <1>2, <2>2, PageCovers
      <3> QED
        BY <1>4, <3>1, FewerMissed
    <2> QED
      BY <1>1, <1>5, <2>1, <2>3
         DEF ListingKept, MissesFew, CountsFew, FirstPageOnly, NothingUnsaved,
             OnePageWhole, Through
  <1> QED
    BY <1>6, <1>7

\* An only page holds the whole listing, in whatever order.
LEMMA OnlyPage ==
    ASSUME TypeOK, page = 0, NEW content \in Unsorted(page), content = {} \/ IsLast(page)
    PROVE  content = upstream
  <1>1. /\ PageSize * page = 0 /\ PageSize * (page + 1) = PageSize /\ PageSize \in Nat \ {0}
        /\ upstream \subseteq Nat /\ IsFiniteSet(upstream) /\ Total \in Nat
    <2>1. \A m \in Nat : m * 0 = 0 /\ m * (0 + 1) = m
      OBVIOUS
    <2> QED
      BY <2>1, ListingFinite
  <1>2. \A x \in upstream : Rank(x) \in 1..Total
    BY Places
  <1>3. content \subseteq upstream /\ Cardinality(content) = Cardinality(Content(page))
    BY DEF Unsorted
  <1>4. CASE IsLast(page)
    <2>1. Total <= PageSize
      BY <1>1, <1>4 DEF IsLast
    <2>2. \A x \in upstream : PageSize * page < Rank(x) /\ Rank(x) <= PageSize * (page + 1)
      BY <1>1, <1>2, <2>1
    <2>3. Content(page) = upstream
      BY <2>2 DEF Content
    <2> QED
      BY <1>1, <1>3, <2>3, FS_Subset
  <1>5. CASE content = {}
    <2> SUFFICES ASSUME NEW z \in upstream PROVE FALSE
      BY <1>5
    <2>1. 1 \in 1..Total
      BY <1>1, <1>2
    <2>2. PICK x \in upstream : RankIn(x, upstream) = 1
      BY <1>1, <2>1, RankTaken DEF Total
    <2>3. Rank(x) = 1
      BY <2>2, Places
    <2>4. x \in Content(page)
      BY <1>1, <2>3 DEF Content
    <2>5. IsFiniteSet(Content(page)) /\ Cardinality(Content(page)) = 0
      <3>1. Content(page) \subseteq upstream
        BY DEF Content
      <3> QED
        BY <1>1, <1>3, <1>5, <3>1, FS_Subset, FS_EmptySet
    <2> QED
      BY <2>4, <2>5, FS_EmptySet
  <1> QED
    BY <1>4, <1>5

LEMMA MembersPageKeeps ==
    ASSUME Types, ListingKept, stage = "ask", MembersPage,
           UNCHANGED <<upstream, stayed, drops>>, UNCHANGED kind
    PROVE  ListingKept'
  <1>1. /\ TypeOK /\ kind = "memberOfGr" /\ kind' = kind /\ batch = {} /\ members' = members
        /\ stayed \subseteq upstream
    BY DEF Types, TypeOK, MembersPage, ListingKept, NothingUnsaved
  <1>2. PICK content \in Unsorted(page) :
           IF content = {} THEN Turn(TRUE) /\ UNCHANGED <<batch, more>>
           ELSE /\ stage' = "save" /\ batch' = content /\ more' = ~IsLast(page)
                /\ UNCHANGED <<page, attempt>>
    BY DEF MembersPage
  <1>3. page' = page /\ batch' = content
    BY <1>1, <1>2 DEF Turn
  <1>4. stage' = "done" => batch' = {} /\ content = {}
    BY <1>1, <1>2
  <1>5. stage' \in {"save", "done"}
    BY <1>2 DEF Turn
  <1>6. OnePageWhole'
    <2> SUFFICES ASSUME Through', page = 0 PROVE stayed \subseteq batch'
      BY <1>1, <1>3 DEF OnePageWhole
    <2>1. content = {} \/ IsLast(page)
      BY <1>2, <1>4 DEF Through
    <2> QED
      BY <1>1, <1>3, <2>1, OnlyPage
  <1> QED
    BY <1>1, <1>4, <1>5, <1>6
       DEF ListingKept, MissesFew, CountsFew, FirstPageOnly, NothingUnsaved

\* What comes after a full first page comes after all of its items.
LEMMA FirstPage ==
    ASSUME TypeOK, page = 0
    PROVE  /\ ~IsLast(page) => Cardinality(Content(page)) = PageSize
           /\ \A x \in upstream \ Content(page) : {y \in Content(page) : y < x} = Content(page)
  <1>1. /\ PageSize * page = 0 /\ PageSize * (page + 1) = PageSize /\ PageSize \in Nat
        /\ upstream \subseteq Nat /\ IsFiniteSet(upstream) /\ Total \in Nat
    <2>1. PageSize \in Nat
      OBVIOUS
    <2>2. \A m \in Nat : m * 0 = 0 /\ m * (0 + 1) = m
      OBVIOUS
    <2> QED
      BY <2>1, <2>2, ListingFinite
  <1>2. \A x \in upstream : RankIn(x, upstream) = Rank(x) /\ Rank(x) \in 1..Total
    BY Places
  <1>3. Content(page) = {x \in upstream : RankIn(x, upstream) <= PageSize}
    <2>1. \A x \in upstream : 0 < Rank(x)
      BY <1>1, <1>2
    <2>2. Content(page) = {x \in upstream : 0 < Rank(x) /\ Rank(x) <= PageSize}
      BY <1>1 DEF Content
    <2> QED
      BY <1>2, <2>1, <2>2
  <1>4. ASSUME ~IsLast(page) PROVE Cardinality(Content(page)) = PageSize
    <2>1. PageSize <= Cardinality(upstream)
      BY <1>1, <1>4 DEF IsLast, Total
    <2> QED
      BY <1>1, <1>3, <2>1, FirstFull
  <1>5. ASSUME NEW x \in upstream \ Content(page), NEW y \in Content(page) PROVE y < x
    <2>1. x \in Nat /\ y \in Nat /\ x # y /\ y \in upstream
      BY <1>1, <1>3, <1>5
    <2>2. RankIn(y, upstream) < RankIn(x, upstream)
      <3>1. RankIn(y, upstream) <= PageSize /\ ~(RankIn(x, upstream) <= PageSize)
        BY <1>3, <1>5
      <3>2. RankIn(y, upstream) \in Nat /\ RankIn(x, upstream) \in Nat
        BY <1>1, <2>1, RankType
      <3> QED
        BY <1>1, <3>1, <3>2
    <2>3. ASSUME x < y PROVE FALSE
      <3>1. RankIn(x, upstream) < RankIn(y, upstream)
        BY <1>1, <1>5, <2>1, <2>3, RankGrows
      <3> QED
        BY <1>1, <1>2, <2>1, <2>2, <3>1
    <2> QED
      BY <2>1, <2>3
  <1> QED
    BY <1>4, <1>5

LEMMA DropdownKeeps ==
    ASSUME Types, ListingKept, stage = "ask", DropdownPage,
           UNCHANGED <<upstream, stayed, drops>>, UNCHANGED kind
    PROVE  ListingKept'
  <1>1. TypeOK /\ kind = "dropdown" /\ kind' = kind /\ page = 0 /\ fetched = {} /\ count = 0
    BY DEF Types, DropdownPage, ListingKept, FirstPageOnly
  <1>2. /\ fetched' = Content(page) /\ count' = Cardinality(Content(page))
        /\ Cardinality(Content(page)) \in Nat
    <2>1. fetched' = Content(page) /\ count' = 0 + Cardinality(Content(page))
      BY <1>1 DEF DropdownPage, Listed
    <2>2. page \in Nat
      BY <1>1
    <2>3. Cardinality(Content(page)) \in Nat
      BY <1>1, <2>2, ListingFinite
    <2>4. \A i \in Nat : 0 + i = i
      OBVIOUS
    <2> QED
      BY <2>1, <2>3, <2>4
  <1>3. PageSize * (page + 1) = PageSize
    <2>1. \A m \in Nat : m * (0 + 1) = m
      OBVIOUS
    <2> QED
      BY <1>1, <2>1
  <1>4. IsLast(page) \/ count' >= PageSize * (page + 1)
    BY <1>1, <1>2, <1>3, FirstPage
  <1>5. stage' = "done" /\ UNCHANGED batch
    BY <1>4 DEF DropdownPage, Turn
  <1>6. ASSUME NEW x \in stayed' \ fetched'
        PROVE  Cardinality({y \in fetched' : y < x}) = PageSize
    <2>1. x \in upstream \ Content(page)
      BY <1>1, <1>2, <1>6 DEF TypeOK
    <2>2. ~IsLast(page)
      <3> SUFFICES ASSUME IsLast(page) PROVE FALSE
        OBVIOUS
      <3>1. Rank(x) \in 1..Total /\ Total \in Nat /\ Total <= PageSize
        BY <1>1, <1>3, <2>1, Places, ListingFinite DEF IsLast
      <3>2. PageSize * page = 0
        <4>1. \A m \in Nat : m * 0 = 0
          OBVIOUS
        <4> QED
          BY <1>1, <4>1
      <3>3. PageSize * page < Rank(x) /\ Rank(x) <= PageSize * (page + 1)
        BY <1>3, <3>1, <3>2
      <3> QED
        BY <2>1, <3>3 DEF Content
    <2> QED
      BY <1>1, <1>2, <2>1, <2>2, FirstPage
  <1> QED
    BY <1>1, <1>5, <1>6
       DEF ListingKept, MissesFew, CountsFew, FirstPageOnly, NothingUnsaved,
           OnePageWhole, Through

LEMMA SaveKeeps ==
    ASSUME Types, ListingKept, SaveMember
    PROVE  ListingKept'
  <1>1. stage = "save" /\ kind = "memberOfGr" /\ page \in Nat
    BY DEF Types, TypeOK, SaveMember
  <1>2. /\ UNCHANGED <<upstream, kind, fetched, count, more, stayed, drops>>
        /\ members' \cup batch' = members \cup batch
    BY DEF SaveMember
  <1>3. stage' \in {"ask", "done"} => batch' = {}
    BY <1>1 DEF SaveMember
  <1>4. OnePageWhole'
    <2> SUFFICES ASSUME Through', page' = 0 PROVE Through /\ page = 0
      BY <1>1, <1>2 DEF OnePageWhole, ListingKept
    <2>1. CASE batch' # {}
      BY <1>1, <1>2, <2>1 DEF SaveMember, Through
    <2>2. CASE batch' = {}
      BY <1>1, <2>2 DEF SaveMember, Turn, Through
    <2> QED
      BY <2>1, <2>2
  <1> QED
    BY <1>1, <1>2, <1>3, <1>4
       DEF ListingKept, MissesFew, CountsFew, FirstPageOnly, NothingUnsaved

\* What is reached is a number of places.
LEMMA ReachedType ==
    ASSUME TypeOK
    PROVE  Reached \in Nat
  BY Places DEF Reached

LEMMA AddKeeps ==
    ASSUME Types, ListingKept, Add
    PROVE  ListingKept'
  <1>1. TypeOK /\ UNCHANGED <<loop, members, stayed, drops>>
    BY DEF Types, Add
  <1>2. PICK x \in Items \ upstream : upstream' = upstream \cup {x}
    BY DEF Add
  <1>3. /\ (Through' <=> Through) /\ Reached' = Reached
        /\ UNCHANGED <<kind, stage, count, page, fetched, batch, members, stayed, drops>>
    BY <1>1 DEF Through, Reached, loop
  <1>4. Cardinality(Missed) <= drops => Cardinality(Missed') <= drops
    <2>1. CASE Through
      BY <1>3, <2>1 DEF Missed
    <2>2. CASE ~Through
      <3>1. Missed' = AtFirst(stayed \ fetched, upstream \cup {x}, Reached)
        BY <1>2, <1>3, <2>2 DEF Missed
      <3>2. Missed = AtFirst(stayed \ fetched, upstream, Reached)
        BY <2>2 DEF Missed
      <3>3. stayed \ fetched \subseteq upstream /\ x \in Nat
        BY <1>1, <1>2 DEF TypeOK
      <3>4. Cardinality(Missed') <= Cardinality(Missed) /\ Cardinality(Missed) \in Nat
        BY <1>1, <3>1, <3>2, <3>3, ListingFinite, ReachedType, AddCost
      <3>5. IsFiniteSet(Missed')
        <4>1. IsFiniteSet(upstream \cup {x})
          BY <1>1, ListingFinite, FS_AddElement
        <4> QED
          BY <3>1, <3>3, <4>1, FS_Subset DEF AtFirst
      <3> QED
        BY <1>1, <3>4, <3>5, FS_CardinalityType, MissedFinite
    <2> QED
      BY <2>1, <2>2
  <1> QED
    BY <1>3, <1>4 DEF ListingKept, MissesFew, CountsFew, FirstPageOnly, NothingUnsaved,
       OnePageWhole

LEMMA DropKeeps ==
    ASSUME Types, ListingKept, Drop
    PROVE  ListingKept'
  <1>1. TypeOK /\ UNCHANGED <<loop, members>> /\ drops' = drops + 1 /\ drops \in Nat
    BY MissedFinite DEF Types, Drop
  <1>2. PICK x \in upstream : upstream' = upstream \ {x} /\ stayed' = stayed \ {x}
    BY DEF Drop
  <1>3. /\ (Through' <=> Through) /\ Reached' = Reached
        /\ UNCHANGED <<kind, stage, count, page, fetched, batch, members>>
    BY <1>1 DEF Through, Reached, loop
  <1>4. Cardinality(Missed) <= drops => Cardinality(Missed') <= drops + 1
    <2> SUFFICES ASSUME Cardinality(Missed) <= drops
                 PROVE  Cardinality(Missed') <= drops + 1
      OBVIOUS
    <2>1. CASE Through
      <3>1. Missed' \subseteq Missed
        BY <1>2, <1>3, <2>1 DEF Missed
      <3>2. Cardinality(Missed') <= drops /\ Cardinality(Missed') \in Nat
        BY <1>1, <3>1, MissedFinite, FewerMissed
      <3> QED
        BY <1>1, <3>2
    <2>2. CASE ~Through
      <3>1. Missed' = AtFirst((stayed \ fetched) \ {x}, upstream \ {x}, Reached)
        <4>1. stayed' \ fetched' = (stayed \ fetched) \ {x}
          BY <1>2, <1>3
        <4> QED
          BY <1>2, <1>3, <2>2, <4>1 DEF Missed
      <3>2. Missed = AtFirst(stayed \ fetched, upstream, Reached)
        BY <2>2 DEF Missed
      <3>3. stayed \ fetched \subseteq upstream
        BY <1>1 DEF TypeOK
      <3>4. Cardinality(Missed') <= Cardinality(Missed) + 1
        BY <1>1, <3>1, <3>2, <3>3, ListingFinite, ReachedType, DropCost
      <3>5. Missed' \subseteq upstream /\ IsFiniteSet(upstream)
        BY <1>1, <3>1, <3>3, ListingFinite DEF AtFirst
      <3>6. Cardinality(Missed') \in Nat /\ Cardinality(Missed) \in Nat
        BY <1>1, <3>5, FS_Subset, FS_CardinalityType, MissedFinite
      <3> QED
        BY <1>1, <3>4, <3>6
    <2> QED
      BY <2>1, <2>2
  <1>5. stayed' \ fetched' \subseteq stayed \ fetched /\ stayed' \subseteq stayed
    BY <1>2, <1>3
  <1>6. MissesFew'
    BY <1>1, <1>3, <1>4 DEF ListingKept, MissesFew
  <1>7. CountsFew' /\ FirstPageOnly' /\ NothingUnsaved'
    BY <1>3, <1>5 DEF ListingKept, CountsFew, FirstPageOnly, NothingUnsaved
  <1>8. OnePageWhole'
    BY <1>3, <1>5 DEF ListingKept, OnePageWhole
  <1> QED
    BY <1>6, <1>7, <1>8 DEF ListingKept

LEMMA BeginKeeps ==
    ASSUME Types, Begin
    PROVE  ListingKept'
  <1>1. /\ stage' = "ask" /\ page' = 0 /\ fetched' = {} /\ count' = 0 /\ batch' = {}
        /\ drops' = 0 /\ UNCHANGED upstream /\ stayed' = upstream
    BY DEF Begin
  <1>2. PageSize * 0 = 0
    OBVIOUS
  <1>3. Missed' = {}
    <2>1. Missed' = AtFirst(upstream \ fetched', upstream, 0)
      BY <1>1, <1>2 DEF Missed, Through, Reached
    <2>2. \A x \in upstream : ~(RankIn(x, upstream) <= 0)
      BY Places, ListingFinite DEF Types
    <2> QED
      BY <2>1, <2>2 DEF AtFirst
  <1>4. Cardinality(Missed') = 0
    BY <1>3, FS_EmptySet
  <1> QED
    BY <1>1, <1>2, <1>4
       DEF ListingKept, MissesFew, CountsFew, FirstPageOnly, NothingUnsaved,
           OnePageWhole, Through

LEMMA ListingStep ==
    ASSUME Types, ListingKept, [Next]_vars
    PROVE  ListingKept'
  <1>1. CASE Begin
    BY <1>1, BeginKeeps
  <1>2. CASE Answer
    BY <1>2, QuickSearchKeeps, DropdownKeeps, MembersPageKeeps DEF Answer
  <1>3. CASE Refuse
    <2>1. UNCHANGED <<upstream, kind, page, fetched, count, batch, more, members, stayed, drops>>
          /\ stage = "ask" /\ stage' \in {"ask", "failed"}
      BY <1>3 DEF Refuse, Retry
    <2>2. CASE stage' = "ask"
      <3>1. Missed' = Missed
        BY <2>1, <2>2 DEF Missed, Through, Reached
      <3> QED
        BY <2>1, <2>2, <3>1
           DEF ListingKept, MissesFew, CountsFew, FirstPageOnly, NothingUnsaved,
             OnePageWhole, Through
    <2>3. CASE stage' = "failed"
      BY <2>3 DEF ListingKept, MissesFew, CountsFew, FirstPageOnly, NothingUnsaved,
       OnePageWhole, Through
    <2> QED
      BY <2>1, <2>2, <2>3
  <1>4. CASE SaveMember
    BY <1>4, SaveKeeps
  <1>5. CASE SaveFails
    BY <1>5 DEF SaveFails, ListingKept, MissesFew, CountsFew, FirstPageOnly, NothingUnsaved,
       OnePageWhole, Through
  <1>6. CASE Add
    BY <1>6, AddKeeps
  <1>7. CASE Drop
    BY <1>7, DropKeeps
  <1>8. CASE UNCHANGED vars
    <2>1. Missed' = Missed
      BY <1>8 DEF Missed, Through, Reached, vars, loop
    <2> QED
      BY <1>8, <2>1
         DEF ListingKept, MissesFew, CountsFew, FirstPageOnly, NothingUnsaved,
            OnePageWhole, Through, vars, loop
  <1> QED
    BY <1>1, <1>2, <1>3, <1>4, <1>5, <1>6, <1>7, <1>8 DEF Next, Step

\* However the upstream changes between the questions, a listing that is through
\* lacks at most one item for each that left meanwhile, and none for those that
\* were added; a dropdown list ends with its first page, and a group of one page is
\* in the table.
THEOREM ListingCorrect == Spec => []ListingComplete
  <1>1. Init => ListingKept
    BY DEF Init, ListingKept, MissesFew, CountsFew, FirstPageOnly, NothingUnsaved,
       OnePageWhole, Through
  <1>2. Spec => [](Types /\ ListingKept)
    BY <1>1, TypesInit, TypesStep, ListingStep, PTL DEF Spec
  <1>3. Types /\ ListingKept => ListingComplete
    <2> SUFFICES ASSUME Types, ListingKept, stage = "done" PROVE ListingComplete
      BY DEF ListingComplete
    <2>1. Missed = stayed \ fetched /\ batch = {}
      BY DEF Missed, Through, ListingKept, NothingUnsaved
    <2>2. kind = "quickSearch" => Cardinality(stayed \ fetched) <= drops
      BY <2>1 DEF ListingKept, MissesFew
    <2>3. kind = "memberOfGr" /\ page = 0 => stayed \subseteq members
      BY <2>1 DEF ListingKept, OnePageWhole, Through
    <2> QED
      BY <2>2, <2>3 DEF ListingComplete, ListingKept, FirstPageOnly
  <1> QED
    BY <1>2, <1>3, PTL

----------------------------------------------------------------------------
(* The end of a loop.                                                      *)

Size == Cardinality(Items)

LEMMA SizeType ==
    /\ Size \in Nat
    /\ \A S : S \subseteq Items => IsFiniteSet(S) /\ Cardinality(S) \in 0..Size
  <1>1. Size \in Nat
    BY FS_CardinalityType DEF Size
  <1>2. \A S : S \subseteq Items =>
           IsFiniteSet(S) /\ Cardinality(S) \in Nat /\ Cardinality(S) <= Size
    BY FS_Subset, FS_CardinalityType DEF Size
  <1> QED
    BY <1>1, <1>2

\* A page that is not the last leaves items for the next one, and so does one whose
\* members are being saved.
Within ==
    /\ PagesBounded
    /\ stage = "save" /\ more => PageSize * (page + 1) < Size

LEMMA NotLast ==
    ASSUME TypeOK, ~IsLast(page)
    PROVE  PageSize * (page + 1) < Size
  <1>0. upstream \subseteq Items
    BY DEF TypeOK
  <1>1. Total \in Nat /\ Total <= Size
    <2>1. Cardinality(upstream) \in 0..Size /\ Size \in Nat
      BY <1>0, SizeType
    <2> QED
      BY <2>1 DEF Total
  <1>2. PageSize * (page + 1) \in Nat
    BY Places
  <1> QED
    BY <1>1, <1>2, SizeType DEF IsLast

LEMMA WithinInit == Init => Within
  BY DEF Init, Within, PagesBounded, Running

LEMMA WithinStep ==
    ASSUME Types, Within, [Next]_vars
    PROVE  Within'
  <1>0. TypeOK /\ page \in Nat
    BY DEF Types, TypeOK
  <1>1. ASSUME NEW leave \in BOOLEAN, Turn(leave), ~leave => PageSize * (page + 1) < Size
        PROVE  Within'
    <2>1. CASE leave
      BY <1>1, <2>1 DEF Turn, Within, PagesBounded, Running
    <2>2. CASE ~leave
      BY <1>1, <2>2 DEF Turn, Within, PagesBounded, Running, Size
    <2> QED
      BY <2>1, <2>2
  <1>2. CASE Begin
    BY <1>2 DEF Begin, Within, PagesBounded
  <1>3. CASE Answer
    <2>1. CASE QuickSearchPage \/ DropdownPage
      <3>1. PICK leave \in BOOLEAN : Turn(leave) /\ (IsLast(page) => leave)
        BY <2>1 DEF QuickSearchPage, DropdownPage
      <3> QED
        BY <1>0, <1>1, <3>1, NotLast
    <2>2. CASE MembersPage
      <3>0. \/ Turn(TRUE)
            \/ stage' = "save" /\ more' = ~IsLast(page) /\ UNCHANGED <<page, attempt>>
        BY <2>2 DEF MembersPage
      <3>1. CASE Turn(TRUE)
        BY <1>1, <3>1
      <3>2. CASE stage' = "save" /\ more' = ~IsLast(page) /\ UNCHANGED <<page, attempt>>
        <4>1. stage' = "save" /\ page' = page /\ more' = ~IsLast(page) /\ stage = "ask"
          BY <1>3, <3>2 DEF Answer
        <4> QED
          BY <1>0, <4>1, NotLast DEF Within, PagesBounded, Running
      <3> QED
        BY <3>0, <3>1, <3>2
    <2> QED
      BY <1>3, <2>1, <2>2 DEF Answer
  <1>4. CASE Refuse
    BY <1>4 DEF Refuse, Retry, Within, PagesBounded, Running
  <1>5. CASE SaveMember
    <2>1. CASE batch' # {}
      BY <1>5, <2>1 DEF SaveMember, Within, PagesBounded, Running
    <2>2. CASE batch' = {}
      <3>1. Turn(~more) /\ stage = "save" /\ more \in BOOLEAN
        BY <1>0, <1>5, <2>2 DEF SaveMember, TypeOK
      <3> QED
        BY <1>1, <3>1 DEF Within
    <2> QED
      BY <2>1, <2>2
  <1>6. CASE SaveFails
    BY <1>6 DEF SaveFails, Within, PagesBounded, Running
  <1>7. CASE Add \/ Drop \/ UNCHANGED vars
    BY <1>7 DEF Add, Drop, vars, loop, Within, PagesBounded, Running
  <1> QED
    BY <1>2, <1>3, <1>4, <1>5, <1>6, <1>7 DEF Next, Step

\* Though the listing may grow and shrink between the questions, a loop never asks
\* for more pages than its items fill.
THEOREM PagesCorrect == Spec => []PagesBounded
  <1>1. Within => PagesBounded
    BY DEF Within
  <1> QED
    BY <1>1, WithinInit, TypesInit, TypesStep, WithinStep, PTL DEF Spec

\* What is left of a loop is a natural number of pages, and of steps at the page.
LeftNatural == Running => PagesLeft \in Nat /\ LeftAtPage \in Nat

LEMMA LeftTypes == Types /\ Within => LeftNatural
  <1> SUFFICES ASSUME Types, Within, Running
               PROVE  PagesLeft \in Nat /\ LeftAtPage \in Nat
    BY DEF LeftNatural
  <1>1. page \in Nat /\ attempt \in 1..MaxAttempts /\ batch \subseteq Items
    BY DEF Types, TypeOK
  <1>2. page <= Size
    <2>1. \A m \in Nat \ {0}, n \in Nat : n <= m * n /\ m * n \in Nat
      OBVIOUS
    <2>2. page <= PageSize * page /\ PageSize * page \in Nat
      BY <1>1, <2>1
    <2> QED
      BY <1>1, <2>2, SizeType DEF Within, PagesBounded, Size
  <1>3. Cardinality(batch) \in 0..Size /\ Size \in Nat
    BY <1>1, SizeType
  <1> QED
    BY <1>1, <1>2, <1>3 DEF PagesLeft, LeftAtPage, Size

LEMMA StepFalls ==
    ASSUME Types, [Next]_vars, Running, Running'
    PROVE  \/ UNCHANGED loop
           \/ PagesLeft' < PagesLeft
           \/ PagesLeft' = PagesLeft /\ LeftAtPage' < LeftAtPage
  <1>0. /\ page \in Nat /\ attempt \in 1..MaxAttempts /\ batch \subseteq Items
        /\ Size \in Nat /\ Content(page) \subseteq Items
    BY SizeType, ListingFinite DEF Types, TypeOK
  <1>1. ASSUME NEW leave \in BOOLEAN, Turn(leave) PROVE PagesLeft' < PagesLeft
    <2>1. page' = page + 1
      BY <1>1 DEF Turn, Running
    <2> QED
      BY <1>0, <2>1 DEF PagesLeft, Size
  <1>2. CASE Begin
    BY <1>2 DEF Begin, Running
  <1>3. CASE Answer
    <2>1. CASE QuickSearchPage \/ DropdownPage
      BY <1>1, <2>1 DEF QuickSearchPage, DropdownPage
    <2>2. CASE MembersPage /\ Turn(TRUE)
      BY <1>1, <2>2
    <2>3. CASE MembersPage /\ ~Turn(TRUE)
      <3>1. /\ stage = "ask" /\ stage' = "save" /\ page' = page
            /\ batch' \in Unsorted(page)
        BY <1>3, <2>3 DEF Answer, MembersPage
      <3>2. LeftAtPage = Size + 1 + MaxAttempts - attempt
        BY <3>1 DEF LeftAtPage, Size
      <3>3. LeftAtPage' = Cardinality(Content(page))
        BY <3>1 DEF LeftAtPage, Unsorted
      <3>4. Cardinality(Content(page)) \in 0..Size
        BY <1>0, SizeType
      <3> QED
        BY <1>0, <3>1, <3>2, <3>3, <3>4 DEF PagesLeft
    <2> QED
      BY <1>3, <2>1, <2>2, <2>3 DEF Answer
  <1>4. CASE Refuse
    <2>1. stage = "ask" /\ stage' = "ask" /\ page' = page /\ attempt' = attempt + 1
      BY <1>4 DEF Refuse, Retry, Running
    <2> QED
      BY <1>0, <2>1 DEF PagesLeft, LeftAtPage, Size
  <1>5. CASE SaveMember
    <2>1. PICK x \in batch :
             /\ batch' = batch \ {x}
             /\ IF batch' # {} THEN UNCHANGED <<stage, page, attempt>> ELSE Turn(~more)
      BY <1>5 DEF SaveMember
    <2>2. CASE batch' # {}
      <3>1. stage = "save" /\ stage' = "save" /\ page' = page
        BY <1>5, <2>1, <2>2 DEF SaveMember
      <3>0. IsFiniteSet(batch)
        BY <1>0, SizeType
      <3>2. Cardinality(batch) \in Nat
        BY <3>0, FS_CardinalityType
      <3>3. Cardinality(batch') = Cardinality(batch) - 1
        BY <2>1, <3>0, FS_RemoveElement
      <3> QED
        BY <3>1, <3>2, <3>3 DEF PagesLeft, LeftAtPage
    <2>3. CASE batch' = {}
      BY <1>1, <2>1, <2>3 DEF Types, TypeOK
    <2> QED
      BY <2>2, <2>3
  <1>6. CASE SaveFails
    BY <1>6 DEF SaveFails, Running
  <1>7. CASE Add \/ Drop \/ UNCHANGED vars
    BY <1>7 DEF Add, Drop, vars
  <1> QED
    BY <1>2, <1>3, <1>4, <1>5, <1>6, <1>7 DEF Next, Step

\* Every answer, refusal and save brings a loop nearer to its end, so it asks and
\* saves only finitely often, whatever happens to the upstream.
THEOREM LoopFinite == Spec => LoopWindsDown
  <1>1. ASSUME Types, LeftNatural, LeftNatural', [Next]_vars, Running, Running'
        PROVE  \/ UNCHANGED loop
               \/ PagesLeft' \in 0 .. PagesLeft - 1
               \/ PagesLeft' = PagesLeft /\ LeftAtPage' \in 0 .. LeftAtPage - 1
    <2>1. PagesLeft \in Nat /\ LeftAtPage \in Nat /\ PagesLeft' \in Nat /\ LeftAtPage' \in Nat
      BY <1>1 DEF LeftNatural
    <2>2. \/ UNCHANGED loop
          \/ PagesLeft' < PagesLeft
          \/ PagesLeft' = PagesLeft /\ LeftAtPage' < LeftAtPage
      BY <1>1, StepFalls
    <2>3. \A i, j \in Nat : j < i => j \in 0 .. i - 1
      OBVIOUS
    <2> QED
      BY <2>1, <2>2, <2>3
  <1>2. Types /\ LeftNatural /\ LeftNatural' /\ [Next]_vars =>
          [Running /\ Running' =>
             \/ UNCHANGED loop
             \/ PagesLeft' \in 0 .. PagesLeft - 1
             \/ PagesLeft' = PagesLeft /\ LeftAtPage' \in 0 .. LeftAtPage - 1]_vars
    BY <1>1
  <1>3. Spec => [](Types /\ Within)
    BY WithinInit, TypesInit, TypesStep, WithinStep, PTL DEF Spec
  <1> QED
    BY <1>2, <1>3, LeftTypes, PTL DEF Spec, LoopWindsDown
=============================================================================
