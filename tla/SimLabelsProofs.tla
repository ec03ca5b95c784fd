-------------------------- MODULE SimLabelsProofs ---------------------------
(***************************************************************************)
(* Proofs about SimLabels, for any SIMs, codes, names, groups and number   *)
(* of concurrent requests: the tables stay consistent, a replacement       *)
(* leaves a group with the members it gives, and only certain requests     *)
(* take a SIM from its code.                                               *)
(***************************************************************************)
EXTENDS SimLabels, TLAPS

\* What a request under way has read stays as far true as it relies on it.
Requested ==
    \A o \in Operators :
       /\ at[o].op = "create" => at[o].name \in Names
       /\ at[o].op \in {"check", "update", "clear", "delete"} => at[o].id \in Codes
       /\ at[o].op = "check" => at[o].name \in Names
       /\ at[o].op = "clear" => at[o].read \in Names
       /\ at[o].op \in {"replace", "insert"} =>
             at[o].id \in Groups /\ group[at[o].id] # Unborn

\* A replacement holds the row of its group, alone, from the DELETE to the commit,
\* and so the members are those the DELETE found.
RowsHeld ==
    \A o \in Operators :
       at[o].op = "insert" =>
          /\ group[at[o].id] = Alive /\ members[at[o].id] = at[o].victims
          /\ \A p \in Operators \ {o} : at[p].op = "insert" => at[p].id # at[o].id

Strengthening == TypeOK /\ Requested /\ RowsHeld /\ RemovalsMeetNoOldMembers

USE NamesAssumption, IdsAssumption, FoundAssumption, BoundsAssumption

----------------------------------------------------------------------------
(* Requests that write nothing.                                            *)

LEMMA FreeRequest == Free \in Request
  BY DEF Free, Request, Ops

\* The tables and the history stay, and an operator's request is replaced by
\* one that is not about to delete or to insert.
LEMMA QuietStep ==
    ASSUME Strengthening, UNCHANGED <<tables, given>>, requests' \in 0..MaxRequests,
           NEW o \in Operators, NEW r \in Request, at' = [at EXCEPT ![o] = r],
           r.op \notin {"delete", "insert"},
           r.op = "create" => r.name \in Names,
           r.op \in {"check", "update", "clear"} => r.id \in Codes,
           r.op = "check" => r.name \in Names,
           r.op = "clear" => r.read \in Names,
           r.op = "replace" => r.id \in Groups /\ group[r.id] # Unborn
    PROVE  Strengthening'
  <1>1. TypeOK'
    BY DEF Strengthening, TypeOK, tables, Consistent, Exists, Taken
  <1>2. Requested' /\ RowsHeld'
    BY DEF Strengthening, TypeOK, tables, Requested, RowsHeld
  <1>3. RemovalsMeetNoOldMembers'
    BY DEF Strengthening, TypeOK, tables, RemovalsMeetNoOldMembers, Exists, Members
  <1> QED
    BY <1>1, <1>2, <1>3 DEF Strengthening

LEMMA QuietSteps ==
    ASSUME Strengthening, NEW o \in Operators,
           \/ BeginCreate(o) \/ BeginUpdate(o) \/ CheckName(o) \/ BeginRemove(o)
           \/ RefuseCode(o) \/ BeginReplace(o) \/ RefuseReplace(o) \/ Fail(o)
    PROVE  Strengthening'
  <1>1. UNCHANGED <<tables, given>> /\ requests' \in 0..MaxRequests
    <2>1. UNCHANGED <<tables, given>>
      BY DEF BeginCreate, BeginUpdate, CheckName, BeginRemove, RefuseCode, BeginReplace,
             RefuseReplace, Fail
    <2>2. Arrives(o) \/ UNCHANGED requests
      BY DEF BeginCreate, BeginUpdate, CheckName, BeginRemove, RefuseCode, BeginReplace,
             RefuseReplace, Fail, Goes, Ends
    <2> QED
      BY <2>1, <2>2 DEF Arrives, Strengthening, TypeOK
  <1>2. CASE at' = [at EXCEPT ![o] = Free]
    <2>1. Free.op = "none"
      BY DEF Free
    <2> QED
      BY <1>1, <1>2, <2>1, FreeRequest, QuietStep
  <1>3. CASE BeginCreate(o)
    <2>1. PICK n \in Names, S \in SUBSET Sims :
             at' = [at EXCEPT ![o] = [Free EXCEPT !.op = "create", !.name = n, !.sims = S]]
      BY <1>3 DEF BeginCreate
    <2>2. [Free EXCEPT !.op = "create", !.name = n, !.sims = S] \in Request
      BY DEF Free, Request, Ops
    <2> QED
      BY <1>1, <2>1, <2>2, QuietStep DEF Free
  <1>4. CASE BeginUpdate(o)
    <2>1. PICK c \in Codes, n \in Names \cup {NoName}, r \in BOOLEAN, S \in SUBSET Sims :
             /\ Exists(c) /\ (~r => S = {})
             /\ at' = [at EXCEPT ![o] =
                         [Free EXCEPT !.op = IF n = NoName THEN "update" ELSE "check", !.id = c,
                                      !.read = code[c], !.name = n, !.replaces = r, !.sims = S]]
      BY <1>4, Zenon DEF BeginUpdate
    <2> DEFINE req(op) == [Free EXCEPT !.op = op, !.id = c, !.read = code[c], !.name = n,
                                       !.replaces = r, !.sims = S]
    <2>2. ASSUME NEW op \in {"update", "check"}
          PROVE  /\ req(op) \in Request /\ req(op).op = op
                 /\ req(op).id = c /\ req(op).name = n
      BY <2>1 DEF Free, Request, Ops, Exists
    <2>3. CASE n = NoName
      <3>1. at' = [at EXCEPT ![o] = req("update")]
        BY <2>1, <2>3
      <3>2. req("update") \in Request /\ req("update").op = "update" /\ req("update").id = c
        BY <2>2
      <3> HIDE DEF req
      <3> QED
        BY <1>1, <3>1, <3>2, QuietStep
    <2>4. CASE n # NoName
      <3>1. at' = [at EXCEPT ![o] = req("check")]
        BY <2>1, <2>4
      <3>2. /\ req("check") \in Request /\ req("check").op = "check"
            /\ req("check").id = c /\ req("check").name \in Names
        BY <2>2, <2>4
      <3> HIDE DEF req
      <3> QED
        BY <1>1, <3>1, <3>2, QuietStep
    <2> QED
      BY <2>3, <2>4
  <1>5. CASE CheckName(o) /\ at' = [at EXCEPT ![o].op = "update"]
    <2> DEFINE req == [at[o] EXCEPT !.op = "update"]
    <2>1. at[o] \in Request /\ at[o].op = "check" /\ at[o].id \in Codes
      <3>1. at[o] \in Request
        BY DEF Strengthening, TypeOK
      <3>2. at[o].op = "check"
        BY <1>5 DEF CheckName
      <3> QED
        BY <3>1, <3>2 DEF Strengthening, Requested
    <2>2. "update" \in Ops
      BY DEF Ops
    <2>3. req \in Request /\ req.op = "update" /\ req.id \in Codes
      BY <2>1, <2>2 DEF Request
    <2>4. at' = [at EXCEPT ![o] = req]
      BY <1>5
    <2> HIDE DEF req
    <2> QED
      BY <1>1, <2>3, <2>4, QuietStep
  <1>6. CASE BeginRemove(o)
    <2>1. PICK c \in Codes :
             /\ code[c] \in Names
             /\ at' = [at EXCEPT ![o] =
                         [Free EXCEPT !.op = "clear", !.id = c, !.read = code[c]]]
      BY <1>6 DEF BeginRemove, Exists
    <2>2. [Free EXCEPT !.op = "clear", !.id = c, !.read = code[c]] \in Request
      BY <2>1 DEF Free, Request, Ops
    <2> QED
      BY <1>1, <2>1, <2>2, QuietStep DEF Free
  <1>7. CASE BeginReplace(o)
    <2>1. PICK g \in Groups, S \in SUBSET Sims, I \in SUBSET Identifiers :
             /\ group[g] = Alive
             /\ at' = [at EXCEPT ![o] =
                         [Free EXCEPT !.op = "replace", !.id = g, !.sims = Resolve(S, I)]]
      BY <1>7 DEF BeginReplace
    <2>2. Resolve(S, I) \subseteq Sims
      BY DEF Resolve
    <2>3. [Free EXCEPT !.op = "replace", !.id = g, !.sims = Resolve(S, I)] \in Request
      BY <2>2 DEF Free, Request, Ops
    <2>4. group[g] # Unborn
      BY <2>1 DEF Alive, Unborn
    <2> QED
      BY <1>1, <2>1, <2>3, <2>4, QuietStep DEF Free
  <1> QED
    BY <1>2, <1>3, <1>4, <1>5, <1>6, <1>7
    DEF CheckName, RefuseCode, RefuseReplace, Fail, Goes, Ends
----------------------------------------------------------------------------
(* Steps of SIM codes.                                                     *)

\* A step leaves the tables of groups alone, ends or moves on the request of o
\* and lets the history of the others only grow.
CodeWrite(o) ==
    /\ UNCHANGED <<group, members>>
    /\ requests' \in 0..MaxRequests
    /\ given' \in [Operators -> SUBSET Sims]
    /\ \A p \in Operators \ {o} : at'[p] = at[p] /\ given[p] \subseteq given'[p]
    /\ \/ at' = [at EXCEPT ![o] = Free]
       \/ UNCHANGED at /\ at[o] = Free
       \/ at' = [at EXCEPT ![o].op = "delete"] /\ at[o].op = "clear"

LEMMA CodeWriteKeeps ==
    ASSUME Strengthening, NEW o \in Operators, CodeWrite(o)
    PROVE  /\ at' \in [Operators -> Request]
           /\ Requested' /\ RowsHeld'
           /\ \A g \in Groups : members'[g] # {} => group'[g] = Alive
  <1> DEFINE next == [at[o] EXCEPT !.op = "delete"]
  <1>0. PICK r \in Request :
           /\ at' = [at EXCEPT ![o] = r]
           /\ \/ r.op = "none"
              \/ r.op = "delete" /\ at[o].op = "clear" /\ r.id = at[o].id
    <2>1. CASE at' = [at EXCEPT ![o] = Free] \/ (UNCHANGED at /\ at[o] = Free)
      <3>1. at' = [at EXCEPT ![o] = Free]
        BY <2>1 DEF Strengthening, TypeOK
      <3>2. Free.op = "none"
        BY DEF Free
      <3> QED
        BY <3>1, <3>2, FreeRequest
    <2>2. CASE at' = [at EXCEPT ![o].op = "delete"] /\ at[o].op = "clear"
      <3>1. at' = [at EXCEPT ![o] = next]
        BY <2>2
      <3>2. next \in Request /\ next.op = "delete" /\ next.id = at[o].id
        BY DEF Strengthening, TypeOK, Request, Ops
      <3> HIDE DEF next
      <3> QED
        BY <2>2, <3>1, <3>2
    <2>3. \/ at' = [at EXCEPT ![o] = Free]
          \/ UNCHANGED at /\ at[o] = Free
          \/ at' = [at EXCEPT ![o].op = "delete"] /\ at[o].op = "clear"
      BY DEF CodeWrite
    <2> HIDE DEF next
    <2> QED
      BY <2>1, <2>2, <2>3, Zenon
  <1>1. at' \in [Operators -> Request]
    BY <1>0 DEF Strengthening, TypeOK
  <1>5. at'[o] = r
    BY <1>0 DEF Strengthening, TypeOK
  <1>2. Requested'
    BY <1>0, <1>5 DEF CodeWrite, Strengthening, Requested
  <1>3. RowsHeld'
    <2>1. at'[o].op # "insert"
      BY <1>0, <1>5
    <2> QED
      BY <2>1 DEF CodeWrite, Strengthening, RowsHeld
  <1>4. \A g \in Groups : members'[g] # {} => group'[g] = Alive
    BY DEF CodeWrite, Strengthening, TypeOK
  <1> QED
    BY <1>1, <1>2, <1>3, <1>4

LEMMA GivesGrows ==
    ASSUME Strengthening, NEW o \in Operators, NEW id, NEW S \in SUBSET Sims, Gives(o, id, S)
    PROVE  /\ given' \in [Operators -> SUBSET Sims]
           /\ \A p \in Operators \ {o} :
                 given[p] \subseteq given'[p] /\ (at[p].id = id => S \subseteq given'[p])
  BY DEF Gives, Strengthening, TypeOK

\* A step that makes, renames or gives the code c, which is called n from then on.
Named(o, c, n) ==
    /\ ~Taken(n, c)
    /\ code' = [code EXCEPT ![c] = n]
    /\ label' \in [Sims -> Names \cup {NoName}]
    /\ \A s \in Sims : \/ label'[s] \in {n, NoName}
                       \/ label'[s] = label[s] /\ label[s] # code[c]
    /\ \A p \in Operators \ {o} : at[p].id = c =>
          {s \in Sims : label'[s] = n /\ label[s] # n} \subseteq given'[p]
    /\ at'[o].op # "delete"

LEMMA CodeWritten ==
    ASSUME Strengthening, NEW o \in Operators, CodeWrite(o),
           NEW c \in Codes, NEW n \in Names, Named(o, c, n)
    PROVE  Strengthening'
  <1> USE DEF Named
  <1>1. code' \in [Codes -> Names \cup {Unborn, Gone}]
    BY DEF Strengthening, TypeOK
  <1>2. code'[c] = n /\ \A d \in Codes \ {c} : code'[d] = code[d]
    BY DEF Strengthening, TypeOK
  <1>3. Consistent'
    <2>1. \A d \in Codes : Exists(d)' => ~Taken(code[d], d)'
      BY <1>2 DEF Exists, Taken, Consistent, Strengthening, TypeOK
    <2>2. \A s \in Sims : label'[s] # NoName => \E d \in Codes : code'[d] = label'[s]
      <3> SUFFICES ASSUME NEW s \in Sims, label'[s] # NoName, label'[s] # n
                   PROVE  \E d \in Codes : code'[d] = label'[s]
        BY <1>2
      <3>1. PICK d \in Codes : code[d] = label[s] /\ d # c /\ label'[s] = label[s]
        BY DEF Consistent, Strengthening, TypeOK
      <3> QED
        BY <1>2, <3>1
    <2> QED
      BY <2>1, <2>2 DEF Consistent
  <1>4. TypeOK'
    BY <1>1, <1>3, CodeWriteKeeps DEF CodeWrite, Strengthening, TypeOK
  <1>5. RemovalsMeetNoOldMembers'
    <2> SUFFICES ASSUME NEW p \in Operators, at'[p].op = "delete", Exists(at[p].id)',
                        code'[at'[p].id] = at'[p].read, NEW s \in Members(at[p].id)'
                 PROVE  s \in given'[p]
      BY DEF RemovalsMeetNoOldMembers
    <2> DEFINE d == at[p].id
    <2>1. p # o /\ at'[p] = at[p] /\ d \in Codes /\ given[p] \subseteq given'[p]
      BY DEF CodeWrite, Strengthening, Requested
    <2>2. s \in Sims /\ label'[s] = code'[d] /\ code'[d] \in Names
      BY <2>1 DEF Members, Exists
    <2>3. CASE d = c
      <3>1. label'[s] = n
        BY <1>2, <2>2, <2>3
      <3>2. CASE label[s] # n
        BY <2>1, <2>3, <3>1, <3>2, <2>2
      <3>3. CASE label[s] = n
        <4>1. code[c] = n
          <5>1. PICK e \in Codes : code[e] = n
            BY <2>2, <3>3 DEF Strengthening, TypeOK, Consistent
          <5> QED
            BY <5>1 DEF Taken
        <4> QED
          BY <1>2, <2>1, <2>2, <2>3, <3>3, <4>1
          DEF Strengthening, RemovalsMeetNoOldMembers, Exists, Members
      <3> QED
        BY <3>2, <3>3
    <2>4. CASE d # c
      <3>1. code'[d] = code[d] /\ code[d] # n
        BY <1>2, <2>1, <2>4 DEF Taken
      <3>2. label[s] = code[d]
        BY <2>2, <3>1, NamesAssumption
      <3> QED
        BY <2>1, <2>2, <3>1, <3>2
        DEF Strengthening, RemovalsMeetNoOldMembers, Exists, Members
    <2> QED
      BY <2>3, <2>4
  <1> QED
    BY <1>4, <1>5, CodeWriteKeeps DEF Strengthening
\* A step that only takes labels away, or a code nobody has.
LEMMA LabelsTaken ==
    ASSUME Strengthening, NEW o \in Operators, CodeWrite(o),
           code' \in [Codes -> Names \cup {Unborn, Gone}],
           \A d \in Codes : code'[d] = code[d] \/ (code'[d] = Gone /\ Members(d) = {}),
           label' \in [Sims -> Names \cup {NoName}],
           \A s \in Sims : label'[s] \in {label[s], NoName},
           at'[o].op = "delete" => \A s \in Sims : label'[s] # at'[o].read
    PROVE  Strengthening'
  <1>1. Consistent'
    <2>1. \A d \in Codes : Exists(d)' => ~Taken(code[d], d)'
      BY DEF Exists, Taken, Consistent, Strengthening, TypeOK
    <2>2. \A s \in Sims : label'[s] # NoName => \E d \in Codes : code'[d] = label'[s]
      <3> SUFFICES ASSUME NEW s \in Sims, label'[s] # NoName
                   PROVE  \E d \in Codes : code'[d] = label'[s]
        OBVIOUS
      <3>1. PICK d \in Codes : code[d] = label[s] /\ label'[s] = label[s]
        BY DEF Consistent, Strengthening, TypeOK
      <3>2. s \in Members(d)
        BY <3>1 DEF Members, Exists, Strengthening, TypeOK
      <3> QED
        BY <3>1, <3>2
    <2> QED
      BY <2>1, <2>2 DEF Consistent
  <1>2. TypeOK'
    BY <1>1, CodeWriteKeeps DEF CodeWrite, Strengthening, TypeOK
  <1>3. RemovalsMeetNoOldMembers'
    <2> SUFFICES ASSUME NEW p \in Operators, at'[p].op = "delete", Exists(at[p].id)',
                        code'[at'[p].id] = at'[p].read, NEW s \in Members(at[p].id)'
                 PROVE  s \in given'[p]
      BY DEF RemovalsMeetNoOldMembers
    <2>1. s \in Sims /\ label'[s] = at'[p].read /\ label'[s] \in Names
      BY DEF Members, Exists
    <2>2. p # o
      BY <2>1
    <2>3. at'[p] = at[p] /\ given[p] \subseteq given'[p] /\ at[p].id \in Codes
      BY <2>2 DEF CodeWrite, Strengthening, Requested
    <2>4. code[at[p].id] = code'[at[p].id] /\ label[s] = label'[s]
      BY <2>1, <2>3 DEF Exists
    <2> QED
      BY <2>1, <2>3, <2>4 DEF Strengthening, RemovalsMeetNoOldMembers, Exists, Members
  <1> QED
    BY <1>2, <1>3, CodeWriteKeeps DEF Strengthening

LEMMA CommitCreateStep ==
    ASSUME Strengthening, NEW o \in Operators, CommitCreate(o)
    PROVE  Strengthening'
  <1> DEFINE n == at[o].name
  <1>1. PICK c \in Codes : /\ code[c] = Unborn /\ code' = [code EXCEPT ![c] = n]
                           /\ Gives(o, c, at[o].sims)
    BY DEF CommitCreate
  <1>2. n \in Names /\ ~Taken(n, c) /\ at[o].sims \in SUBSET Sims
    BY DEF CommitCreate, Taken, Strengthening, Requested, TypeOK, Request
  <1>3. label' = [s \in Sims |-> IF s \in at[o].sims THEN n ELSE label[s]]
    BY DEF CommitCreate
  <1>4. CodeWrite(o) /\ at'[o].op # "delete"
    <2>1. at' = [at EXCEPT ![o] = Free] /\ UNCHANGED <<group, members, requests>>
      BY DEF CommitCreate, Ends
    <2>2. at'[o] = Free /\ (\A p \in Operators \ {o} : at'[p] = at[p])
      BY <2>1 DEF Strengthening, TypeOK
    <2> QED
      BY <1>1, <1>2, <2>1, <2>2, GivesGrows DEF CodeWrite, Strengthening, TypeOK, Free
  <1>5. label' \in [Sims -> Names \cup {NoName}]
    BY <1>2, <1>3 DEF Strengthening, TypeOK
  <1>6. \A s \in Sims : label'[s] = n \/ (label'[s] = label[s] /\ label[s] # code[c])
    BY <1>1, <1>3 DEF Strengthening, TypeOK, Unborn, NoName
  <1>7. \A p \in Operators \ {o} : at[p].id = c =>
           {s \in Sims : label'[s] = n /\ label[s] # n} \subseteq given'[p]
    BY <1>1, <1>2, <1>3, GivesGrows
  <1> HIDE DEF n
  <1>8. Named(o, c, n)
    BY <1>1, <1>2, <1>4, <1>5, <1>6, <1>7 DEF Named
  <1> QED
    BY <1>2, <1>4, <1>8, CodeWritten

LEMMA CommitUpdateStep ==
    ASSUME Strengthening, NEW o \in Operators, CommitUpdate(o)
    PROVE  Strengthening'
  <1> DEFINE n == NewName(o)
             c == at[o].id
             S == {s \in Sims : label'[s] = NewName(o) /\ label[s] # label'[s]}
  <1>1. c \in Codes /\ n \in Names /\ ~Taken(n, c)
    BY DEF CommitUpdate, Fits, NewName, Exists, Strengthening, Requested, TypeOK, Request
  <1>2. code' = [code EXCEPT ![c] = n] /\ label' = Relabelled(o) /\ Gives(o, c, S)
    BY DEF CommitUpdate
  <1>3. CodeWrite(o) /\ at'[o].op # "delete"
    <2>1. at' = [at EXCEPT ![o] = Free] /\ UNCHANGED <<group, members, requests>>
      BY DEF CommitUpdate, Ends
    <2>2. at'[o] = Free /\ (\A p \in Operators \ {o} : at'[p] = at[p])
      BY <2>1 DEF Strengthening, TypeOK
    <2>3. S \in SUBSET Sims
      OBVIOUS
    <2> HIDE DEF S
    <2> QED
      BY <1>2, <2>1, <2>2, <2>3, GivesGrows DEF CodeWrite, Strengthening, TypeOK, Free
  <1>4. \A s \in Sims : \/ label'[s] \in {n, NoName}
                        \/ label'[s] = label[s] /\ label[s] # code[c]
    BY <1>2 DEF Relabelled, Cascaded
  <1>5. label' \in [Sims -> Names \cup {NoName}]
    <2>1. \A s \in Sims : label'[s] \in Names \cup {NoName}
      BY <1>1, <1>4 DEF Strengthening, TypeOK
    <2> QED
      BY <1>2, <2>1 DEF Relabelled
  <1>6. \A p \in Operators \ {o} : at[p].id = c =>
           {s \in Sims : label'[s] = n /\ label[s] # n} \subseteq given'[p]
    BY <1>2, GivesGrows
  <1> HIDE DEF n, c, S
  <1>7. Named(o, c, n)
    BY <1>1, <1>2, <1>3, <1>4, <1>5, <1>6 DEF Named
  <1> QED
    BY <1>1, <1>3, <1>7, CodeWritten

LEMMA RemovalSteps ==
    ASSUME Strengthening, NEW o \in Operators, ClearLabels(o) \/ DeleteCode(o)
    PROVE  Strengthening'
  <1>1. CASE ClearLabels(o)
    <2>1. /\ at[o].op = "clear" /\ at' = [at EXCEPT ![o].op = "delete"]
          /\ given' = [given EXCEPT ![o] = {}] /\ UNCHANGED <<code, group, members, requests>>
          /\ label' = [s \in Sims |-> IF label[s] = at[o].read THEN NoName ELSE label[s]]
      BY <1>1 DEF ClearLabels, Goes, LooksAfresh
    <2>2. at[o].read \in Names \cup {NoName} /\ at'[o].read = at[o].read
      BY <2>1 DEF Strengthening, TypeOK, Request
    <2>3. CodeWrite(o)
      BY <2>1 DEF CodeWrite, Strengthening, TypeOK
    <2>4. label' \in [Sims -> Names \cup {NoName}]
      BY <2>1 DEF Strengthening, TypeOK
    <2>5. at[o].read # NoName
      BY <2>1 DEF Strengthening, Requested
    <2>6. \A s \in Sims : label'[s] # at'[o].read
      BY <2>1, <2>2, <2>5
    <2> QED
      BY <2>1, <2>3, <2>4, <2>6, LabelsTaken DEF Strengthening, TypeOK
  <1>2. CASE DeleteCode(o)
    <2>1. /\ at[o].op = "delete" /\ at' = [at EXCEPT ![o] = Free] /\ Members(at[o].id) = {}
          /\ code' = [code EXCEPT ![at[o].id] = Gone]
          /\ UNCHANGED <<label, group, members, given, requests>>
      BY <1>2 DEF DeleteCode, Ends
    <2>2. CodeWrite(o) /\ at'[o].op # "delete"
      BY <2>1 DEF CodeWrite, Strengthening, TypeOK, Free
    <2>3. at[o].id \in Codes
      BY <2>1 DEF Strengthening, Requested
    <2>4. \A d \in Codes : code'[d] = code[d] \/ (code'[d] = Gone /\ Members(d) = {})
      BY <2>1, <2>3 DEF Strengthening, TypeOK
    <2>5. code' \in [Codes -> Names \cup {Unborn, Gone}]
      BY <2>1, <2>3 DEF Strengthening, TypeOK
    <2> QED
      BY <2>1, <2>2, <2>4, <2>5, LabelsTaken DEF Strengthening, TypeOK
  <1> QED
    BY <1>1, <1>2

LEMMA PatchLabelStep ==
    ASSUME Strengthening, NEW o \in Operators, PatchLabel(o)
    PROVE  Strengthening'
  <1>1. /\ at[o] = Free /\ requests' \in 0..MaxRequests
        /\ UNCHANGED <<at, code, group, members>>
    BY DEF PatchLabel, Arrives, Strengthening, TypeOK
  <1>2. at'[o].op # "delete"
    BY <1>1 DEF Free
  <1>3. PICK s \in Sims :
           \/ label' = [label EXCEPT ![s] = NoName] /\ UNCHANGED given
           \/ \E c \in Codes : /\ Exists(c) /\ label' = [label EXCEPT ![s] = code[c]]
                               /\ Gives(o, c, {s})
    BY DEF PatchLabel
  <1>4. CASE label' = [label EXCEPT ![s] = NoName] /\ UNCHANGED given
    <2>1. CodeWrite(o)
      BY <1>1, <1>4 DEF CodeWrite, Strengthening, TypeOK
    <2> QED
      BY <1>1, <1>2, <1>4, <2>1, LabelsTaken DEF Strengthening, TypeOK
  <1>5. ASSUME NEW c \in Codes, Exists(c), label' = [label EXCEPT ![s] = code[c]],
               Gives(o, c, {s})
        PROVE  Strengthening'
    <2> DEFINE n == code[c]
    <2>1. CodeWrite(o)
      BY <1>1, <1>5, GivesGrows DEF CodeWrite
    <2>2. n \in Names /\ ~Taken(n, c) /\ code' = [code EXCEPT ![c] = n]
      BY <1>1, <1>5 DEF Exists, Consistent, Strengthening, TypeOK
    <2>3. label' \in [Sims -> Names \cup {NoName}]
      BY <1>5, <2>2 DEF Strengthening, TypeOK
    <2>4. \A t \in Sims : label'[t] = n \/ (label'[t] = label[t] /\ label[t] # code[c])
      BY <1>5 DEF Strengthening, TypeOK
    <2>5. \A p \in Operators \ {o} : at[p].id = c =>
             {t \in Sims : label'[t] = n /\ label[t] # n} \subseteq given'[p]
      BY <1>5, GivesGrows DEF Strengthening, TypeOK
    <2> HIDE DEF n
    <2>6. Named(o, c, n)
      BY <1>2, <2>2, <2>3, <2>4, <2>5 DEF Named
    <2> QED
      BY <2>1, <2>2, <2>6, CodeWritten
  <1> QED
    BY <1>3, <1>4, <1>5
----------------------------------------------------------------------------
(* Steps of groups.                                                        *)

LEMMA GroupsOnly ==
    ASSUME Strengthening, UNCHANGED <<code, label>>, Requested',
           \A p \in Operators : at'[p].op = "delete" =>
              at'[p] = at[p] /\ given[p] \subseteq given'[p]
    PROVE  Consistent' /\ RemovalsMeetNoOldMembers'
  <1>1. Consistent'
    BY DEF Strengthening, TypeOK, Consistent, Exists, Taken
  <1>2. RemovalsMeetNoOldMembers'
    BY DEF Strengthening, RemovalsMeetNoOldMembers, Exists, Members
  <1> QED
    BY <1>1, <1>2

LEMMA GroupRowStep ==
    ASSUME Strengthening, NEW o \in Operators, CreateGroup(o) \/ RemoveGroup(o)
    PROVE  Strengthening'
  <1>1. UNCHANGED <<code, label, at, given>> /\ requests' \in 0..MaxRequests
    BY DEF CreateGroup, RemoveGroup, Arrives, Strengthening, TypeOK
  <1>2. PICK g \in Groups, S \in SUBSET Sims, state \in {Alive, Gone} :
           /\ group' = [group EXCEPT ![g] = state] /\ members' = [members EXCEPT ![g] = S]
           /\ S # {} => state = Alive /\ group[g] = Unborn
           /\ \A p \in Operators : at[p].op = "insert" => at[p].id # g
    <2>1. CASE CreateGroup(o)
      <3>1. PICK g \in Groups, S \in SUBSET Sims, I \in SUBSET Identifiers :
               /\ group[g] = Unborn
               /\ group' = [group EXCEPT ![g] = Alive]
               /\ members' = [members EXCEPT ![g] = Resolve(S, I)]
        BY <2>1 DEF CreateGroup
      <3>2. Resolve(S, I) \subseteq Sims
        BY DEF Resolve
      <3>3. \A p \in Operators : at[p].op = "insert" => at[p].id # g
        BY <3>1 DEF Strengthening, RowsHeld, Alive, Unborn
      <3> QED
        BY <3>1, <3>2, <3>3
    <2>2. CASE RemoveGroup(o)
      BY <2>2 DEF RemoveGroup, RowLocked
    <2> QED
      BY <2>1, <2>2
  <1>3. Requested'
    BY <1>1, <1>2 DEF Strengthening, TypeOK, Requested, Alive, Gone, Unborn
  <1>4. /\ group' \in [Groups -> {Unborn, Alive, Gone}]
        /\ members' \in [Groups -> SUBSET Sims]
        /\ \A h \in Groups : members'[h] # {} => group'[h] = Alive
    BY <1>2 DEF Strengthening, TypeOK
  <1>5. RowsHeld'
    BY <1>1, <1>2 DEF Strengthening, TypeOK, Requested, RowsHeld
  <1>6. Consistent' /\ RemovalsMeetNoOldMembers'
    BY <1>1, <1>3, GroupsOnly
  <1>7. TypeOK'
    BY <1>1, <1>4, <1>6 DEF Strengthening, TypeOK
  <1> QED
    BY <1>3, <1>5, <1>6, <1>7 DEF Strengthening

LEMMA TakeMembersStep ==
    ASSUME Strengthening, NEW o \in Operators, TakeMembers(o)
    PROVE  Strengthening'
  <1> DEFINE g == at[o].id
             next == [at[o] EXCEPT !.op = "insert", !.victims = members[g]]
  <1>1. /\ at[o].op = "replace" /\ group[g] = Alive /\ at' = [at EXCEPT ![o] = next]
        /\ \A p \in Operators : at[p].op = "insert" => at[p].id # g
        /\ UNCHANGED <<code, label, group, members, given, requests>>
    BY DEF TakeMembers, RowLocked, tables
  <1>2. g \in Groups /\ group[g] # Unborn
    BY <1>1 DEF Strengthening, Requested
  <1>3. /\ next \in Request /\ next.op = "insert" /\ next.id = g /\ next.victims = members[g]
    <2>1. at[o] \in Request /\ members[g] \in SUBSET Sims
      BY <1>2 DEF Strengthening, TypeOK
    <2> QED
      BY <2>1 DEF Request, Ops
  <1> HIDE DEF next
  <1>4. at' \in [Operators -> Request]
    BY <1>1, <1>3 DEF Strengthening, TypeOK
  <1>5. at'[o] = next /\ \A p \in Operators \ {o} : at'[p] = at[p]
    BY <1>1 DEF Strengthening, TypeOK
  <1>6. Requested'
    BY <1>1, <1>2, <1>3, <1>5 DEF Strengthening, Requested
  <1>7. RowsHeld'
    BY <1>1, <1>3, <1>5 DEF Strengthening, RowsHeld
  <1>8. Consistent' /\ RemovalsMeetNoOldMembers'
    BY <1>1, <1>3, <1>5, <1>6, GroupsOnly
  <1>9. TypeOK'
    BY <1>1, <1>4, <1>8 DEF Strengthening, TypeOK
  <1> QED
    BY <1>6, <1>7, <1>8, <1>9 DEF Strengthening

\* What the commit leaves: the rows the DELETE found were all there were.
LEMMA Replaced ==
    ASSUME Strengthening, NEW o \in Operators, InsertMembers(o)
    PROVE  /\ at[o].op = "insert" /\ at[o].id \in Groups
           /\ at[o].sims \in SUBSET Sims
           /\ members' = [members EXCEPT ![at[o].id] = at[o].sims]
  <1>1. at[o].op = "insert" /\ at[o].id \in Groups /\ at[o].sims \in SUBSET Sims
    BY DEF InsertMembers, Strengthening, TypeOK, Requested, Request
  <1>2. members[at[o].id] \ at[o].victims = {}
    BY <1>1 DEF Strengthening, RowsHeld
  <1>3. members' = [members EXCEPT ![at[o].id] = (members[at[o].id] \ at[o].victims) \cup at[o].sims]
    BY DEF InsertMembers
  <1> QED
    BY <1>1, <1>2, <1>3

LEMMA InsertMembersStep ==
    ASSUME Strengthening, NEW o \in Operators, InsertMembers(o)
    PROVE  Strengthening'
  <1> DEFINE g == at[o].id
  <1>1. /\ at' = [at EXCEPT ![o] = Free] /\ UNCHANGED <<code, label, group, given, requests>>
        /\ members' = [members EXCEPT ![g] = at[o].sims]
        /\ at[o].op = "insert" /\ g \in Groups /\ at[o].sims \in SUBSET Sims
    BY Replaced DEF InsertMembers, Ends
  <1>2. group[g] = Alive /\ \A p \in Operators \ {o} : at[p].op = "insert" => at[p].id # g
    BY <1>1 DEF Strengthening, RowsHeld
  <1>3. /\ at' \in [Operators -> Request]
        /\ at'[o].op = "none" /\ \A p \in Operators \ {o} : at'[p] = at[p]
    BY <1>1, FreeRequest DEF Strengthening, TypeOK, Free
  <1>4. Requested'
    BY <1>1, <1>3 DEF Strengthening, Requested
  <1>5. RowsHeld'
    BY <1>1, <1>2, <1>3 DEF Strengthening, TypeOK, Requested, RowsHeld
  <1>6. Consistent' /\ RemovalsMeetNoOldMembers'
    BY <1>1, <1>3, <1>4, GroupsOnly
  <1>7. TypeOK'
    BY <1>1, <1>2, <1>3, <1>6 DEF Strengthening, TypeOK
  <1> QED
    BY <1>4, <1>5, <1>6, <1>7 DEF Strengthening

----------------------------------------------------------------------------
LEMMA Inductive ==
    ASSUME Strengthening, [Next]_vars
    PROVE  Strengthening'
  <1>1. CASE UNCHANGED vars
    BY <1>1 DEF vars, tables, Strengthening, TypeOK, Consistent, Exists, Taken, Requested,
       RowsHeld, RemovalsMeetNoOldMembers, Members
  <1>2. ASSUME NEW o \in Operators, SimCodeRequest(o) PROVE Strengthening'
    BY <1>2, QuietSteps, CommitCreateStep, CommitUpdateStep, RemovalSteps, PatchLabelStep
    DEF SimCodeRequest
  <1>3. ASSUME NEW o \in Operators, GroupRequest(o) PROVE Strengthening'
    BY <1>3, QuietSteps, GroupRowStep, TakeMembersStep, InsertMembersStep DEF GroupRequest
  <1>4. ASSUME NEW o \in Operators, Fail(o) PROVE Strengthening'
    BY <1>4, QuietSteps
  <1> QED
    BY <1>1, <1>2, <1>3, <1>4 DEF Next

LEMMA Initial == Init => Strengthening
  BY FreeRequest DEF Init, Strengthening, TypeOK, Requested, RowsHeld,
     RemovalsMeetNoOldMembers, Free

\* Whatever requests overlap: types, unique names, and no SIM with a code that
\* is not there, nor a member of a group that is gone (the schema's constraints
\* and the order of the writes in sim-codes.service.ts and groups.service.ts).
THEOREM TypeCorrect == Spec => []TypeOK
  <1>1. Strengthening => TypeOK
    BY DEF Strengthening
  <1> QED
    BY <1>1, Initial, Inductive, PTL DEF Spec

\* The delete of a removal meets no member it had the time to release.
THEOREM RemovalsCorrect == Spec => []RemovalsMeetNoOldMembers
  <1>1. Strengthening => RemovalsMeetNoOldMembers
    BY DEF Strengthening
  <1> QED
    BY <1>1, Initial, Inductive, PTL DEF Spec

\* A replacement that commits leaves the group with the members it gives and no
\* others, whatever other requests are under way: they wait for the row that its
\* update has locked (update of groups.service.ts).
THEOREM ReplacementCorrect == Spec => GroupReplaced
  <1> DEFINE Step == \A o \in Operators :
                        InsertMembers(o) => members'[at[o].id] = at[o].sims
  <1>1. Strengthening => Step
    BY Replaced DEF Strengthening, TypeOK
  <1> QED
    BY <1>1, Initial, Inductive, PTL DEF Spec, GroupReplaced
----------------------------------------------------------------------------
(* Who takes a SIM from its code.                                          *)

Accounted(c, s) ==
    \/ s \in Members(c)'
    \/ \E o \in Operators : at'[o] # at[o] /\ Involved(o, c, s)
    \/ at' = at /\ \A t \in Sims \ {s} : label'[t] = label[t]

\* The codes and labels stay.
LEMMA StayIfUnchanged ==
    ASSUME NEW c, NEW s \in Members(c), UNCHANGED <<code, label>>
    PROVE  Accounted(c, s)
  BY DEF Accounted, Members, Exists

LEMMA StayInUpdate ==
    ASSUME Strengthening, NEW o \in Operators, CommitUpdate(o),
           NEW c \in Codes, NEW s \in Members(c)
    PROVE  Accounted(c, s)
  <1> DEFINE n == NewName(o)
             d == at[o].id
  <1>1. /\ d \in Codes /\ n \in Names /\ ~Taken(n, d) /\ code[d] \in Names
        /\ at[o].op = "update"
    BY DEF CommitUpdate, Fits, NewName, Exists, Strengthening, Requested, TypeOK, Request
  <1>2. /\ code'[d] = n /\ (\A e \in Codes \ {d} : code'[e] = code[e])
        /\ label' = Relabelled(o)
    BY <1>1 DEF CommitUpdate, Strengthening, TypeOK
  <1>3. at'[o] # at[o]
    BY <1>1 DEF CommitUpdate, Ends, Free, Strengthening, TypeOK
  <1>4. s \in Sims /\ label[s] = code[c] /\ code[c] \in Names
    BY DEF Members, Exists
  <1>5. CASE c = d
    <2>1. CASE at[o].replaces
      BY <1>3, <1>5, <2>1 DEF Accounted, Involved
    <2>2. CASE ~at[o].replaces
      <3>1. label'[s] = n
        BY <1>2, <1>4, <1>5, <2>2 DEF Relabelled, Cascaded, NewName
      <3> QED
        BY <1>1, <1>2, <1>4, <1>5, <3>1 DEF Accounted, Members, Exists
    <2> QED
      BY <2>1, <2>2
  <1>6. CASE c # d
    <2>1. code[c] # code[d]
      BY <1>1, <1>4, <1>6 DEF Strengthening, TypeOK, Consistent, Exists, Taken
    <2>2. CASE s \in at[o].sims \/ at[o].read = code[c]
      BY <1>3, <1>6, <2>1, <2>2 DEF Accounted, Involved
    <2>3. CASE s \notin at[o].sims /\ at[o].read # code[c]
      <3>1. label'[s] = label[s]
        BY <1>2, <1>4, <2>1, <2>3 DEF Relabelled, Cascaded
      <3> QED
        BY <1>2, <1>4, <1>6, <3>1 DEF Accounted, Members, Exists
    <2> QED
      BY <2>2, <2>3
  <1> QED
    BY <1>5, <1>6

LEMMA StayInCodes ==
    ASSUME Strengthening, NEW o \in Operators,
           CommitCreate(o) \/ ClearLabels(o) \/ DeleteCode(o) \/ PatchLabel(o),
           NEW c \in Codes, NEW s \in Members(c)
    PROVE  Accounted(c, s)
  <1>1. s \in Sims /\ label[s] = code[c] /\ code[c] \in Names
    BY DEF Members, Exists
  <1>2. CASE CommitCreate(o)
    <2>1. at'[o] # at[o] /\ code'[c] = code[c]
      BY <1>1, <1>2, NamesAssumption DEF CommitCreate, Ends, Free, Strengthening, TypeOK
    <2>2. s \in at[o].sims \/ label'[s] = label[s]
      BY <1>1, <1>2 DEF CommitCreate
    <2> QED
      BY <1>1, <2>1, <2>2 DEF Accounted, Involved, Members, Exists
  <1>3. CASE ClearLabels(o)
    <2>1. /\ at[o].op = "clear" /\ at'[o].op = "delete" /\ code' = code
          /\ at[o].read # label[s] => label'[s] = label[s]
      BY <1>1, <1>3 DEF ClearLabels, Goes, Strengthening, TypeOK
    <2>2. at[o].id \in Codes
      BY <2>1 DEF Strengthening, Requested
    <2>3. CASE at[o].read = code[c]
      <3>1. at[o].id # c => code[at[o].id] # at[o].read
        BY <1>1, <2>2, <2>3 DEF Strengthening, TypeOK, Consistent, Exists, Taken
      <3> QED
        BY <2>1, <2>3, <3>1 DEF Accounted, Involved
    <2>4. CASE at[o].read # code[c]
      BY <1>1, <2>1, <2>4 DEF Accounted, Members, Exists
    <2> QED
      BY <2>3, <2>4
  <1>4. CASE DeleteCode(o)
    <2>1. at[o].id # c
      BY <1>4 DEF DeleteCode
    <2>2. code'[c] = code[c] /\ label' = label
      BY <1>4, <2>1 DEF DeleteCode, Strengthening, TypeOK
    <2> QED
      BY <1>1, <2>2 DEF Accounted, Members, Exists
  <1>5. CASE PatchLabel(o)
    <2>1. at' = at /\ code' = code
      BY <1>5 DEF PatchLabel
    <2>2. PICK t \in Sims, x \in Names \cup {NoName} : label' = [label EXCEPT ![t] = x]
      BY <1>5 DEF PatchLabel, Exists
    <2>3. \A r \in Sims \ {t} : label'[r] = label[r]
      BY <2>2 DEF Strengthening, TypeOK
    <2> QED
      BY <1>1, <2>1, <2>3 DEF Accounted, Members, Exists
  <1> QED
    BY <1>2, <1>3, <1>4, <1>5

\* A SIM loses its code only by a request about the SIM or the code, or by one that
\* holds the code's name as the former name of its own (update and remove of
\* sim-codes.service.ts).
THEOREM MembersKept == Spec => MembersStay
  <1> DEFINE Step == \A c \in Codes : \A s \in Members(c) : Accounted(c, s)
  <1>1. Strengthening /\ [Next]_vars => [Step]_vars
    <2> SUFFICES ASSUME Strengthening, Next, NEW c \in Codes, NEW s \in Members(c)
                 PROVE  Accounted(c, s)
      OBVIOUS
    <2>1. PICK o \in Operators : SimCodeRequest(o) \/ GroupRequest(o) \/ Fail(o)
      BY DEF Next
    <2>2. \/ UNCHANGED <<code, label>>
          \/ CommitUpdate(o)
          \/ CommitCreate(o) \/ ClearLabels(o) \/ DeleteCode(o) \/ PatchLabel(o)
      BY <2>1 DEF SimCodeRequest, GroupRequest, Fail, BeginCreate, BeginUpdate, CheckName,
         BeginRemove, RefuseCode, CreateGroup, BeginReplace, TakeMembers, InsertMembers,
         RefuseReplace, RemoveGroup, tables
    <2> QED
      BY <2>2, StayIfUnchanged, StayInUpdate, StayInCodes
  <1>2. [Step]_vars <=> [\A c \in Codes : \A s \in Members(c) :
          \/ s \in Members(c)'
          \/ \E o \in Operators : at'[o] # at[o] /\ Involved(o, c, s)
          \/ at' = at /\ \A t \in Sims \ {s} : label'[t] = label[t]]_vars
    BY Zenon DEF Accounted
  <1> QED
    BY <1>1, <1>2, Initial, Inductive, PTL DEF Spec, MembersStay
=============================================================================
