----------------------------- MODULE SimLabels ------------------------------
(***************************************************************************)
(* How operators label SIMs: the SIM codes of                              *)
(* src/sim-codes/sim-codes.service.ts, the groups of                       *)
(* src/groups/groups.service.ts and the label patchSim writes              *)
(* (src/sims/sims.service.ts), with the foreign keys of the tables.        *)
(*                                                                         *)
(* One account.  A request reads, and then writes in a transaction or in   *)
(* a query of its own; the others may come in between.  A transaction is   *)
(* one step, taken when it commits, except the replacement of a group's    *)
(* members: its DELETE takes the rows it sees when it starts, and its      *)
(* INSERT comes later.  The UPDATE before them locks the row of the group  *)
(* until the commit: it is never empty, for the scoped client puts the     *)
(* account into its data.                                                  *)
(* SIMs and their identifiers do not change here.  Descriptions and the    *)
(* names of groups are left out.                                           *)
(***************************************************************************)
EXTENDS Naturals

CONSTANTS
    Sims,           \* rows of sims
    Codes,          \* ids of rows of sim_codes
    Names,          \* what a SIM code may be called
    Groups,         \* ids of rows of groups
    Identifiers,    \* phone numbers and internal IMSIs a request may give
    Found,          \* Found[i]: the SIMs with that phone number or internal IMSI
    Operators,      \* concurrent requests
    MaxRequests     \* bound: requests

NoName == "no name"      \* null, or a name the request does not give
Unborn == "unborn"       \* an id no row has had yet
Gone == "gone"           \* the id of a row that was deleted
Alive == "alive"
NoId == "no id"

ASSUME NamesAssumption == Names \cap {NoName, Unborn, Gone} = {}
ASSUME IdsAssumption == NoId \notin Codes \cup Groups /\ Codes \cap Groups = {}
ASSUME FoundAssumption == Found \in [Identifiers -> SUBSET Sims]
ASSUME BoundsAssumption == MaxRequests \in Nat

VARIABLES
    code,       \* table sim_codes: the name of each id
    label,      \* sims.sim_code_id: the name of the SIM's code
    group,      \* table groups: which ids have a row
    members,    \* table sim_groups
    at,         \* the request each operator has under way
    given,      \* history: SIMs that others gave the label of the code of a request
                \* since it looked for those to take it from
    requests

tables == <<code, label, group, members>>
vars == <<tables, at, given, requests>>

----------------------------------------------------------------------------
Ops == {"none", "create", "check", "update", "clear", "delete", "replace", "insert"}

\* A request: the row it is about, the name it read, the name it gives, whether
\* it gives SIMs and which, and the members its DELETE has taken.
Request == [op : Ops, id : Codes \cup Groups \cup {NoId}, read : Names \cup {NoName},
            name : Names \cup {NoName}, replaces : BOOLEAN, sims : SUBSET Sims,
            victims : SUBSET Sims]

Free == [op |-> "none", id |-> NoId, read |-> NoName, name |-> NoName,
         replaces |-> FALSE, sims |-> {}, victims |-> {}]

Exists(c) == code[c] \in Names
Members(c) == {s \in Sims : Exists(c) /\ label[s] = code[c]}
Taken(n, other) == \E c \in Codes \ {other} : code[c] = n

\* The unique index of sim_codes and the foreign key of sims.
Consistent ==
    /\ \A c \in Codes : Exists(c) => ~Taken(code[c], c)
    /\ \A s \in Sims : label[s] # NoName => \E c \in Codes : code[c] = label[s]

TypeOK ==
    /\ code \in [Codes -> Names \cup {Unborn, Gone}]
    /\ label \in [Sims -> Names \cup {NoName}]
    /\ group \in [Groups -> {Unborn, Alive, Gone}]
    /\ members \in [Groups -> SUBSET Sims]
    /\ \A g \in Groups : members[g] # {} => group[g] = Alive
    /\ at \in [Operators -> Request]
    /\ given \in [Operators -> SUBSET Sims]
    /\ requests \in 0..MaxRequests
    /\ Consistent

\* The tables may hold whatever their constraints allow.
Init ==
    /\ code \in [Codes -> Names \cup {Unborn}]
    /\ label \in [Sims -> Names \cup {NoName}]
    /\ group \in [Groups -> {Unborn, Alive}]
    /\ members \in [Groups -> SUBSET Sims]
    /\ \A g \in Groups : members[g] # {} => group[g] = Alive
    /\ Consistent
    /\ at = [o \in Operators |-> Free]
    /\ given = [o \in Operators |-> {}]
    /\ requests = 0

----------------------------------------------------------------------------
Arrives(o) == at[o] = Free /\ requests < MaxRequests /\ requests' = requests + 1
Goes(o, to) == at' = [at EXCEPT ![o].op = to] /\ UNCHANGED requests
Ends(o) == at' = [at EXCEPT ![o] = Free] /\ UNCHANGED requests

\* The SIMs of S are given the label of the code `id`.
Gives(o, id, S) ==
    given' = [p \in Operators |->
                IF p = o THEN {} ELSE IF at[p].id = id THEN given[p] \cup S ELSE given[p]]
LooksAfresh(o) == given' = [given EXCEPT ![o] = {}]

(* SIM codes. *)

\* create: findUnique finds no such code.
BeginCreate(o) ==
    /\ Arrives(o)
    /\ \E n \in Names, S \in SUBSET Sims :
          /\ ~Taken(n, NoId)
          /\ at' = [at EXCEPT ![o] = [Free EXCEPT !.op = "create", !.name = n, !.sims = S]]
    /\ UNCHANGED <<tables, given>>

\* Mutant of CommitCreate: the answer of findUnique is relied on.
CommitCreateUnchecked(o) ==
    /\ at[o].op = "create"
    /\ \E c \in Codes :
          /\ code[c] = Unborn
          /\ code' = [code EXCEPT ![c] = at[o].name]
          /\ Gives(o, c, at[o].sims)
    /\ label' = [s \in Sims |-> IF s \in at[o].sims THEN at[o].name ELSE label[s]]
    /\ Ends(o)
    /\ UNCHANGED <<group, members>>

\* The unique index decides; the SIMs given lose the label they had.
CommitCreate(o) ==
    /\ at[o].op = "create" /\ ~Taken(at[o].name, NoId)
    /\ \E c \in Codes :
          /\ code[c] = Unborn
          /\ code' = [code EXCEPT ![c] = at[o].name]
          /\ Gives(o, c, at[o].sims)
    /\ label' = [s \in Sims |-> IF s \in at[o].sims THEN at[o].name ELSE label[s]]
    /\ Ends(o)
    /\ UNCHANGED <<group, members>>

\* update: findOne; the name is checked only when the request gives one.
BeginUpdate(o) ==
    /\ Arrives(o)
    /\ \E c \in Codes, n \in Names \cup {NoName}, r \in BOOLEAN, S \in SUBSET Sims :
          /\ Exists(c) /\ (~r => S = {})
          /\ at' = [at EXCEPT ![o] =
                      [Free EXCEPT !.op = IF n = NoName THEN "update" ELSE "check", !.id = c,
                                   !.read = code[c], !.name = n, !.replaces = r, !.sims = S]]
    /\ UNCHANGED <<tables, given>>

CheckName(o) ==
    /\ at[o].op = "check"
    /\ IF Taken(at[o].name, at[o].id) THEN Ends(o) ELSE Goes(o, "update")
    /\ UNCHANGED <<tables, given>>

NewName(o) == IF at[o].name = NoName THEN code[at[o].id] ELSE at[o].name

\* The foreign key gives the members of a renamed code its new name.
Cascaded(o) ==
    [s \in Sims |-> IF label[s] = code[at[o].id] THEN NewName(o) ELSE label[s]]

\* Mutant of Relabelled: a request that gives no SIMs is taken to give none.
RelabelledAlways(o) ==
    [s \in Sims |->
        IF s \in at[o].sims THEN NewName(o)
        ELSE IF Cascaded(o)[s] = at[o].read THEN NoName ELSE Cascaded(o)[s]]

\* The updateMany calls that follow: they look for the name that was read.
Relabelled(o) ==
    [s \in Sims |->
        IF at[o].replaces /\ s \in at[o].sims THEN NewName(o)
        ELSE IF Cascaded(o)[s] # at[o].read THEN Cascaded(o)[s]
        ELSE IF at[o].replaces THEN NoName
        ELSE IF at[o].name # NoName THEN NewName(o) ELSE Cascaded(o)[s]]

Fits(o) == Exists(at[o].id) /\ ~Taken(NewName(o), at[o].id)

CommitUpdate(o) ==
    /\ at[o].op = "update" /\ Fits(o)
    /\ code' = [code EXCEPT ![at[o].id] = NewName(o)]
    /\ label' = Relabelled(o)
    /\ Gives(o, at[o].id, {s \in Sims : label'[s] = NewName(o) /\ label[s] # label'[s]})
    /\ Ends(o)
    /\ UNCHANGED <<group, members>>

\* remove: findOne, an updateMany and a delete, each on its own.
BeginRemove(o) ==
    /\ Arrives(o)
    /\ \E c \in Codes :
          /\ Exists(c)
          /\ at' = [at EXCEPT ![o] = [Free EXCEPT !.op = "clear", !.id = c, !.read = code[c]]]
    /\ UNCHANGED <<tables, given>>

\* Mutant of ClearLabels: the foreign key is trusted to set the labels to null.
ClearLabelsNot(o) ==
    /\ at[o].op = "clear" /\ Goes(o, "delete") /\ LooksAfresh(o)
    /\ UNCHANGED tables

ClearLabels(o) ==
    /\ at[o].op = "clear" /\ Goes(o, "delete") /\ LooksAfresh(o)
    /\ label' = [s \in Sims |-> IF label[s] = at[o].read THEN NoName ELSE label[s]]
    /\ UNCHANGED <<code, group, members>>

\* ON DELETE RESTRICT.
DeleteCode(o) ==
    /\ at[o].op = "delete" /\ Exists(at[o].id) /\ Members(at[o].id) = {}
    /\ code' = [code EXCEPT ![at[o].id] = Gone]
    /\ Ends(o)
    /\ UNCHANGED <<label, group, members, given>>

\* The database refuses a write for its constraints, and the request fails.
RefuseCode(o) ==
    /\ \/ at[o].op = "create" /\ Taken(at[o].name, NoId)
       \/ at[o].op = "update" /\ ~Fits(o)
       \/ at[o].op = "delete" /\ (Exists(at[o].id) => Members(at[o].id) # {})
    /\ Ends(o)
    /\ UNCHANGED <<tables, given>>

\* patchSim: a name no code has is refused by the foreign key; a request without
\* a label takes the SIM's label away.
PatchLabel(o) ==
    /\ Arrives(o) /\ UNCHANGED <<at, code, group, members>>
    /\ \E s \in Sims :
          \/ label' = [label EXCEPT ![s] = NoName] /\ UNCHANGED given
          \/ \E c \in Codes :
                /\ Exists(c)
                /\ label' = [label EXCEPT ![s] = code[c]]
                /\ Gives(o, c, {s})

(* Groups. *)

\* resolveSimIds: the ids given, and every SIM an identifier finds; an identifier
\* that finds none refuses the request, as an id nobody has does.
Resolvable(identifiers) == \A i \in identifiers : Found[i] # {}
Resolve(ids, identifiers) == ids \cup (UNION {Found[i] : i \in identifiers})

CreateGroup(o) ==
    /\ Arrives(o)
    /\ \E g \in Groups, S \in SUBSET Sims, I \in SUBSET Identifiers :
          /\ group[g] = Unborn /\ Resolvable(I)
          /\ group' = [group EXCEPT ![g] = Alive]
          /\ members' = [members EXCEPT ![g] = Resolve(S, I)]
    /\ UNCHANGED <<code, label, at, given>>

\* update with members: findOneOrThrow, and resolveSimIds in the transaction.
BeginReplace(o) ==
    /\ Arrives(o)
    /\ \E g \in Groups, S \in SUBSET Sims, I \in SUBSET Identifiers :
          /\ group[g] = Alive /\ Resolvable(I)
          /\ at' = [at EXCEPT ![o] = [Free EXCEPT !.op = "replace", !.id = g,
                                                  !.sims = Resolve(S, I)]]
    /\ UNCHANGED <<tables, given>>

\* A transaction that updated the row of g and has not committed.
RowLocked(g) == \E p \in Operators : at[p].op = "insert" /\ at[p].id = g

\* Mutant of TakeMembers: an update that gives neither name nor description writes
\* nothing, and waits for nobody.
TakeMembersUnlocked(o) ==
    /\ at[o].op = "replace" /\ group[at[o].id] = Alive
    /\ at' = [at EXCEPT ![o].op = "insert", ![o].victims = members[at[o].id]]
    /\ UNCHANGED <<tables, given, requests>>

\* group.update, once it has the row, and simGroup.deleteMany up to the rows it
\* finds.
TakeMembers(o) ==
    /\ at[o].op = "replace" /\ group[at[o].id] = Alive /\ ~RowLocked(at[o].id)
    /\ at' = [at EXCEPT ![o].op = "insert", ![o].victims = members[at[o].id]]
    /\ UNCHANGED <<tables, given, requests>>

\* createMany with skipDuplicates, and the commit.
InsertMembers(o) ==
    /\ at[o].op = "insert"
    /\ members' = [members EXCEPT ![at[o].id] = (@ \ at[o].victims) \cup at[o].sims]
    /\ Ends(o)
    /\ UNCHANGED <<code, label, group, given>>

\* The group is gone: the update finds no row.
RefuseReplace(o) ==
    /\ at[o].op = "replace" /\ group[at[o].id] # Alive
    /\ Ends(o)
    /\ UNCHANGED <<tables, given>>

\* remove: the members go with the group.
RemoveGroup(o) ==
    /\ Arrives(o)
    /\ \E g \in Groups :
          /\ group[g] = Alive /\ ~RowLocked(g)
          /\ group' = [group EXCEPT ![g] = Gone]
          /\ members' = [members EXCEPT ![g] = {}]
    /\ UNCHANGED <<code, label, at, given>>

\* A query fails, or the process ends: open transactions are rolled back.
Fail(o) ==
    /\ at[o] # Free /\ Ends(o)
    /\ UNCHANGED <<tables, given>>

SimCodeRequest(o) ==
    \/ BeginCreate(o) \/ CommitCreate(o)
    \/ BeginUpdate(o) \/ CheckName(o) \/ CommitUpdate(o)
    \/ BeginRemove(o) \/ ClearLabels(o) \/ DeleteCode(o) \/ RefuseCode(o)
    \/ PatchLabel(o)

GroupRequest(o) ==
    \/ CreateGroup(o)
    \/ BeginReplace(o) \/ TakeMembers(o) \/ InsertMembers(o) \/ RefuseReplace(o)
    \/ RemoveGroup(o)

Next == \E o \in Operators : SimCodeRequest(o) \/ GroupRequest(o) \/ Fail(o)

Spec == Init /\ [][Next]_vars

----------------------------------------------------------------------------
(* What operators may rely on.                                              *)

\* A SIM of a code stays with it, under the code's present name, through every
\* step that is not about the SIM: one of a request that names it, of one that
\* replaces or removes the code's members, or of patchSim.  The one exception is
\* a request about another code that holds this code's name as the one its own
\* code had when it was read (update and remove of sim-codes.service.ts).
Involved(o, c, s) ==
    \/ s \in at[o].sims
    \/ at[o].id = c /\ (at[o].replaces \/ at[o].op = "clear")
    \/ at[o].id # c /\ at[o].read = code[c] /\ code[at[o].id] # at[o].read

MembersStay ==
    [][\A c \in Codes : \A s \in Members(c) :
          \/ s \in Members(c)'
          \/ \E o \in Operators : at'[o] # at[o] /\ Involved(o, c, s)
          \/ at' = at /\ \A t \in Sims \ {s} : label'[t] = label[t]]_vars

\* The delete that ends a removal finds members only if the code was renamed since
\* the request read it, or SIMs were given to it since the labels were cleared.
RemovalsMeetNoOldMembers ==
    \A o \in Operators :
       at[o].op = "delete" /\ Exists(at[o].id) /\ code[at[o].id] = at[o].read
          => Members(at[o].id) \subseteq given[o]

\* "Replace all sim memberships": when a replacement of a group's members commits,
\* the group holds the SIMs it gives and no others, though its DELETE only took the
\* members it found, and other replacements of the group may be under way.
GroupReplaced ==
    [][\A o \in Operators : InsertMembers(o) => members'[at[o].id] = at[o].sims]_vars

\* "Replace SIM membership when simIds is explicitly provided": an update that
\* gives SIMs leaves the code with these SIMs and no others.
MembershipReplaced ==
    [][\A o \in Operators, c \in Codes :
          CommitUpdate(o) /\ at[o].id = c /\ at[o].replaces => Members(c)' = at[o].sims]_vars
=============================================================================
