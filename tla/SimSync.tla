------------------------------ MODULE SimSync -------------------------------
(***************************************************************************)
(* The SIM sync of src/sync/sync.service.ts against the operators of       *)
(* src/sims/sims.service.ts, which change the same rows: what a run reads, *)
(* when, and what it writes on the strength of it.                         *)
(*                                                                         *)
(* One account, and so one run at a time (LockMatchesRuns of SyncJobs):    *)
(* this is what the "work" of a syncSims call does there.  Every await of  *)
(* the run is a stage; between two stages operators may do anything.  A    *)
(* transaction of the code is one step.  Of a row of `sims` the model      *)
(* keeps the status and the usage; notes, labels, dates and the upstream's *)
(* other attributes are written with them and read by nobody here.         *)
(***************************************************************************)
EXTENDS Naturals, Sequences

CONSTANTS
    Sims,           \* phone numbers
    Listings,       \* what fetchAllSimsQuickSearch may return
    Operators,      \* concurrent requests to confirm a SIM
    SetStatuses,    \* the statuses operators set
    UsageBatch,     \* USAGE_BATCH_SIZE
    UpsertBatch,    \* BATCH_SIZE
    MaxMB,          \* bound: usage the upstream reports
    MaxRuns,        \* bound: runs
    MaxEdits,       \* bound: changes made by operators
    LastMonth       \* bound: the calendar, from month 1

Statuses == {"NEW", "ACTIVE", "CONFIRMED", "CANCELLED", "LOCKED",
             "PENDING_CANCEL", "REVOKED", "PENDING_LOCK"}
NoSim == "none"

ASSUME ListingsAssumption == \A l \in Listings : l \in Seq(Sims)
ASSUME StatusesAssumption == SetStatuses \subseteq Statuses
ASSUME BatchAssumption == UsageBatch \in Nat \ {0} /\ UpsertBatch \in Nat \ {0}
ASSUME BoundsAssumption ==
    MaxMB \in Nat /\ MaxRuns \in Nat /\ MaxEdits \in Nat /\ LastMonth \in Nat \ {0}
ASSUME NoSimAssumption == NoSim \notin Sims

VARIABLES
    sims,       \* table sims: a function of the phone numbers it holds
    history,    \* table usage_history: a function of <<sim, month>>
    stage,      \* the await the run is at
    listed,     \* allVinaSims
    month,      \* currentMonth
    snapshot,   \* simByPhone: the status of the SIMs read at the start
    used,       \* usedDataMap: a function of the SIMs that were answered
    next,       \* index of the next batch
    ids,        \* simIdMap: the SIMs that have an id
    confirming, \* the SIM each confirm request has read and found ACTIVE
    today,      \* the month it is
    edit,       \* history: when an operator last changed a SIM
    runs, edits

table == <<sims, history>>
run == <<stage, listed, month, snapshot, used, next, ids>>
vars == <<table, run, confirming, today, edit, runs, edits>>

----------------------------------------------------------------------------
(* A usage is recorded with the month in which the upstream reported it     *)
(* (`taken`), which the code does not keep.                                 *)

Months == 1..LastMonth
Row == [status : Statuses, usedMB : 0..MaxMB]
Usage == [mb : 0..MaxMB, taken : Months]
Stages == {"idle", "list", "snapshot", "usage", "save", "ids", "history",
           "follow", "done"}

TypeOK ==
    /\ DOMAIN sims \subseteq Sims /\ sims \in [DOMAIN sims -> Row]
    /\ DOMAIN history \subseteq Sims \X Months /\ history \in [DOMAIN history -> Usage]
    /\ stage \in Stages
    /\ listed \in Seq(Sims)
    /\ month \in Months /\ today \in Months
    /\ DOMAIN snapshot \subseteq Sims /\ snapshot \in [DOMAIN snapshot -> Statuses]
    /\ DOMAIN used \subseteq Sims /\ used \in [DOMAIN used -> Usage]
    /\ next \in Nat
    /\ stage \notin {"idle", "list", "done"} => listed # <<>>
    /\ stage \in {"usage", "save", "history"} => next \in DOMAIN listed
    /\ ids \subseteq Sims
    /\ confirming \in [Operators -> Sims \cup {NoSim}]
    /\ edit \in [Sims -> {"never", "past", "since"}]
    /\ runs \in 0..MaxRuns /\ edits \in 0..MaxEdits

Empty == [x \in {} |-> x]

Init ==
    /\ sims = Empty /\ history = Empty
    /\ stage = "idle" /\ listed = <<>> /\ month = 1
    /\ snapshot = Empty /\ used = Empty /\ next = 1 /\ ids = {}
    /\ confirming = [o \in Operators |-> NoSim]
    /\ today = 1
    /\ edit = [s \in Sims |-> "never"]
    /\ runs = 0 /\ edits = 0

----------------------------------------------------------------------------
(* The run.                                                                 *)

\* syncSimsInTenant up to the first page of quickSearch.
StartRun ==
    /\ stage \in {"idle", "done"} /\ runs < MaxRuns
    /\ stage' = "list" /\ runs' = runs + 1
    /\ listed' = <<>> /\ snapshot' = Empty /\ used' = Empty /\ ids' = {}
    /\ UNCHANGED <<table, month, next, confirming, today, edit, edits>>

\* quickSearch is through; the month is taken before the table is read.
List ==
    /\ stage = "list"
    /\ \E l \in Listings :
          /\ listed' = l
          /\ stage' = IF l = <<>> THEN "done" ELSE "snapshot"
    /\ month' = today
    /\ UNCHANGED <<table, snapshot, used, next, ids, confirming, today, edit, runs, edits>>

\* dbSims: all that the run will know of the statuses.
Snapshot ==
    /\ stage = "snapshot" /\ stage' = "usage" /\ next' = 1
    /\ snapshot' = [s \in DOMAIN sims |-> sims[s].status]
    /\ edit' = [s \in Sims |-> IF edit[s] = "since" THEN "past" ELSE edit[s]]
    /\ UNCHANGED <<table, listed, month, used, ids, confirming, today, runs, edits>>

\* The batch of the given size at `next`.
Batch(size) == {listed[i] : i \in {j \in DOMAIN listed : next <= j /\ j < next + size}}

\* Mutant of Proceed: a last batch of one SIM is left out.
ProceedShort(size, after) ==
    IF next + size < Len(listed)
    THEN next' = next + size /\ UNCHANGED stage
    ELSE next' = 1 /\ stage' = after

\* The next round of a loop over batches, or what comes after the loop.
Proceed(size, after) ==
    IF next + size <= Len(listed)
    THEN next' = next + size /\ UNCHANGED stage
    ELSE next' = 1 /\ stage' = after

\* get-data-used answers for some SIMs of the batch, for none if it failed
\* after its retries.
FetchUsage ==
    /\ stage = "usage"
    /\ \E answered \in SUBSET Batch(UsageBatch) :
       \E mb \in [answered -> 0..MaxMB] :
          used' = [s \in DOMAIN used \cup answered |->
                     IF s \in answered THEN [mb |-> mb[s], taken |-> today] ELSE used[s]]
    /\ Proceed(UsageBatch, "save")
    /\ UNCHANGED <<table, listed, month, snapshot, ids, confirming, today, edit, runs, edits>>

\* newUsedMB: 0 for a SIM without an answer.
Reading(s) == IF s \in DOMAIN used THEN used[s] ELSE [mb |-> 0, taken |-> month]

\* Mutant of Activates: whatever the status.
ActivatesAny(s) == Reading(s).mb > 0

\* Mutant of Activates: a SIM that is not in the table yet stays NEW.
ActivatesKnown(s) ==
    s \in DOMAIN snapshot /\ snapshot[s] = "NEW" /\ Reading(s).mb > 0

\* The transition NEW -> ACTIVE, decided on the snapshot.
Activates(s) ==
    (s \in DOMAIN snapshot => snapshot[s] = "NEW") /\ Reading(s).mb > 0

\* The row an upsert leaves: it writes the status only of a SIM it activates.
Upserted(s) ==
    [status |-> CASE Activates(s) -> "ACTIVE"
                  [] ~Activates(s) /\ s \in DOMAIN sims -> sims[s].status
                  [] OTHER -> "NEW",
     usedMB |-> Reading(s).mb]

\* One transaction of upserts.
Save ==
    /\ stage = "save"
    /\ LET batch == Batch(UpsertBatch) IN
       /\ sims' = [s \in DOMAIN sims \cup batch |->
                     IF s \in batch THEN Upserted(s) ELSE sims[s]]
       /\ edit' = [s \in Sims |->
                     IF s \in batch /\ edit[s] = "since" THEN "past" ELSE edit[s]]
    /\ Proceed(UpsertBatch, "ids")
    /\ UNCHANGED <<history, listed, month, snapshot, used, ids, confirming, today,
                   runs, edits>>

\* The ids are read again, for the SIMs that the run created.
LoadIds ==
    /\ stage = "ids" /\ stage' = "history" /\ next' = 1
    /\ ids' = DOMAIN sims
    /\ UNCHANGED <<table, listed, month, snapshot, used, confirming, today, edit,
                   runs, edits>>

\* Mutant of HistoryMonth: the calendar is looked up at the write.
HistoryMonthNow == today

\* The month of the rows written to usage_history.
HistoryMonth == month

\* One transaction of usage_history upserts.
SaveHistory ==
    /\ stage = "history"
    /\ LET rows == {<<s, HistoryMonth>> : s \in Batch(UpsertBatch) \cap ids} IN
       history' = [r \in DOMAIN history \cup rows |->
                     IF r \in rows THEN Reading(r[1]) ELSE history[r]]
    /\ Proceed(UpsertBatch, "follow")
    /\ UNCHANGED <<sims, listed, month, snapshot, used, ids, confirming, today, edit,
                   runs, edits>>

\* The alerts, the group members and the master SIM totals; then the run is
\* completed.
Finish ==
    /\ stage = "follow" /\ stage' = "done"
    /\ UNCHANGED <<table, listed, month, snapshot, used, next, ids, confirming,
                   today, edit, runs, edits>>

\* An await of the run throws and the run is failed, or the process dies.  What
\* the run has written stays, what it has read is gone.
Abort ==
    /\ stage \notin {"idle", "done"} /\ stage' = "idle"
    /\ listed' = <<>> /\ snapshot' = Empty /\ used' = Empty /\ next' = 1 /\ ids' = {}
    /\ UNCHANGED <<table, month, confirming, today, edit, runs, edits>>

----------------------------------------------------------------------------
(* The operators.                                                           *)

\* What every change by an operator does to the SIMs in S.
Edited(S) ==
    /\ edits < MaxEdits /\ edits' = edits + 1
    /\ edit' = [s \in Sims |-> IF s \in S THEN "since" ELSE edit[s]]

Give(S, status) ==
    sims' = [s \in DOMAIN sims |->
               IF s \in S THEN [sims[s] EXCEPT !.status = status] ELSE sims[s]]

\* updateStatus but for confirm and reset, batchUpdateStatus, the bulk
\* operations and a status of patchSim: no look at the status a SIM has.
SetStatus ==
    \E S \in SUBSET DOMAIN sims, status \in SetStatuses :
       /\ S # {} /\ Give(S, status) /\ Edited(S)
       /\ UNCHANGED <<history, run, confirming, today, runs>>

\* A usage of patchSim.
PatchUsage ==
    \E s \in DOMAIN sims, mb \in 0..MaxMB :
       /\ sims' = [sims EXCEPT ![s].usedMB = mb] /\ Edited({s})
       /\ UNCHANGED <<history, run, confirming, today, runs>>

\* reset and bulkResetSims: the row starts anew and its usage history goes.
Reset ==
    \E S \in SUBSET DOMAIN sims :
       /\ S # {} /\ Edited(S)
       /\ sims' = [s \in DOMAIN sims |->
                     IF s \in S THEN [status |-> "NEW", usedMB |-> 0] ELSE sims[s]]
       /\ history' = [r \in {q \in DOMAIN history : q[1] \notin S} |-> history[r]]
       /\ UNCHANGED <<run, confirming, today, runs>>

\* confirm reads the SIM and refuses one that is not ACTIVE ...
CheckActive(o) ==
    /\ confirming[o] = NoSim
    /\ \E s \in DOMAIN sims :
          sims[s].status = "ACTIVE" /\ confirming' = [confirming EXCEPT ![o] = s]
    /\ UNCHANGED <<table, run, today, edit, runs, edits>>

\* ... and updates it by its id in a second query.
Confirm(o) ==
    /\ confirming[o] # NoSim
    /\ Give({confirming[o]}, "CONFIRMED") /\ Edited({confirming[o]})
    /\ confirming' = [confirming EXCEPT ![o] = NoSim]
    /\ UNCHANGED <<history, run, today, runs>>

\* The calendar moves on.
MonthEnds ==
    /\ today < LastMonth /\ today' = today + 1
    /\ UNCHANGED <<table, run, confirming, edit, runs, edits>>

----------------------------------------------------------------------------
Run == \/ StartRun \/ List \/ Snapshot \/ FetchUsage \/ Save \/ LoadIds
       \/ SaveHistory \/ Finish \/ Abort

Operate == \/ SetStatus \/ PatchUsage \/ Reset
           \/ \E o \in Operators : CheckActive(o) \/ Confirm(o)

Next == Run \/ Operate \/ MonthEnds

Spec == Init /\ [][Next]_vars

----------------------------------------------------------------------------
(* Properties.                                                              *)

\* A run that is reported complete has left every SIM of its listing, known or
\* new, with the usage the upstream reported in this run (0 if it reported none)
\* and the same in the history of the month, except where an operator changed
\* the SIM after it was saved.
SyncReflected ==
    stage = "done" => \A i \in DOMAIN listed :
        LET s == listed[i] IN
        /\ s \in DOMAIN sims
        /\ edit[s] # "since" =>
              /\ sims[s].usedMB = Reading(s).mb
              /\ <<s, month>> \in DOMAIN history
              /\ history[<<s, month>>].mb = Reading(s).mb

\* However runs, failures and restarts follow each other, the status of a SIM
\* no operator ever touched says whether it was used: NEW only without usage.
UntouchedFollowsUsage ==
    \A s \in DOMAIN sims : edit[s] = "never" =>
        /\ sims[s].status \in {"NEW", "ACTIVE"}
        /\ sims[s].usedMB > 0 => sims[s].status = "ACTIVE"

\* The history of a month holds no usage reported before the month began: a run
\* over the end of a month must not file the old month's usage under the new one.
HistoryNotAhead == \A r \in DOMAIN history : r[2] <= history[r].taken

\* The statuses a step of the run changes.
Changed == {s \in DOMAIN sims : s \in DOMAIN sims' /\ sims'[s].status # sims[s].status}

\* A run changes no status but NEW, unless an operator set it between the
\* snapshot and the upsert of the run.
RunKeepsDecisions ==
    [][Save => \A s \in Changed : sims[s].status = "NEW" \/ edit[s] = "since"]_vars

\* A run only ever activates SIMs that are NEW, as the comment at the transition
\* and the README's state diagram say.
SyncActivatesNew == [][Save => \A s \in Changed : sims[s].status = "NEW"]_vars

----------------------------------------------------------------------------
(* What makes them inductive.                                               *)

\* A run files what was reported after it took the month.
UsageOfTheMonth ==
    /\ month <= today
    /\ stage \in {"idle", "list", "snapshot"} => DOMAIN used = {}
    /\ \A s \in DOMAIN used : month <= used[s].taken

\* Where no operator changed a SIM since the snapshot, the snapshot is still
\* right, or the run has activated the SIM already.
SnapshotHolds ==
    /\ stage \in {"usage", "save"} => DOMAIN snapshot \subseteq DOMAIN sims
    /\ stage \in {"usage", "save"} =>
          \A s \in DOMAIN sims : edit[s] # "since" =>
             \/ s \in DOMAIN snapshot /\ snapshot[s] = sims[s].status
             \/ stage = "save" /\ (Activates(s) => sims[s].status = "ACTIVE")
    /\ stage \in {"usage", "save"} =>
          \A s \in DOMAIN sims \cap DOMAIN snapshot :
             edit[s] = "never" /\ snapshot[s] # "NEW" => sims[s].status = "ACTIVE"

\* The SIMs before position n of the listing are saved.
SavedTo(n) ==
    \A i \in DOMAIN listed : i < n =>
        /\ listed[i] \in DOMAIN sims
        /\ edit[listed[i]] # "since" => sims[listed[i]].usedMB = Reading(listed[i]).mb

\* So is their usage history.
FiledTo(n) ==
    \A i \in DOMAIN listed : i < n /\ edit[listed[i]] # "since" =>
        /\ <<listed[i], month>> \in DOMAIN history
        /\ history[<<listed[i], month>>].mb = Reading(listed[i]).mb

\* How far each loop over batches has got.
Progress ==
    /\ stage = "save" => SavedTo(next)
    /\ stage \in {"ids", "history", "follow", "done"} => SavedTo(Len(listed) + 1)
    /\ stage = "history" => FiledTo(next) /\ \A i \in DOMAIN listed : listed[i] \in ids
    /\ stage \in {"follow", "done"} => FiledTo(Len(listed) + 1)
=============================================================================
