------------------------------ MODULE SyncJobs ------------------------------
(***************************************************************************)
(* The sync engine of src/sync/sync.service.ts: which sync job runs for    *)
(* which account, what the in-memory status of the job says, and what the  *)
(* sync_job_states table keeps of it.                                      *)
(*                                                                         *)
(* One Node process serves every account.  A "call" is one asynchronous    *)
(* call chain in that process: a manual trigger of the controller (an      *)
(* element of Manual) or a pass of syncEligibleAccounts (an element of     *)
(* Cron).  A call keeps its place between two awaits in pc; every action   *)
(* of a call is the code that runs from one wait for the database or the   *)
(* upstream to the next: an await of what is already there lets no other   *)
(* call in, for Node drains the microtasks of a turn first.  (Where it is  *)
(* simpler such a turn is two actions, for instance a write that settles   *)
(* and the step of the call that awaited it: this only adds interleavings.)*)
(* What a job does between its 'running' and its final status is           *)
(* abstracted to the steps that other calls can see: the upstream token,   *)
(* the rating plans it stores, the progress it persists, and how it ends.  *)
(***************************************************************************)
EXTENDS Integers, Sequences

CONSTANTS
    Accounts,       \* tenant accounts
    Manual,         \* concurrent manual calls (POST /sync/<job>)
    Cron,           \* concurrent cron passes (POST /sync/trigger)
    NoCall,         \* "no call": absent token owner, unawaited write
    Requests,       \* what manual calls ask for: pairs of an account and a job
    EligibleLists,  \* the lists getEligibleAccountIds may return
    Outcomes,       \* what may become of a write: any of WriteOutcomes
    MaxSyncs,       \* bound: completions, one tick of clock each
    MaxPending,     \* bound: writes queued when progress is persisted
    MaxCrashes      \* bound: process crashes

Jobs == {"syncSims", "syncRatingPlans", "syncGroupSims", "syncMonthlyUsage"}
Calls == Manual \cup Cron
Keys == Accounts \X Jobs        \* `${accountId}:${job}`

\* An upsert lands and is acknowledged, or it is lost, or it lands and only the
\* answer is lost.
WriteOutcomes == {"saved", "lost", "unanswered"}

ASSUME CallsAssumption ==
    /\ Manual \cap Cron = {}
    /\ NoCall \notin Calls
ASSUME InputsAssumption ==
    /\ Requests \subseteq Keys
    /\ \A s \in EligibleLists : s \in Seq(Accounts) /\ s # <<>>
    /\ Outcomes \subseteq WriteOutcomes /\ Outcomes # {}
ASSUME BoundsAssumption ==
    MaxSyncs \in Nat /\ MaxPending \in Nat /\ MaxCrashes \in Nat

VARIABLES
    status,     \* syncJobsByAccount: Keys -> [state, last]
    loaded,     \* statusLoads and loadedAccounts, per account
    active,     \* activeAccounts
    token,      \* activeTokens: the call that fetched the cached token
    chain,      \* statusWriteChains: the writes not settled yet, oldest first
    settled,    \* what the last settled write of the chain resolved to
    row,        \* table sync_job_states, 'idle' and 0 for an absent row
    plans,      \* table rating_plans, per account
    pc,         \* the await each call is at
    todo,       \* accounts a call still has to serve, the current one first
    job,        \* the job a call was asked for
    doing,      \* the job it is executing: syncSims may nest syncRatingPlans
    clock,      \* completion timestamps given out
    crashes     \* process crashes so far

memory == <<status, loaded, active, token, chain, settled>>
calls == <<pc, todo, job, doing>>
vars == <<memory, row, plans, calls, clock, crashes>>

----------------------------------------------------------------------------
(* Types. `last` is lastSyncedAt, 0 when there is none.                    *)

States == {"idle", "running", "completed", "failed"}
Status == [state : States, last : Nat]
Idle == [state |-> "idle", last |-> 0]

\* A queued upsert: the status it writes, the call awaiting it (or NoCall),
\* and the lastSyncedAt that updateSyncStatus captured before its change.
Write == [state : States, last : Nat, prev : Nat, waiter : Calls \cup {NoCall}]

\* "load" awaits ensureSyncStatusLoaded; "count" ratingPlan.count(); "start",
\* "finish" and "skip" a status write; "work" is the body of a job; the others
\* are between the end of a job and the `finally` of runInTenant.
Places == {"none", "load", "count", "start", "work", "finish", "saved",
           "unready", "skip", "giveup"}

TypeOK ==
    /\ status \in [Keys -> Status]
    /\ loaded \in [Accounts -> {"no", "loading", "yes"}]
    /\ active \subseteq Accounts
    /\ token \in [Accounts -> Calls \cup {NoCall}]
    /\ chain \in [Keys -> Seq(Write)]
    /\ settled \in [Keys -> {"none", "ok", "failed"}]
    /\ row \in [Keys -> Status]
    /\ plans \in [Accounts -> {"unsynced", "empty", "stored"}]
    /\ pc \in [Calls -> Places]
    /\ todo \in [Calls -> Seq(Accounts)]
    /\ \A c \in Calls : pc[c] # "none" => todo[c] # <<>>
    /\ job \in [Calls -> Jobs]
    /\ doing \in [Calls -> Jobs]
    /\ clock \in 0..MaxSyncs
    /\ crashes \in 0..MaxCrashes

Init ==
    /\ status = [k \in Keys |-> Idle]
    /\ loaded = [a \in Accounts |-> "no"]
    /\ active = {}
    /\ token = [a \in Accounts |-> NoCall]
    /\ chain = [k \in Keys |-> <<>>]
    /\ settled = [k \in Keys |-> "none"]
    /\ row = [k \in Keys |-> Idle]
    /\ plans = [a \in Accounts |-> "unsynced"]
    /\ pc = [c \in Calls |-> "none"]
    /\ todo = [c \in Calls |-> <<>>]
    /\ job = [c \in Calls |-> "syncSims"]
    /\ doing = [c \in Calls |-> "syncSims"]
    /\ clock = 0
    /\ crashes = 0

Account(c) == Head(todo[c])
Key(c) == <<Account(c), doing[c]>>
Loaded(a) == loaded[a] = "yes"

\* The call is between activeAccounts.add and the `finally` of runInTenant.
Inside(c) == pc[c] \notin {"none", "load"}

----------------------------------------------------------------------------
(* Status updates and their persistence.                                   *)

\* Mutant of UpdateSyncStatus: the upsert overtakes those queued before it.
UpdateSyncStatusUnchained(k, state, new, waiter) ==
    LET old == status[k].last
        last == IF new # 0 THEN new ELSE old
    IN  /\ status' = [status EXCEPT ![k] = [state |-> state, last |-> last]]
        /\ chain' = [chain EXCEPT ![k] =
               <<[state |-> state, last |-> last, prev |-> old, waiter |-> waiter]>> \o @]

\* updateSyncStatus with a forced write: memory changes at once, the upsert
\* joins the chain of its key.  `new` is the lastSyncedAt argument, 0 if not
\* given.  A start is always forced: see RunningIsBacked.
UpdateSyncStatus(k, state, new, waiter) ==
    LET old == status[k].last
        last == IF new # 0 THEN new ELSE old
    IN  /\ status' = [status EXCEPT ![k] = [state |-> state, last |-> last]]
        /\ chain' = [chain EXCEPT ![k] = Append(@,
               [state |-> state, last |-> last, prev |-> old, waiter |-> waiter])]

\* Mutant of Upsert: an update without lastSyncedAt writes null.
UpsertNull(old, w) == [state |-> w.state, last |-> w.last]

\* The upsert of persistSyncStatus: an update leaves last_synced_at alone when
\* the status has none.
Upsert(old, w) ==
    [state |-> w.state, last |-> IF w.last # 0 THEN w.last ELSE old.last]

\* Where a call goes on when the write it awaits settles.
Resumed(place) ==
    CASE place = "start" -> "work"
      [] place = "finish" -> "saved"
      [] place = "skip" -> "giveup"
      [] OTHER -> place

\* Mutant of AfterWrite: the new lastSyncedAt stays although it was not saved.
AfterWriteKeepsSync(old, w, saved) == old

\* The status once the write w of it has settled: a completion that was not
\* saved takes its new lastSyncedAt back.
AfterWrite(old, w, saved) ==
    IF ~saved /\ w.state = "completed" THEN [old EXCEPT !.last = w.prev] ELSE old

\* The oldest write of a key settles, and in the same turn of the event loop
\* the status is corrected and the call awaiting it resumes.
Settle(k) ==
    /\ chain[k] # <<>>
    /\ LET w == Head(chain[k]) IN
       \E outcome \in Outcomes :
          /\ row' = IF outcome # "lost" THEN [row EXCEPT ![k] = Upsert(@, w)] ELSE row
          /\ settled' = [settled EXCEPT ![k] = IF outcome = "saved" THEN "ok" ELSE "failed"]
          /\ status' = [status EXCEPT ![k] = AfterWrite(@, w, outcome = "saved")]
          /\ pc' = IF w.waiter # NoCall
                   THEN [pc EXCEPT ![w.waiter] = Resumed(@)]
                   ELSE pc
    /\ chain' = [chain EXCEPT ![k] = Tail(@)]
    /\ UNCHANGED <<loaded, active, token, plans, todo, job, doing, clock, crashes>>

----------------------------------------------------------------------------
(* Loading the persisted statuses of an account, once per process.         *)

\* The first call of ensureSyncStatusLoaded starts the load, later ones share it.
BeginLoad(a) == loaded' = [loaded EXCEPT ![a] = IF @ = "no" THEN "loading" ELSE @]

\* The load ends: the rows replace the account's statuses, or the query failed
\* and the statuses stay as they are.  The account counts as loaded either way.
LoadStatus(a) ==
    /\ loaded[a] = "loading"
    /\ loaded' = [loaded EXCEPT ![a] = "yes"]
    /\ \/ status' = [k \in Keys |-> IF k[1] = a THEN row[k] ELSE status[k]]
       \/ UNCHANGED status
    /\ UNCHANGED <<active, token, chain, settled, row, plans, calls, clock, crashes>>

\* GET /sync/status asks for the statuses.
GetSyncStatus(a) ==
    /\ loaded[a] = "no"
    /\ BeginLoad(a)
    /\ UNCHANGED <<status, active, token, chain, settled, row, plans, calls,
                   clock, crashes>>

----------------------------------------------------------------------------
(* Requests.                                                               *)

\* syncSims, syncRatingPlans, ... called for account a: up to the first await.
Request(c, list, j) ==
    /\ pc' = [pc EXCEPT ![c] = "load"]
    /\ todo' = [todo EXCEPT ![c] = list]
    /\ job' = [job EXCEPT ![c] = j]
    /\ doing' = [doing EXCEPT ![c] = j]
    /\ BeginLoad(Head(list))

\* A trigger of the controller; it answers at once and drops the promise.
Trigger(c) ==
    /\ c \in Manual /\ pc[c] = "none"
    /\ \E r \in Requests : Request(c, <<r[1]>>, r[2])
    /\ UNCHANGED <<status, active, token, chain, settled, row, plans, clock, crashes>>

\* syncEligibleAccounts once it has read the eligible accounts.
Dispatch(c) ==
    /\ c \in Cron /\ pc[c] = "none"
    /\ \E list \in EligibleLists : Request(c, list, "syncRatingPlans")
    /\ UNCHANGED <<status, active, token, chain, settled, row, plans, clock, crashes>>

\* Mutant of NextAccount: the loop over the accounts runs once too often.
NextAccountOffByOne(c) ==
    /\ pc' = [pc EXCEPT ![c] = "load"]
    /\ todo' = [todo EXCEPT ![c] = Tail(@)]
    /\ UNCHANGED <<job, doing, loaded>>

\* Mutant of NextAccount: an account whose sync failed is tried again.
NextAccountRetry(c) ==
    IF pc[c] = "giveup" THEN Request(c, todo[c], "syncRatingPlans")
    ELSE /\ pc' = [pc EXCEPT ![c] = "none"]
         /\ todo' = [todo EXCEPT ![c] = <<>>]
         /\ UNCHANGED <<job, doing, loaded>>

\* The call is done with its account: a cron pass goes on to the next one.
NextAccount(c) ==
    IF Tail(todo[c]) = <<>>
    THEN /\ pc' = [pc EXCEPT ![c] = "none"]
         /\ todo' = [todo EXCEPT ![c] = <<>>]
         /\ job' = [job EXCEPT ![c] = "syncSims"]
         /\ doing' = [doing EXCEPT ![c] = "syncSims"]
         /\ UNCHANGED loaded
    ELSE Request(c, Tail(todo[c]), "syncRatingPlans")

----------------------------------------------------------------------------
(* runInTenant and the jobs.                                               *)

\* A job of call c starts: status 'running', awaited.
StartJob(c, j) ==
    /\ doing' = [doing EXCEPT ![c] = j]
    /\ pc' = [pc EXCEPT ![c] = "start"]
    /\ UpdateSyncStatus(<<Account(c), j>>, "running", 0, c)

\* Only a cron pass says ratingPlansReady.
CountsPlans(c) == job[c] = "syncSims" /\ c \in Manual

\* Mutant of Enter: nobody looks whether the account is active.
EnterUnchecked(c) ==
    /\ pc[c] = "load" /\ Loaded(Account(c))
    /\ active' = active \cup {Account(c)}
    /\ StartJob(c, job[c])
    /\ UNCHANGED <<loaded, token, settled, row, plans, todo, job, clock, crashes>>

\* Mutant of Enter: the load of the statuses is not awaited.
EnterUnloaded(c) ==
    /\ pc[c] = "load"
    /\ Account(c) \notin active
    /\ active' = active \cup {Account(c)}
    /\ StartJob(c, job[c])
    /\ UNCHANGED <<loaded, token, settled, row, plans, todo, job, clock, crashes>>

\* The statuses are loaded and the account is free: take it and run up to the
\* next await.
Enter(c) ==
    /\ pc[c] = "load" /\ Loaded(Account(c))
    /\ Account(c) \notin active
    /\ active' = active \cup {Account(c)}
    /\ \/ /\ CountsPlans(c)
          /\ pc' = [pc EXCEPT ![c] = "count"]
          /\ UNCHANGED <<doing, status, chain>>
       \/ /\ ~CountsPlans(c)
          /\ StartJob(c, job[c])
    /\ UNCHANGED <<loaded, token, settled, row, plans, todo, job, clock, crashes>>

\* The account is busy: the call returns undefined, which a cron pass does not
\* take for a failure.  Its other two calls for the account follow in the same
\* turn of the event loop, before the holder can move, and find it busy too.
Busy(c) ==
    /\ pc[c] = "load" /\ Loaded(Account(c))
    /\ Account(c) \in active
    /\ NextAccount(c)
    /\ UNCHANGED <<status, active, token, chain, settled, row, plans, clock, crashes>>

\* A manual SIM sync counts the rating plans and syncs them first if there are
\* none.
CountPlans(c) ==
    /\ pc[c] = "count"
    /\ StartJob(c, IF plans[Account(c)] = "stored" THEN "syncSims"
                   ELSE "syncRatingPlans")
    /\ UNCHANGED <<loaded, active, token, settled, row, plans, todo, job, clock,
                   crashes>>

\* The count itself fails: syncSims rejects without touching its status.
CountFails(c) ==
    /\ pc[c] = "count"
    /\ pc' = [pc EXCEPT ![c] = "giveup"]
    /\ UNCHANGED <<memory, row, plans, todo, job, doing, clock, crashes>>

\* getToken: the token of the account is read once and cached for the run.
GetToken(c) ==
    /\ pc[c] = "work" /\ token[Account(c)] = NoCall
    /\ token' = [token EXCEPT ![Account(c)] = c]
    /\ UNCHANGED <<status, loaded, active, chain, settled, row, plans, calls,
                   clock, crashes>>

\* A sync that gets as far as the upstream has a token; a monthly usage sync of
\* an account without SIMs asks for none.
HasToken(c) == doing[c] = "syncMonthlyUsage" \/ token[Account(c)] # NoCall

\* The rating plan sync stores a plan.
StorePlan(c) ==
    /\ pc[c] = "work" /\ doing[c] = "syncRatingPlans" /\ HasToken(c)
    /\ plans[Account(c)] # "stored"
    /\ plans' = [plans EXCEPT ![Account(c)] = "stored"]
    /\ UNCHANGED <<memory, row, calls, clock, crashes>>

\* A progress update that is not throttled: the status stays 'running', nobody
\* awaits the write.  A throttled one changes nothing the model keeps.
Progress(c) ==
    /\ pc[c] = "work" /\ Len(chain[Key(c)]) < MaxPending
    /\ UpdateSyncStatus(Key(c), "running", 0, NoCall)
    /\ UNCHANGED <<loaded, active, token, settled, row, plans, calls, clock, crashes>>

\* completeSync: status 'completed' with a new lastSyncedAt, awaited.
Complete(c) ==
    /\ pc[c] = "work" /\ HasToken(c)
    /\ clock < MaxSyncs
    /\ clock' = clock + 1
    /\ UpdateSyncStatus(Key(c), "completed", clock + 1, c)
    /\ pc' = [pc EXCEPT ![c] = "finish"]
    /\ plans' = IF doing[c] = "syncRatingPlans" /\ plans[Account(c)] = "unsynced"
                THEN [plans EXCEPT ![Account(c)] = "empty"] ELSE plans
    /\ UNCHANGED <<loaded, active, token, settled, row, todo, job, doing, crashes>>

\* Mutant of Fail: the catch block does not touch the status.
FailSilently(c) ==
    /\ pc[c] = "work"
    /\ pc' = [pc EXCEPT ![c] = IF doing[c] = job[c] THEN "giveup" ELSE "unready"]
    /\ UNCHANGED <<memory, row, plans, todo, job, doing, clock, crashes>>

\* The catch block of a job: status 'failed', not awaited.  The nested rating
\* plan sync returns false to the SIM sync, every other job ends the run.
Fail(c) ==
    /\ pc[c] = "work"
    /\ UpdateSyncStatus(Key(c), "failed", 0, NoCall)
    /\ pc' = [pc EXCEPT ![c] = IF doing[c] = job[c] THEN "giveup" ELSE "unready"]
    /\ UNCHANGED <<loaded, active, token, settled, row, plans, todo, job, doing,
                   clock, crashes>>

\* The SIM sync without rating plans: status 'failed', awaited.
SkipSims(c) ==
    /\ pc[c] = "unready"
    /\ doing' = [doing EXCEPT ![c] = "syncSims"]
    /\ UpdateSyncStatus(<<Account(c), "syncSims">>, "failed", 0, c)
    /\ pc' = [pc EXCEPT ![c] = "skip"]
    /\ UNCHANGED <<loaded, active, token, settled, row, plans, todo, job, clock,
                   crashes>>

\* The nested rating plan sync is saved: the SIM sync follows.
StartSims(c) ==
    /\ pc[c] = "saved" /\ doing[c] # job[c]
    /\ StartJob(c, job[c])
    /\ UNCHANGED <<loaded, active, token, settled, row, plans, todo, job, clock,
                   crashes>>

\* The job of a call is over.
Ended(c) == pc[c] = "giveup" \/ (pc[c] = "saved" /\ doing[c] = job[c])

\* Mutant of FollowUp: the result of the rating plan sync is ignored.
FollowUpAnyway(c) ==
    CASE c \in Cron /\ job[c] = "syncRatingPlans" -> {"syncSims"}
      [] c \in Cron /\ job[c] = "syncSims" -> {"syncGroupSims"}
      [] OTHER -> {}

\* Mutant of DropToken: the token stays cached.
KeepToken(c) == UNCHANGED token

\* activeTokens.delete of the `finally`.
DropToken(c) == token' = [token EXCEPT ![Account(c)] = NoCall]

\* The job after which a cron pass stays with the account: the rating plans
\* unless they failed, the SIMs however they ended.
FollowUp(c) ==
    CASE c \in Cron /\ job[c] = "syncRatingPlans" /\ pc[c] = "saved" -> {"syncSims"}
      [] c \in Cron /\ job[c] = "syncSims" -> {"syncGroupSims"}
      [] OTHER -> {}

\* Mutant of HandOver: the account is released and not taken again.
HandOverReleased(c) ==
    /\ Ended(c)
    /\ \E j \in FollowUp(c) :
          /\ job' = [job EXCEPT ![c] = j]
          /\ StartJob(c, j)
    /\ active' = active \ {Account(c)}
    /\ DropToken(c)
    /\ UNCHANGED <<loaded, settled, row, plans, todo, clock, crashes>>

\* The `finally` of runInTenant and the next job of the cron pass: the account
\* is released and taken again in one turn of the event loop.
HandOver(c) ==
    /\ Ended(c)
    /\ \E j \in FollowUp(c) :
          /\ job' = [job EXCEPT ![c] = j]
          /\ StartJob(c, j)
    /\ DropToken(c)
    /\ UNCHANGED <<loaded, active, settled, row, plans, todo, clock, crashes>>

\* The `finally` of runInTenant, and the call is done with the account.
Leave(c) ==
    /\ Ended(c) /\ FollowUp(c) = {}
    /\ active' = active \ {Account(c)}
    /\ DropToken(c)
    /\ NextAccount(c)
    /\ UNCHANGED <<status, chain, settled, row, plans, clock, crashes>>

----------------------------------------------------------------------------
(* The process dies: its memory and its calls are gone.  Of every chain the *)
(* oldest write was on its way to the database and may still land.          *)
Crash ==
    /\ crashes < MaxCrashes
    /\ crashes' = crashes + 1
    /\ \E landed \in SUBSET {k \in Keys : chain[k] # <<>>} :
          row' = [k \in Keys |->
                    IF k \in landed THEN Upsert(row[k], Head(chain[k])) ELSE row[k]]
    /\ status' = [k \in Keys |-> Idle]
    /\ loaded' = [a \in Accounts |-> "no"]
    /\ active' = {}
    /\ token' = [a \in Accounts |-> NoCall]
    /\ chain' = [k \in Keys |-> <<>>]
    /\ settled' = [k \in Keys |-> "none"]
    /\ pc' = [c \in Calls |-> "none"]
    /\ todo' = [c \in Calls |-> <<>>]
    /\ job' = [c \in Calls |-> "syncSims"]
    /\ doing' = [c \in Calls |-> "syncSims"]
    /\ UNCHANGED <<plans, clock>>

----------------------------------------------------------------------------
Conclude(c) == Complete(c) \/ Fail(c)

\* The steps a call takes by itself once what it awaits is there.
Advance(c) ==
    \/ Enter(c) \/ Busy(c) \/ CountPlans(c) \/ CountFails(c)
    \/ Conclude(c) \/ SkipSims(c) \/ StartSims(c)
    \/ HandOver(c) \/ Leave(c)

\* What happens while the process lives.
Work ==
    \/ \E c \in Calls : \/ Trigger(c) \/ Dispatch(c) \/ Advance(c)
                        \/ GetToken(c) \/ StorePlan(c) \/ Progress(c)
    \/ \E k \in Keys : Settle(k)
    \/ \E a \in Accounts : LoadStatus(a) \/ GetSyncStatus(a)

Next == Work \/ Crash

Spec == Init /\ [][Next]_vars

\* Database and upstream answer or time out, and the event loop resumes every
\* call whose await is over.  Nothing obliges a user or the cron to call.
Fairness ==
    /\ \A c \in Calls : WF_vars(Advance(c))
    /\ \A k \in Keys : WF_vars(Settle(k))
    /\ \A a \in Accounts : WF_vars(LoadStatus(a))

FairSpec == Spec /\ Fairness

----------------------------------------------------------------------------
(* Safety.                                                                 *)

\* activeAccounts names exactly the accounts of the calls that are inside
\* runInTenant, and no account has two: the check after the awaited load and
\* the `finally` hold over every interleaving, failure and restart.
LockMatchesRuns ==
    /\ active = {Account(c) : c \in {d \in Calls : Inside(d)}}
    /\ \A c, d \in Calls :
          Inside(c) /\ Inside(d) /\ Account(c) = Account(d) => c = d

\* While a call works on a job, the status of that job is the call's own: no
\* other call, late load or late write overwrites it.
StatusIsTheRuns ==
    \A c \in Calls :
        /\ pc[c] \in {"start", "work"} => status[Key(c)].state = "running"
        /\ pc[c] \in {"finish", "saved"} => status[Key(c)].state = "completed"
        /\ pc[c] = "skip" => status[Key(c)].state = "failed"

Works(c, k) == pc[c] \in {"start", "work"} /\ Key(c) = k

\* A job shown as running has a call behind it, or the status was restored from
\* the table and this process has written none for the job since: so a start,
\* which finds such a status at most, is never throttled.
RunningIsBacked ==
    \A k \in Keys :
        status[k].state = "running" /\ (\A c \in Calls : ~Works(c, k)) =>
            /\ chain[k] = <<>> /\ settled[k] = "none"
            /\ row[k].state = "running"

\* Once the writes of a key have settled and the last one was acknowledged, the
\* table holds the state in memory, and the lastSyncedAt in memory if it has one
\* (after a failed load it has none until a sync completes).
TableMatchesMemory ==
    \A k \in Keys :
        chain[k] = <<>> /\ settled[k] = "ok" =>
           /\ row[k].state = status[k].state
           /\ status[k].last \in {0, row[k].last}

Completing(k) == \E i \in DOMAIN chain[k] : chain[k][i].state = "completed"

\* A reported lastSyncedAt is in the table, where a crash leaves it, or its write is
\* still queued: none is shown that was lost and not taken back.
ReportedSyncIsDurable ==
    \A k \in Keys : status[k].last <= row[k].last \/ Completing(k)

\* Once the table has a lastSyncedAt for a job, no write, failed load or
\* restart erases it.
SyncTimeNeverErased == [][\A k \in Keys : row[k].last # 0 => row'[k].last # 0]_vars

\* A cached token was fetched by the run that now has the account: no run goes
\* upstream with a token left over from an earlier one.
TokenIsTheRuns ==
    \A a \in Accounts : token[a] # NoCall =>
        Inside(token[a]) /\ Account(token[a]) = a

\* A call is loading or storing SIMs.
SyncsSims(c) == pc[c] = "work" /\ doing[c] = "syncSims"

\* No SIM sync, manual or of a cron pass, works on an account whose rating plans
\* were never synced: the sims it stores refer to them.
SimsFollowPlans ==
    \A c \in Calls : SyncsSims(c) => plans[Account(c)] # "unsynced"

----------------------------------------------------------------------------
(* What makes the safety properties inductive.                             *)

\* Statuses are written, and accounts entered, only after the load.
LoadedFirst ==
    /\ \A k \in Keys : chain[k] # <<>> \/ settled[k] # "none" => Loaded(k[1])
    /\ \A c \in Calls : Inside(c) => Loaded(Account(c))

\* An awaited write, and so every completion, is the newest of its chain: while
\* the call that made it waits, nobody else writes the key.
AwaitedLast ==
    \A k \in Keys : \A i \in DOMAIN chain[k] :
        LET w == chain[k][i] IN
        /\ w.state = "completed" => w.waiter # NoCall
        /\ w.waiter # NoCall =>
              /\ i = Len(chain[k])
              /\ pc[w.waiter] \in {"start", "finish", "skip"} /\ Key(w.waiter) = k

\* The newest write of a key.
Newest(k) == chain[k][Len(chain[k])]

\* The lastSyncedAt of a key but for a completion still to be saved.
SavedSync(k) ==
    IF chain[k] # <<>> /\ Newest(k).state = "completed" THEN Newest(k).prev
    ELSE status[k].last

\* The table is never behind it, and every other write carries it.
SyncTimesOrdered ==
    \A k \in Keys :
        /\ status[k].last <= clock /\ row[k].last <= clock
        /\ SavedSync(k) <= row[k].last
        /\ \A i \in DOMAIN chain[k] :
              LET w == chain[k][i] IN
              IF w.state = "completed"
              THEN w.prev < w.last /\ w.last <= clock /\ w.last = status[k].last
              ELSE w.last = SavedSync(k)

\* The newest write is of the state in memory.
NewestIsCurrent ==
    \A k \in Keys : chain[k] # <<>> => Newest(k).state = status[k].state

\* A rating plan sync that is saved has left plans or found none, and the jobs
\* of the call that come after it rely on that.
PlansKeptBy(c) ==
    /\ pc[c] = "load" => doing[c] = job[c] /\ (c \in Cron => job[c] = "syncRatingPlans")
    /\ pc[c] \in {"count", "unready"} => job[c] = "syncSims"
    /\ Inside(c) /\ doing[c] # job[c] =>
          job[c] = "syncSims" /\ doing[c] = "syncRatingPlans"
    /\ pc[c] \in {"finish", "saved"} /\ doing[c] = "syncRatingPlans" =>
          plans[Account(c)] # "unsynced"
    /\ pc[c] \in {"start", "work"} /\ doing[c] = "syncSims" =>
          plans[Account(c)] # "unsynced"

PlansKept == \A c \in Calls : PlansKeptBy(c)

----------------------------------------------------------------------------
(* Liveness, under FairSpec.                                               *)

\* Every call ends: a cron pass serves its list and stops, whatever fails.
CallsEnd == \A c \in Calls : pc[c] # "none" ~> pc[c] = "none"

----------------------------------------------------------------------------
(* What that rests on, as safety.                                          *)

\* No wait is forgotten: a call that awaits the statuses of its account finds
\* them loaded or loading, and one that awaits a write has it as the newest of
\* its chain, whatever was queued, settled or loaded since.
WaitsAnswered ==
    \A c \in Calls :
        /\ pc[c] = "load" => loaded[Account(c)] # "no"
        /\ pc[c] \in {"start", "finish", "skip"} =>
              chain[Key(c)] # <<>> /\ Newest(Key(c)).waiter = c

\* What is left of a call: the accounts of its list, the jobs of a cron pass at
\* this account, the rating plan sync before a SIM sync, and the rest of the job.
JobsLeft(c) ==
    IF c \in Cron
    THEN CASE job[c] = "syncRatingPlans" -> 2 [] job[c] = "syncSims" -> 1 [] OTHER -> 0
    ELSE 0
PlansLeft(c) == IF pc[c] \in {"load", "count"} \/ doing[c] # job[c] THEN 1 ELSE 0
PlacesLeft(c) ==
    CASE pc[c] = "load" -> 8 [] pc[c] = "count" -> 7 [] pc[c] = "start" -> 6
      [] pc[c] = "work" -> 5 [] pc[c] \in {"finish", "unready"} -> 4
      [] pc[c] = "skip" -> 3 [] pc[c] = "saved" -> 2 [] OTHER -> 1
Effort(c) ==
    IF pc[c] = "none" THEN 0
    ELSE 60 * Len(todo[c]) + 20 * JobsLeft(c) + 10 * PlansLeft(c) + PlacesLeft(c)

At(c) == <<pc[c], todo[c], job[c], doing[c]>>

\* A call never comes back to where it was: until it is done, every step of its
\* own, every write that lets it go on and every restart leaves it less to do,
\* and no other step moves it.
CallsWindDown ==
    [][\A c \in Calls : pc[c] # "none" =>
          At(c)' = At(c) \/ Effort(c)' \in 0 .. Effort(c) - 1]_vars

----------------------------------------------------------------------------
(* What the engine promises about the accounts, and nothing else.          *)

\* The calls between activeAccounts.add and the `finally`, per account.
Holder == [a \in Accounts |-> {c \in Calls : Inside(c) /\ Account(c) = a}]

Lock == INSTANCE AccountLock WITH holder <- Holder

\* runInTenant is a lock: seen from outside, a run, its waits for the database,
\* its failures and the hand-over between two jobs of a cron pass only ever take
\* a free account, keep it, and give it back in the end.
LockImplemented == Lock!Spec
=============================================================================
