----------------------------- MODULE SyncProofs -----------------------------
(***************************************************************************)
(* Proofs about the sync engine and its watchers, for any accounts, calls, *)
(* eligible lists, streams and bounds.  First SyncJobs by itself: types,   *)
(* the lock, what survives a crash, the token, the plans, the statuses;    *)
(* then SyncEvents: with its streams the engine is still the one of        *)
(* SyncJobs, and what the streams show is what it holds.                   *)
(***************************************************************************)
EXTENDS SyncEvents, SequenceTheorems, TLAPS

----------------------------------------------------------------------------
(* Type correctness.                                                       *)

LEMMA AccountType ==
    ASSUME TypeOK, NEW c \in Calls, pc[c] # "none"
    PROVE  Account(c) \in Accounts /\ Key(c) \in Keys
  BY DEF TypeOK, Account, Key, Keys

LEMMA UpdateType ==
    ASSUME TypeOK, NEW k \in Keys, NEW state \in States, NEW new \in Nat,
           NEW waiter \in Calls \cup {NoCall},
           UpdateSyncStatus(k, state, new, waiter)
    PROVE  status' \in [Keys -> Status] /\ chain' \in [Keys -> Seq(Write)]
  <1> DEFINE old == status[k].last
             last == IF new # 0 THEN new ELSE old
             w == [state |-> state, last |-> last, prev |-> old, waiter |-> waiter]
  <1>1. old \in Nat /\ last \in Nat
    BY DEF TypeOK, Status
  <1>2. [state |-> state, last |-> last] \in Status /\ w \in Write
    BY <1>1 DEF Status, Write
  <1>3. status' = [status EXCEPT ![k] = [state |-> state, last |-> last]]
        /\ chain' = [chain EXCEPT ![k] = Append(@, w)]
    BY DEF UpdateSyncStatus
  <1>4. Append(chain[k], w) \in Seq(Write)
    BY <1>2 DEF TypeOK
  <1> HIDE DEF w, last
  <1> QED
    BY <1>2, <1>3, <1>4 DEF TypeOK

LEMMA StartType ==
    ASSUME TypeOK, NEW c \in Calls, pc[c] # "none", NEW j \in Jobs, StartJob(c, j)
    PROVE  /\ status' \in [Keys -> Status] /\ chain' \in [Keys -> Seq(Write)]
           /\ pc' \in [Calls -> Places] /\ doing' \in [Calls -> Jobs]
           /\ \A d \in Calls : pc'[d] # "none" => pc[d] # "none"
  <1>1. <<Account(c), j>> \in Keys
    BY AccountType DEF Keys
  <1>2. UpdateSyncStatus(<<Account(c), j>>, "running", 0, c)
    BY DEF StartJob
  <1>3. status' \in [Keys -> Status] /\ chain' \in [Keys -> Seq(Write)]
    BY <1>1, <1>2, UpdateType DEF States
  <1> QED
    BY <1>3 DEF StartJob, TypeOK, Places

LEMMA RequestType ==
    ASSUME TypeOK, NEW c \in Calls, NEW list \in Seq(Accounts), list # <<>>,
           NEW j \in Jobs, Request(c, list, j)
    PROVE  /\ pc' \in [Calls -> Places] /\ todo' \in [Calls -> Seq(Accounts)]
           /\ job' \in [Calls -> Jobs] /\ doing' \in [Calls -> Jobs]
           /\ loaded' \in [Accounts -> {"no", "loading", "yes"}]
           /\ \A d \in Calls : pc'[d] # "none" => todo'[d] # <<>>
  BY DEF Request, BeginLoad, TypeOK, Places

LEMMA NextAccountType ==
    ASSUME TypeOK, NEW c \in Calls, pc[c] # "none", NextAccount(c)
    PROVE  /\ pc' \in [Calls -> Places] /\ todo' \in [Calls -> Seq(Accounts)]
           /\ job' \in [Calls -> Jobs] /\ doing' \in [Calls -> Jobs]
           /\ loaded' \in [Accounts -> {"no", "loading", "yes"}]
           /\ \A d \in Calls : pc'[d] # "none" => todo'[d] # <<>>
  <1>1. Tail(todo[c]) \in Seq(Accounts)
    BY DEF TypeOK
  <1>2. CASE Tail(todo[c]) = <<>>
    <2>1. <<>> \in Seq(Accounts)
      OBVIOUS
    <2>2. /\ pc' = [pc EXCEPT ![c] = "none"]
          /\ todo' = [todo EXCEPT ![c] = <<>>]
          /\ job' = [job EXCEPT ![c] = "syncSims"]
          /\ doing' = [doing EXCEPT ![c] = "syncSims"]
          /\ loaded' = loaded
      BY <1>2 DEF NextAccount
    <2> QED
      BY <2>1, <2>2 DEF TypeOK, Places, Jobs
  <1>3. CASE Tail(todo[c]) # <<>>
    <2>1. Request(c, Tail(todo[c]), "syncRatingPlans")
      BY <1>3 DEF NextAccount
    <2> QED
      BY <1>1, <1>3, <2>1, RequestType DEF Jobs
  <1> QED
    BY <1>2, <1>3

LEMMA TypeInit == Init => TypeOK
  <1> SUFFICES ASSUME Init PROVE TypeOK
    OBVIOUS
  <1>1. <<>> \in Seq(Write) /\ <<>> \in Seq(Accounts)
    OBVIOUS
  <1>2. Idle \in Status
    BY DEF Idle, Status, States
  <1> QED
    BY <1>1, <1>2, BoundsAssumption DEF Init, TypeOK, Places, Jobs

LEMMA TypeStep == TypeOK /\ [Next]_vars => TypeOK'
  <1> SUFFICES ASSUME TypeOK, [Next]_vars PROVE TypeOK'
    OBVIOUS
  <1> USE BoundsAssumption
  <1>1. ASSUME NEW c \in Calls, Trigger(c) PROVE TypeOK'
    <2>1. PICK r \in Requests : Request(c, <<r[1]>>, r[2])
      BY <1>1 DEF Trigger
    <2>2. <<r[1]>> \in Seq(Accounts) /\ <<r[1]>> # <<>> /\ r[2] \in Jobs
      BY InputsAssumption DEF Keys
    <2> QED
      BY <1>1, <2>1, <2>2, RequestType DEF Trigger, TypeOK
  <1>2. ASSUME NEW c \in Calls, Dispatch(c) PROVE TypeOK'
    <2>1. PICK list \in EligibleLists : Request(c, list, "syncRatingPlans")
      BY <1>2 DEF Dispatch
    <2>2. list \in Seq(Accounts) /\ list # <<>> /\ "syncRatingPlans" \in Jobs
      BY InputsAssumption DEF Jobs
    <2> QED
      BY <1>2, <2>1, <2>2, RequestType DEF Dispatch, TypeOK
  <1>3. ASSUME NEW c \in Calls, Enter(c) PROVE TypeOK'
    <2>1. pc[c] # "none" /\ Account(c) \in Accounts
      BY <1>3, AccountType DEF Enter
    <2>2. CASE pc' = [pc EXCEPT ![c] = "count"] /\ UNCHANGED <<doing, status, chain>>
      BY <1>3, <2>1, <2>2 DEF Enter, TypeOK, Places
    <2>3. CASE StartJob(c, job[c])
      BY <1>3, <2>1, <2>3, StartType DEF Enter, TypeOK
    <2> QED
      BY <1>3, <2>2, <2>3 DEF Enter
  <1>4. ASSUME NEW c \in Calls, Busy(c) PROVE TypeOK'
    BY <1>4, NextAccountType DEF Busy, TypeOK
  <1>5. ASSUME NEW c \in Calls, CountPlans(c) PROVE TypeOK'
    <2>1. pc[c] # "none" /\ {"syncSims", "syncRatingPlans"} \subseteq Jobs
      BY <1>5 DEF CountPlans, Jobs
    <2> QED
      BY <1>5, <2>1, StartType DEF CountPlans, TypeOK
  <1>6. ASSUME NEW c \in Calls, CountFails(c) PROVE TypeOK'
    BY <1>6 DEF CountFails, TypeOK, Places, memory
  <1>7. ASSUME NEW c \in Calls, Complete(c) PROVE TypeOK'
    <2>1. pc[c] # "none" /\ clock \in Nat /\ clock + 1 \in 0..MaxSyncs
      BY <1>7 DEF Complete, TypeOK
    <2>2. status' \in [Keys -> Status] /\ chain' \in [Keys -> Seq(Write)]
      BY <1>7, <2>1, AccountType, UpdateType DEF Complete, States
    <2>3. plans' \in [Accounts -> {"unsynced", "empty", "stored"}]
      BY <1>7 DEF Complete, TypeOK
    <2> QED
      BY <1>7, <2>1, <2>2, <2>3 DEF Complete, TypeOK, Places
  <1>8. ASSUME NEW c \in Calls, Fail(c) PROVE TypeOK'
    <2>1. pc[c] # "none"
      BY <1>8 DEF Fail
    <2>2. status' \in [Keys -> Status] /\ chain' \in [Keys -> Seq(Write)]
      BY <1>8, <2>1, AccountType, UpdateType DEF Fail, States
    <2> QED
      BY <1>8, <2>1, <2>2 DEF Fail, TypeOK, Places
  <1>9. ASSUME NEW c \in Calls, SkipSims(c) PROVE TypeOK'
    <2>1. pc[c] # "none" /\ "syncSims" \in Jobs
      BY <1>9 DEF SkipSims, Jobs
    <2>2. <<Account(c), "syncSims">> \in Keys
      BY <2>1, AccountType DEF Keys
    <2>3. status' \in [Keys -> Status] /\ chain' \in [Keys -> Seq(Write)]
      BY <1>9, <2>2, UpdateType DEF SkipSims, States
    <2> QED
      BY <1>9, <2>1, <2>3 DEF SkipSims, TypeOK, Places
  <1>10. ASSUME NEW c \in Calls, StartSims(c) PROVE TypeOK'
    <2>1. pc[c] # "none" /\ job[c] \in Jobs
      BY <1>10 DEF StartSims, TypeOK
    <2> QED
      BY <1>10, <2>1, StartType DEF StartSims, TypeOK
  <1>11. ASSUME NEW c \in Calls, HandOver(c) PROVE TypeOK'
    <2>1. pc[c] # "none" /\ Account(c) \in Accounts
      BY <1>11, AccountType DEF HandOver, Ended
    <2>2. PICK j \in FollowUp(c) : job' = [job EXCEPT ![c] = j] /\ StartJob(c, j)
      BY <1>11 DEF HandOver
    <2>3. j \in Jobs
      BY <2>2 DEF FollowUp, Jobs
    <2> QED
      BY <1>11, <2>1, <2>2, <2>3, StartType DEF HandOver, DropToken, TypeOK
  <1>12. ASSUME NEW c \in Calls, Leave(c) PROVE TypeOK'
    <2>1. pc[c] # "none" /\ Account(c) \in Accounts
      BY <1>12, AccountType DEF Leave, Ended
    <2> QED
      BY <1>12, <2>1, NextAccountType DEF Leave, DropToken, TypeOK
  <1>13. ASSUME NEW c \in Calls, GetToken(c) PROVE TypeOK'
    BY <1>13 DEF GetToken, TypeOK, calls
  <1>14. ASSUME NEW c \in Calls, StorePlan(c) PROVE TypeOK'
    BY <1>14 DEF StorePlan, TypeOK, memory, calls
  <1>15. ASSUME NEW c \in Calls, Progress(c) PROVE TypeOK'
    <2>1. status' \in [Keys -> Status] /\ chain' \in [Keys -> Seq(Write)]
      BY <1>15, AccountType, UpdateType DEF Progress, States
    <2> QED
      BY <1>15, <2>1 DEF Progress, TypeOK, calls
  <1>16. ASSUME NEW k \in Keys, Settle(k) PROVE TypeOK'
    <2> DEFINE w == Head(chain[k])
    <2>1. w \in Write /\ Tail(chain[k]) \in Seq(Write)
      BY <1>16 DEF Settle, TypeOK
    <2>2. PICK outcome \in Outcomes :
            /\ row' = IF outcome # "lost" THEN [row EXCEPT ![k] = Upsert(@, w)] ELSE row
            /\ settled' = [settled EXCEPT ![k] = IF outcome = "saved" THEN "ok" ELSE "failed"]
            /\ status' = [status EXCEPT ![k] = AfterWrite(@, w, outcome = "saved")]
            /\ pc' = IF w.waiter # NoCall THEN [pc EXCEPT ![w.waiter] = Resumed(@)] ELSE pc
      BY <1>16 DEF Settle
    <2> HIDE DEF w
    <2>3. Upsert(row[k], w) \in Status
      <3>1. row[k].last \in Nat /\ w.last \in Nat /\ w.state \in States
        BY <2>1 DEF Write, Status, TypeOK
      <3> QED
        BY <3>1 DEF Upsert, Status
    <2>4. AfterWrite(status[k], w, outcome = "saved") \in Status
      <3>1. status[k] \in Status /\ w.prev \in Nat
        BY <2>1 DEF Write, TypeOK
      <3>2. [status[k] EXCEPT !.last = w.prev] \in Status
        BY <3>1 DEF Status
      <3> QED
        BY <3>1, <3>2 DEF AfterWrite
    <2>5. w.waiter # NoCall => w.waiter \in Calls
      BY <2>1 DEF Write
    <2>6. \A p \in Places : Resumed(p) \in Places /\ (Resumed(p) # "none" <=> p # "none")
      BY DEF Resumed, Places
    <2>7. pc' \in [Calls -> Places] /\ (\A d \in Calls : pc'[d] # "none" => pc[d] # "none")
      BY <2>2, <2>5, <2>6 DEF TypeOK
    <2>8. row' \in [Keys -> Status] /\ status' \in [Keys -> Status]
      BY <2>2, <2>3, <2>4 DEF TypeOK
    <2>9. chain' = [chain EXCEPT ![k] = Tail(@)]
          /\ UNCHANGED <<loaded, active, token, plans, todo, job, doing, clock, crashes>>
      BY <1>16 DEF Settle
    <2> QED
      BY <2>1, <2>2, <2>7, <2>8, <2>9 DEF TypeOK
  <1>17. ASSUME NEW a \in Accounts, LoadStatus(a) PROVE TypeOK'
    <2>1. status' \in [Keys -> Status]
      BY <1>17 DEF LoadStatus, TypeOK
    <2> QED
      BY <1>17, <2>1 DEF LoadStatus, TypeOK, calls
  <1>18. ASSUME NEW a \in Accounts, GetSyncStatus(a) PROVE TypeOK'
    BY <1>18 DEF GetSyncStatus, BeginLoad, TypeOK, calls
  <1>19. ASSUME Crash PROVE TypeOK'
    <2>1. <<>> \in Seq(Write) /\ <<>> \in Seq(Accounts) /\ Idle \in Status
      BY DEF Idle, Status, States
    <2>2. \A k \in Keys : chain[k] # <<>> => Head(chain[k]) \in Write
      BY DEF TypeOK
    <2>3. \A k \in Keys : chain[k] # <<>> => Upsert(row[k], Head(chain[k])) \in Status
      <3> SUFFICES ASSUME NEW k \in Keys, NEW w \in Write
                   PROVE Upsert(row[k], w) \in Status
        BY <2>2
      <3> QED
        BY DEF Upsert, Write, Status, TypeOK
    <2>4. row' \in [Keys -> Status]
      BY <1>19, <2>3 DEF Crash, TypeOK
    <2> QED
      BY <1>19, <2>1, <2>4 DEF Crash, TypeOK, Places, Jobs
  <1>20. CASE UNCHANGED vars
    BY <1>20 DEF TypeOK, vars, memory, calls
  <1> QED
    BY <1>1, <1>2, <1>3, <1>4, <1>5, <1>6, <1>7, <1>8, <1>9, <1>10, <1>11, <1>12,
       <1>13, <1>14, <1>15, <1>16, <1>17, <1>18, <1>19, <1>20
       DEF Next, Work, Advance, Conclude

\* Every variable keeps its type: no step of any call, write, load or restart
\* leaves the states the service declares.
THEOREM TypeCorrect == Spec => []TypeOK
  BY TypeInit, TypeStep, PTL DEF Spec

----------------------------------------------------------------------------
(* The account lock.  Every step leaves the calls inside runInTenant as    *)
(* they are, or lets one in, or lets one out, or ends them all.            *)

\* The calls inside stay inside, with their account.
Unmoved == /\ active' = active
           /\ \A d \in Calls : /\ Inside(d)' = Inside(d)
                               /\ Inside(d) => todo'[d] = todo[d]

OthersStay(c) == \A d \in Calls \ {c} : pc'[d] = pc[d] /\ todo'[d] = todo[d]

Entered(c) == /\ pc[c] = "load" /\ Loaded(Account(c)) /\ Account(c) \notin active
              /\ active' = active \cup {Account(c)}
              /\ pc'[c] \in {"count", "start"} /\ todo' = todo
              /\ OthersStay(c)

Left(c) == /\ Inside(c) /\ ~Inside(c)'
           /\ active' = active \ {Account(c)}
           /\ DropToken(c)
           /\ OthersStay(c)

LEMMA NextAccountOutside ==
    ASSUME TypeOK, NEW c \in Calls, NextAccount(c)
    PROVE  ~Inside(c)' /\ OthersStay(c)
  BY DEF NextAccount, Request, Inside, OthersStay, TypeOK

LEMMA StepKinds ==
    ASSUME TypeOK, [Next]_vars
    PROVE  Unmoved \/ Crash \/ \E c \in Calls : Entered(c) \/ Left(c)
  <1>1. ASSUME NEW c \in Calls, Trigger(c) \/ Dispatch(c) PROVE Unmoved
    <2>1. pc[c] = "none" /\ active' = active
      BY <1>1 DEF Trigger, Dispatch
    <2>2. /\ pc' = [pc EXCEPT ![c] = "load"]
          /\ \A d \in Calls \ {c} : todo'[d] = todo[d]
      BY <1>1 DEF Trigger, Dispatch, Request, TypeOK
    <2> QED
      BY <2>1, <2>2 DEF Unmoved, Inside, TypeOK
  <1>2. ASSUME NEW c \in Calls, Enter(c) PROVE Entered(c)
    <2>1. pc' = [pc EXCEPT ![c] = "count"] \/ pc' = [pc EXCEPT ![c] = "start"]
      BY <1>2 DEF Enter, StartJob
    <2> QED
      BY <1>2, <2>1 DEF Enter, Entered, OthersStay, TypeOK
  <1>3. ASSUME NEW c \in Calls, Busy(c) PROVE Unmoved
    BY <1>3, NextAccountOutside DEF Busy, Unmoved, OthersStay, Inside
  <1>4. ASSUME NEW c \in Calls,
               CountPlans(c) \/ CountFails(c) \/ Conclude(c) \/ SkipSims(c)
               \/ StartSims(c) \/ HandOver(c)
        PROVE Unmoved
    <2>1. Inside(c) /\ active' = active /\ todo' = todo
      BY <1>4 DEF CountPlans, CountFails, Conclude, Complete, Fail, SkipSims,
                  StartSims, HandOver, Ended, Inside, memory
    <2>2. \E p \in {"start", "giveup", "finish", "unready", "skip"} :
             pc' = [pc EXCEPT ![c] = p]
      BY <1>4 DEF CountPlans, CountFails, Conclude, Complete, Fail, SkipSims,
                  StartSims, HandOver, StartJob
    <2> QED
      BY <2>1, <2>2 DEF Unmoved, Inside, TypeOK
  <1>5. ASSUME NEW c \in Calls, Leave(c) PROVE Left(c)
    BY <1>5, NextAccountOutside DEF Leave, Left, Ended, Inside
  <1>6. ASSUME NEW c \in Calls, GetToken(c) \/ StorePlan(c) \/ Progress(c) PROVE Unmoved
    BY <1>6 DEF GetToken, StorePlan, Progress, calls, memory, Unmoved, Inside
  <1>7. ASSUME NEW k \in Keys, Settle(k) PROVE Unmoved
    <2>1. pc' = pc \/ \E c \in Calls : pc' = [pc EXCEPT ![c] = Resumed(@)]
      <3>1. Head(chain[k]) \in Write
        BY <1>7 DEF Settle, TypeOK
      <3> QED
        BY <1>7, <3>1 DEF Settle, Write
    <2>2. \A p \in Places : Resumed(p) \in {"none", "load"} <=> p \in {"none", "load"}
      BY DEF Resumed, Places
    <2>3. \A d \in Calls : Inside(d)' = Inside(d)
      BY <2>1, <2>2 DEF Inside, TypeOK
    <2> QED
      BY <1>7, <2>3 DEF Settle, Unmoved
  <1>8. ASSUME NEW a \in Accounts, LoadStatus(a) \/ GetSyncStatus(a) PROVE Unmoved
    BY <1>8 DEF LoadStatus, GetSyncStatus, calls, Unmoved, Inside
  <1>9. CASE UNCHANGED vars
    BY <1>9 DEF vars, memory, calls, Unmoved, Inside
  <1> QED
    BY <1>1, <1>2, <1>3, <1>4, <1>5, <1>6, <1>7, <1>8, <1>9 DEF Next, Work, Advance

LEMMA LockStep ==
    ASSUME TypeOK, LockMatchesRuns, [Next]_vars
    PROVE  LockMatchesRuns'
  <1>1. CASE Unmoved
    <2>1. \A d \in Calls : Inside(d) => Account(d)' = Account(d)
      BY <1>1 DEF Unmoved, Account
    <2> QED
      BY <1>1, <2>1 DEF Unmoved, LockMatchesRuns
  <1>2. ASSUME NEW c \in Calls, Entered(c) PROVE LockMatchesRuns'
    <2>1. \A d \in Calls : Account(d)' = Account(d)
      BY <1>2 DEF Entered, Account
    <2>2. ~Inside(c) /\ Inside(c)' /\ \A d \in Calls \ {c} : Inside(d)' = Inside(d)
      BY <1>2 DEF Entered, OthersStay, Inside
    <2> QED
      BY <1>2, <2>1, <2>2 DEF Entered, LockMatchesRuns
  <1>3. ASSUME NEW c \in Calls, Left(c) PROVE LockMatchesRuns'
    <2>1. \A d \in Calls \ {c} : Account(d)' = Account(d) /\ Inside(d)' = Inside(d)
      BY <1>3 DEF Left, OthersStay, Account, Inside
    <2> QED
      BY <1>3, <2>1 DEF Left, LockMatchesRuns
  <1>4. CASE Crash
    BY <1>4 DEF Crash, LockMatchesRuns, Inside
  <1> QED
    BY <1>1, <1>2, <1>3, <1>4, StepKinds

\* An account is marked active exactly while one call runs its sync, and it is
\* never more than one: the mutual exclusion activeAccounts is there for.
THEOREM LockCorrect == Spec => []LockMatchesRuns
  <1>1. Init => LockMatchesRuns
    BY DEF Init, LockMatchesRuns, Inside
  <1> QED
    BY <1>1, LockStep, TypeCorrect, PTL DEF Spec

----------------------------------------------------------------------------
(* The abstract lock.                                                      *)

\* Seen as a lock on the accounts, a step of the engine takes a free account,
\* gives one back, restarts, or changes nothing.
LEMMA LockSimulated ==
    ASSUME TypeOK, LockMatchesRuns, [Next]_vars
    PROVE  Lock!Next \/ UNCHANGED Holder
  <1>1. CASE Unmoved
    <2>1. \A d \in Calls : Inside(d) => Account(d)' = Account(d)
      BY <1>1 DEF Unmoved, Account
    <2> QED
      BY <1>1, <2>1 DEF Unmoved, Holder
  <1>2. ASSUME NEW c \in Calls, Entered(c) PROVE Lock!Next
    <2>1. Account(c) \in Accounts
      BY <1>2, AccountType DEF Entered
    <2>2. \A d \in Calls : Account(d)' = Account(d)
      BY <1>2 DEF Entered, Account
    <2>3. ~Inside(c) /\ Inside(c)' /\ \A d \in Calls \ {c} : Inside(d)' = Inside(d)
      BY <1>2 DEF Entered, OthersStay, Inside
    <2>4. Holder[Account(c)] = {}
      BY <1>2, <2>1 DEF Entered, LockMatchesRuns, Holder
    <2>5. Holder' = [Holder EXCEPT ![Account(c)] = {c}]
      <3>1. \A a \in Accounts : Holder'[a] = IF a = Account(c) THEN {c} ELSE Holder[a]
        BY <2>2, <2>3, <2>4 DEF Holder
      <3> QED
        BY <3>1 DEF Holder
    <2> QED
      BY <2>1, <2>4, <2>5 DEF Lock!Next, Lock!Acquire
  <1>3. ASSUME NEW c \in Calls, Left(c) PROVE Lock!Next
    <2>1. Account(c) \in Accounts
      BY <1>3, AccountType DEF Left, Inside
    <2>2. \A d \in Calls \ {c} : Account(d)' = Account(d) /\ Inside(d)' = Inside(d)
      BY <1>3 DEF Left, OthersStay, Account, Inside
    <2>3. Holder[Account(c)] = {c}
      BY <1>3, <2>1 DEF Left, LockMatchesRuns, Holder
    <2>4. Holder' = [Holder EXCEPT ![Account(c)] = {}]
      <3>1. \A a \in Accounts : Holder'[a] = IF a = Account(c) THEN {} ELSE Holder[a]
        BY <1>3, <2>2, <2>3 DEF Holder, Left
      <3> QED
        BY <3>1 DEF Holder
    <2> QED
      BY <2>1, <2>3, <2>4 DEF Lock!Next, Lock!Release
  <1>4. CASE Crash
    <2>1. \A d \in Calls : ~Inside(d)'
      BY <1>4 DEF Crash, Inside
    <2> QED
      BY <2>1 DEF Holder, Lock!Next, Lock!Restart
  <1> QED
    BY <1>1, <1>2, <1>3, <1>4, StepKinds

\* runInTenant implements a lock per account, for any accounts and calls: no step
\* of any job takes an account that is held or gives back one it does not hold.
THEOREM LockRefined == Spec => LockImplemented
  <1>1. Init => Lock!Init
    BY DEF Init, Lock!Init, Holder, Inside
  <1>2. TypeOK /\ LockMatchesRuns /\ [Next]_vars => [Lock!Next]_Holder
    BY LockSimulated
  <1> QED
    BY <1>1, <1>2, TypeCorrect, LockCorrect, PTL DEF Spec, LockImplemented, Lock!Spec

----------------------------------------------------------------------------
(* The writes.  Every step queues one write for the account its call has,  *)
(* or settles one, or loads, or restarts, or leaves the statuses alone.    *)

Waiting(c) == pc[c] \in {"start", "finish", "skip"}

\* Calls other than c that await a write go on awaiting it.
WaitersStay(c) == \A d \in Calls \ {c} :
    Waiting(d) => pc'[d] = pc[d] /\ todo'[d] = todo[d] /\ doing'[d] = doing[d]

\* Call c, which has the account of k or is taking it, queues a write of k.
Issues(c, k, state, new, waiter) ==
    /\ k \in Keys /\ k[1] = Account(c)
    /\ ~Waiting(c)
    /\ Inside(c) \/ (pc[c] = "load" /\ Loaded(k[1]) /\ Account(c) \notin active)
    /\ UpdateSyncStatus(k, state, new, waiter)
    /\ state \in {"running", "completed", "failed"}
    /\ IF state = "completed" THEN new = clock + 1 /\ clock' = clock + 1 /\ waiter = c
       ELSE new = 0 /\ clock' = clock
    /\ waiter = NoCall \/ (waiter = c /\ Waiting(c)' /\ Key(c)' = k)
    /\ state = "running" => Works(c, k)'
    /\ WaitersStay(c)
    /\ UNCHANGED <<row, settled, loaded>>

Silent == /\ UNCHANGED <<status, chain, row, settled, clock>>
          /\ \A d \in Calls : Waiting(d) =>
                pc'[d] = pc[d] /\ todo'[d] = todo[d] /\ doing'[d] = doing[d]
          /\ \A a \in Accounts : Loaded(a) => Loaded(a)'

LEMMA StartIssues ==
    ASSUME TypeOK, NEW c \in Calls, NEW j \in Jobs, StartJob(c, j), ~Waiting(c),
           Inside(c) \/ (pc[c] = "load" /\ Loaded(Account(c)) /\ Account(c) \notin active),
           todo' = todo, UNCHANGED <<row, settled, clock, loaded>>
    PROVE  Issues(c, <<Account(c), j>>, "running", 0, c)
  <1> DEFINE k == <<Account(c), j>>
  <1>1. k \in Keys /\ k[1] = Account(c)
    BY AccountType DEF Keys, Inside
  <1>2. Waiting(c)' /\ Key(c)' = k /\ Works(c, k)'
    BY DEF StartJob, Waiting, Key, Account, Works, TypeOK
  <1>3. WaitersStay(c)
    BY DEF StartJob, WaitersStay, TypeOK
  <1>4. UpdateSyncStatus(k, "running", 0, c)
    BY DEF StartJob
  <1> QED
    BY <1>1, <1>2, <1>3, <1>4 DEF Issues

LEMMA NextAccountSilent ==
    ASSUME TypeOK, NEW c \in Calls, NextAccount(c), ~Waiting(c)
    PROVE  /\ \A d \in Calls : Waiting(d) =>
                pc'[d] = pc[d] /\ todo'[d] = todo[d] /\ doing'[d] = doing[d]
           /\ \A a \in Accounts : Loaded(a) => Loaded(a)'
  BY DEF NextAccount, Request, BeginLoad, Loaded, Waiting, TypeOK

LEMMA WriteKinds ==
    ASSUME TypeOK, [Next]_vars
    PROVE  \/ Silent
           \/ Crash
           \/ \E k \in Keys : Settle(k)
           \/ \E a \in Accounts : LoadStatus(a)
           \/ \E c \in Calls, k \in Keys, state \in States, new \in Nat,
                 waiter \in Calls \cup {NoCall} : Issues(c, k, state, new, waiter)
  <1> DEFINE IssuesSome(c) ==
        \E k \in Keys, state \in States, new \in Nat,
           waiter \in Calls \cup {NoCall} : Issues(c, k, state, new, waiter)
  <1>0. ASSUME NEW c \in Calls, NEW k, NEW state, NEW new \in Nat,
               NEW waiter \in Calls \cup {NoCall}, Issues(c, k, state, new, waiter)
        PROVE IssuesSome(c)
    <2>1. k \in Keys /\ state \in States
      BY <1>0 DEF Issues, States
    <2> QED
      BY <1>0, <2>1
  <1> HIDE DEF IssuesSome
  <1>1. ASSUME NEW c \in Calls, Trigger(c) \/ Dispatch(c) PROVE Silent
    <2>1. pc[c] = "none" /\ UNCHANGED <<status, chain, row, settled, clock>>
      BY <1>1 DEF Trigger, Dispatch
    <2>2. PICK list, j : Request(c, list, j)
      BY <1>1 DEF Trigger, Dispatch
    <2> QED
      BY <2>1, <2>2 DEF Request, BeginLoad, Silent, Waiting, Loaded, TypeOK
  <1>2. ASSUME NEW c \in Calls, Enter(c) PROVE Silent \/ IssuesSome(c)
    <2>1. CASE pc' = [pc EXCEPT ![c] = "count"] /\ UNCHANGED <<doing, status, chain>>
      BY <1>2, <2>1 DEF Enter, Silent, Waiting, Loaded, TypeOK
    <2>2. CASE StartJob(c, job[c])
      <3>1. job[c] \in Jobs /\ ~Waiting(c)
        BY <1>2 DEF Enter, TypeOK, Waiting
      <3>2. Issues(c, <<Account(c), job[c]>>, "running", 0, c)
        BY <1>2, <2>2, <3>1, StartIssues DEF Enter
      <3> QED
        BY <3>2, <1>0
    <2> QED
      BY <1>2, <2>1, <2>2 DEF Enter
  <1>3. ASSUME NEW c \in Calls, Busy(c) PROVE Silent
    BY <1>3, NextAccountSilent DEF Busy, Silent, Waiting
  <1>4. ASSUME NEW c \in Calls, CountPlans(c) PROVE IssuesSome(c)
    <2>1. ~Waiting(c) /\ Inside(c) /\ {"syncSims", "syncRatingPlans"} \subseteq Jobs
      BY <1>4 DEF CountPlans, Waiting, Inside, Jobs
    <2>2. PICK j \in Jobs : StartJob(c, j)
      BY <1>4, <2>1 DEF CountPlans
    <2>3. Issues(c, <<Account(c), j>>, "running", 0, c)
      BY <1>4, <2>1, <2>2, StartIssues DEF CountPlans
    <2> QED
      BY <2>3, <1>0
  <1>5. ASSUME NEW c \in Calls, CountFails(c) PROVE Silent
    BY <1>5 DEF CountFails, memory, Silent, Waiting, TypeOK, Loaded
  <1>6. ASSUME NEW c \in Calls, Complete(c) PROVE IssuesSome(c)
    <2>1. Key(c) \in Keys /\ Key(c)[1] = Account(c) /\ clock + 1 \in Nat
      BY <1>6, AccountType DEF Complete, Key, TypeOK
    <2>2. Inside(c) /\ ~Waiting(c)
      BY <1>6 DEF Complete, Inside, Waiting
    <2>3. Waiting(c)' /\ Key(c)' = Key(c) /\ WaitersStay(c)
      BY <1>6 DEF Complete, Waiting, WaitersStay, Key, Account, TypeOK
    <2>4. Issues(c, Key(c), "completed", clock + 1, c)
      BY <1>6, <2>1, <2>2, <2>3 DEF Complete, Issues
    <2> QED
      BY <2>1, <2>4, <1>0
  <1>7. ASSUME NEW c \in Calls, Fail(c) PROVE IssuesSome(c)
    <2>1. Key(c) \in Keys /\ Key(c)[1] = Account(c)
      BY <1>7, AccountType DEF Fail, Key
    <2>2. Inside(c) /\ ~Waiting(c) /\ WaitersStay(c)
      BY <1>7 DEF Fail, Inside, Waiting, WaitersStay, TypeOK
    <2>3. Issues(c, Key(c), "failed", 0, NoCall)
      BY <1>7, <2>1, <2>2 DEF Fail, Issues
    <2> QED
      BY <2>3, <1>0
  <1>8. ASSUME NEW c \in Calls, SkipSims(c) PROVE IssuesSome(c)
    <2> DEFINE k == <<Account(c), "syncSims">>
    <2>1. k \in Keys /\ k[1] = Account(c)
      BY <1>8, AccountType DEF SkipSims, Keys, Jobs
    <2>2. Inside(c) /\ ~Waiting(c) /\ WaitersStay(c)
      BY <1>8 DEF SkipSims, Inside, Waiting, WaitersStay, TypeOK
    <2>3. Waiting(c)' /\ Key(c)' = k
      BY <1>8 DEF SkipSims, Waiting, Key, Account, TypeOK
    <2>4. Issues(c, k, "failed", 0, c)
      BY <1>8, <2>1, <2>2, <2>3 DEF SkipSims, Issues
    <2> QED
      BY <2>4, <1>0
  <1>9. ASSUME NEW c \in Calls, StartSims(c) PROVE IssuesSome(c)
    <2>1. ~Waiting(c) /\ Inside(c) /\ job[c] \in Jobs
      BY <1>9 DEF StartSims, Waiting, Inside, TypeOK
    <2>2. Issues(c, <<Account(c), job[c]>>, "running", 0, c)
      BY <1>9, <2>1, StartIssues DEF StartSims
    <2> QED
      BY <2>2, <1>0
  <1>10. ASSUME NEW c \in Calls, HandOver(c) PROVE IssuesSome(c)
    <2>1. ~Waiting(c) /\ Inside(c)
      BY <1>10 DEF HandOver, Ended, Waiting, Inside
    <2>2. PICK j \in FollowUp(c) : StartJob(c, j)
      BY <1>10 DEF HandOver
    <2>3. j \in Jobs
      BY <2>2 DEF FollowUp, Jobs
    <2>4. Issues(c, <<Account(c), j>>, "running", 0, c)
      BY <1>10, <2>1, <2>2, <2>3, StartIssues DEF HandOver
    <2> QED
      BY <2>4, <1>0
  <1>11. ASSUME NEW c \in Calls, Leave(c) PROVE Silent
    <2>1. ~Waiting(c)
      BY <1>11 DEF Leave, Ended, Waiting
    <2> QED
      BY <1>11, <2>1, NextAccountSilent DEF Leave, Silent
  <1>12. ASSUME NEW c \in Calls, GetToken(c) \/ StorePlan(c) PROVE Silent
    BY <1>12 DEF GetToken, StorePlan, memory, calls, Silent, Loaded
  <1>13. ASSUME NEW c \in Calls, Progress(c) PROVE IssuesSome(c)
    <2>1. Key(c) \in Keys /\ Key(c)[1] = Account(c)
      BY <1>13, AccountType DEF Progress, Key
    <2>2. Inside(c) /\ ~Waiting(c) /\ WaitersStay(c) /\ Works(c, Key(c))'
      BY <1>13 DEF Progress, Inside, Waiting, WaitersStay, calls, Works, Key, Account
    <2>3. Issues(c, Key(c), "running", 0, NoCall)
      BY <1>13, <2>1, <2>2 DEF Progress, Issues
    <2> QED
      BY <2>3, <1>0
  <1>14. ASSUME NEW a \in Accounts, GetSyncStatus(a) PROVE Silent
    BY <1>14 DEF GetSyncStatus, BeginLoad, calls, Silent, Loaded, TypeOK
  <1>15. CASE UNCHANGED vars
    BY <1>15 DEF vars, memory, calls, Silent, Loaded
  <1> USE DEF IssuesSome
  <1> QED
    BY <1>1, <1>2, <1>3, <1>4, <1>5, <1>6, <1>7, <1>8, <1>9, <1>10, <1>11, <1>12,
       <1>13, <1>14, <1>15 DEF Next, Work, Advance, Conclude

LEMMA LoadedGrows ==
    ASSUME TypeOK, [Next]_vars
    PROVE  Crash \/ \A a \in Accounts : Loaded(a) => Loaded(a)'
  <1>1. ASSUME NEW a \in Accounts, LoadStatus(a)
        PROVE  \A b \in Accounts : Loaded(b) => Loaded(b)'
    BY <1>1 DEF LoadStatus, Loaded, TypeOK
  <1>2. ASSUME NEW k \in Keys, Settle(k)
        PROVE  \A b \in Accounts : Loaded(b) => Loaded(b)'
    BY <1>2 DEF Settle, Loaded
  <1>3. ASSUME NEW c \in Calls, NEW k \in Keys, NEW state \in States, NEW new \in Nat,
               NEW waiter \in Calls \cup {NoCall}, Issues(c, k, state, new, waiter)
        PROVE  \A b \in Accounts : Loaded(b) => Loaded(b)'
    BY <1>3 DEF Issues, Loaded
  <1> QED
    BY <1>1, <1>2, <1>3, WriteKinds DEF Silent

LEMMA LoadedStep ==
    ASSUME TypeOK, LoadedFirst, [Next]_vars
    PROVE  LoadedFirst'
  <1>1. CASE Crash
    BY <1>1 DEF Crash, LoadedFirst, Inside
  <1>2. ASSUME ~Crash PROVE LoadedFirst'
    <2>1. \A a \in Accounts : Loaded(a) => Loaded(a)'
      BY <1>2, LoadedGrows
    <2>2. ASSUME NEW d \in Calls, Inside(d)' PROVE Loaded(Account(d))'
      <3>1. \A c \in Calls : Inside(c) => Account(c) \in Accounts
        BY AccountType DEF Inside
      <3>2. CASE Unmoved
        BY <2>1, <2>2, <3>1, <3>2 DEF Unmoved, LoadedFirst, Account, Loaded
      <3>3. ASSUME NEW c \in Calls, Entered(c) PROVE Loaded(Account(d))'
        <4>1. CASE d = c
          <5>1. Account(c) \in Accounts
            BY <3>3, AccountType DEF Entered
          <5> QED
            BY <2>1, <3>3, <4>1, <5>1 DEF Entered, Account, Loaded
        <4>2. CASE d # c
          BY <2>1, <2>2, <3>1, <3>3, <4>2 DEF Entered, OthersStay, LoadedFirst, Account,
             Loaded, Inside
        <4> QED
          BY <4>1, <4>2
      <3>4. ASSUME NEW c \in Calls, Left(c) PROVE Loaded(Account(d))'
        BY <2>1, <2>2, <3>1, <3>4 DEF Left, OthersStay, LoadedFirst, Account, Loaded, Inside
      <3> QED
        BY <1>2, <3>2, <3>3, <3>4, StepKinds
    <2>3. ASSUME NEW k \in Keys, chain'[k] # <<>> \/ settled'[k] # "none"
          PROVE  Loaded(k[1])'
      <3>1. k[1] \in Accounts
        BY DEF Keys
      <3>2. CASE chain[k] # <<>> \/ settled[k] # "none"
        BY <2>1, <3>1, <3>2 DEF LoadedFirst
      <3>3. CASE chain[k] = <<>> /\ settled[k] = "none"
        <4>1. ASSUME NEW a \in Accounts, LoadStatus(a) PROVE FALSE
          BY <2>3, <3>3, <4>1 DEF LoadStatus
        <4>2. ASSUME NEW l \in Keys, Settle(l) PROVE FALSE
          BY <2>3, <3>3, <4>2 DEF Settle, TypeOK
        <4>3. ASSUME NEW c \in Calls, NEW l \in Keys, NEW state \in States,
                     NEW new \in Nat, NEW waiter \in Calls \cup {NoCall},
                     Issues(c, l, state, new, waiter)
              PROVE  Loaded(k[1])'
          <5>1. k = l
            BY <2>3, <3>3, <4>3 DEF Issues, UpdateSyncStatus, TypeOK
          <5>2. Loaded(l[1])
            BY <4>3 DEF Issues, LoadedFirst
          <5> QED
            BY <2>1, <3>1, <5>1, <5>2
        <4> QED
          BY <1>2, <2>3, <3>3, <4>1, <4>2, <4>3, WriteKinds DEF Silent
      <3> QED
        BY <3>2, <3>3
    <2> QED
      BY <2>2, <2>3 DEF LoadedFirst
  <1> QED
    BY <1>1, <1>2

\* A call that queues a write finds no awaited one before it: the call awaiting
\* it would have the same account.
LEMMA NoneAwaited ==
    ASSUME TypeOK, LockMatchesRuns, AwaitedLast,
           NEW c \in Calls, NEW k \in Keys, k[1] = Account(c), ~Waiting(c),
           Inside(c) \/ Account(c) \notin active,
           NEW i \in DOMAIN chain[k]
    PROVE  chain[k][i].waiter = NoCall /\ chain[k][i].state # "completed"
  <1> DEFINE w == chain[k][i]
  <1>1. w \in Write
    BY DEF TypeOK
  <1>2. (w.state = "completed" => w.waiter # NoCall) /\
        (w.waiter # NoCall => Waiting(w.waiter) /\ Key(w.waiter) = k)
    BY DEF AwaitedLast, Waiting
  <1>3. ASSUME w.waiter # NoCall PROVE FALSE
    <2>1. w.waiter \in Calls
      BY <1>1, <1>3 DEF Write
    <2>2. Inside(w.waiter) /\ Account(w.waiter) = Account(c)
      BY <1>2, <1>3, <2>1 DEF Waiting, Inside, Key
    <2>3. Inside(c)
      BY <2>1, <2>2 DEF LockMatchesRuns
    <2>4. w.waiter = c
      BY <2>1, <2>2, <2>3 DEF LockMatchesRuns
    <2> QED
      BY <1>2, <1>3, <2>4
  <1> QED
    BY <1>2, <1>3

LEMMA EmptyIff ==
    ASSUME NEW S, NEW s \in Seq(S)
    PROVE  s = <<>> <=> Len(s) = 0
  BY EmptySeq

LEMMA WriteType ==
    ASSUME TypeOK, NEW k \in Keys, NEW i \in DOMAIN chain[k]
    PROVE  chain[k][i] \in Write
  <1>1. chain[k] \in Seq(Write)
    BY DEF TypeOK
  <1> QED
    BY <1>1

\* What Issues does to the chains and the statuses.
LEMMA IssuesEffect ==
    ASSUME TypeOK, NEW c \in Calls, NEW k \in Keys, NEW state \in States, NEW new \in Nat,
           NEW waiter \in Calls \cup {NoCall}, Issues(c, k, state, new, waiter)
    PROVE  /\ Len(chain[k]) \in Nat /\ DOMAIN chain'[k] = 1..Len(chain[k])+1
           /\ chain'[k] # <<>> /\ Len(chain'[k]) = Len(chain[k]) + 1
           /\ \A i \in 1..Len(chain[k]) :
                 i \in DOMAIN chain[k] /\ chain'[k][i] = chain[k][i]
           /\ chain'[k][Len(chain[k])+1].state = state
           /\ chain'[k][Len(chain[k])+1].waiter = waiter
           /\ chain'[k][Len(chain[k])+1].prev = status[k].last
           /\ chain'[k][Len(chain[k])+1].last = IF new # 0 THEN new ELSE status[k].last
           /\ status'[k].state = state
           /\ status'[k].last = IF new # 0 THEN new ELSE status[k].last
           /\ \A l \in Keys \ {k} : chain'[l] = chain[l] /\ status'[l] = status[l]
  <1> DEFINE last == IF new # 0 THEN new ELSE status[k].last
             w == [state |-> state, last |-> last, prev |-> status[k].last,
                   waiter |-> waiter]
  <1>1. /\ status' = [status EXCEPT ![k] = [state |-> state, last |-> last]]
        /\ chain' = [chain EXCEPT ![k] = Append(@, w)]
    BY DEF Issues, UpdateSyncStatus
  <1>2. chain[k] \in Seq(Write) /\ w \in Write
    BY DEF TypeOK, Write, Status
  <1> HIDE DEF w, last
  <1>3. chain'[k] = Append(chain[k], w) /\ status'[k] = [state |-> state, last |-> last]
    BY <1>1 DEF TypeOK
  <1>4. \A l \in Keys \ {k} : chain'[l] = chain[l] /\ status'[l] = status[l]
    BY <1>1 DEF TypeOK
  <1>5. /\ Len(chain[k]) \in Nat /\ DOMAIN chain'[k] = 1..Len(chain[k])+1
        /\ chain'[k] # <<>> /\ Len(chain'[k]) = Len(chain[k]) + 1
        /\ \A i \in 1..Len(chain[k]) : i \in DOMAIN chain[k] /\ chain'[k][i] = chain[k][i]
        /\ chain'[k][Len(chain[k])+1] = w
    BY <1>2, <1>3
  <1> QED
    BY <1>3, <1>4, <1>5 DEF w, last

\* What Settle does to them.
LEMMA SettleEffect ==
    ASSUME TypeOK, NEW k \in Keys, Settle(k)
    PROVE  /\ chain[k] # <<>> /\ 1 \in DOMAIN chain[k] /\ chain[k][1] \in Write
           /\ chain'[k] \in Seq(Write) /\ Len(chain'[k]) = Len(chain[k]) - 1
           /\ DOMAIN chain'[k] = 1 .. Len(chain[k]) - 1
           /\ \A i \in DOMAIN chain'[k] :
                 i + 1 \in DOMAIN chain[k] /\ chain'[k][i] = chain[k][i+1]
           /\ \E outcome \in Outcomes :
                 /\ row'[k] = IF outcome # "lost" THEN Upsert(row[k], chain[k][1])
                              ELSE row[k]
                 /\ settled'[k] = IF outcome = "saved" THEN "ok" ELSE "failed"
                 /\ status'[k] = AfterWrite(status[k], chain[k][1], outcome = "saved")
           /\ pc' = IF chain[k][1].waiter # NoCall
                    THEN [pc EXCEPT ![chain[k][1].waiter] = Resumed(@)] ELSE pc
           /\ \A l \in Keys \ {k} : /\ chain'[l] = chain[l] /\ status'[l] = status[l]
                                    /\ row'[l] = row[l] /\ settled'[l] = settled[l]
           /\ UNCHANGED <<loaded, active, token, plans, todo, job, doing, clock>>
  <1>1. chain[k] \in Seq(Write) /\ chain[k] # <<>>
    BY DEF Settle, TypeOK
  <1>2. chain[k][1] = Head(chain[k])
    BY <1>1
  <1>3. chain' = [chain EXCEPT ![k] = Tail(@)]
    BY DEF Settle
  <1>4. chain'[k] = Tail(chain[k])
    BY <1>3 DEF TypeOK
  <1>5. PICK outcome \in Outcomes :
          /\ row' = IF outcome # "lost" THEN [row EXCEPT ![k] = Upsert(@, chain[k][1])]
                    ELSE row
          /\ settled' = [settled EXCEPT ![k] = IF outcome = "saved" THEN "ok" ELSE "failed"]
          /\ status' = [status EXCEPT ![k] = AfterWrite(@, chain[k][1], outcome = "saved")]
          /\ pc' = IF chain[k][1].waiter # NoCall
                   THEN [pc EXCEPT ![chain[k][1].waiter] = Resumed(@)] ELSE pc
    BY <1>2 DEF Settle
  <1>6. /\ row'[k] = IF outcome # "lost" THEN Upsert(row[k], chain[k][1]) ELSE row[k]
        /\ settled'[k] = IF outcome = "saved" THEN "ok" ELSE "failed"
        /\ status'[k] = AfterWrite(status[k], chain[k][1], outcome = "saved")
    BY <1>5 DEF TypeOK
  <1>7. \A l \in Keys \ {k} : /\ chain'[l] = chain[l] /\ status'[l] = status[l]
                              /\ row'[l] = row[l] /\ settled'[l] = settled[l]
    BY <1>3, <1>5 DEF TypeOK
  <1>8. /\ 1 \in DOMAIN chain[k] /\ chain[k][1] \in Write
        /\ chain'[k] \in Seq(Write) /\ Len(chain'[k]) = Len(chain[k]) - 1
        /\ DOMAIN chain'[k] = 1 .. Len(chain[k]) - 1
        /\ \A i \in DOMAIN chain'[k] :
              i + 1 \in DOMAIN chain[k] /\ chain'[k][i] = chain[k][i+1]
    BY <1>1, <1>4
  <1>9. UNCHANGED <<loaded, active, token, plans, todo, job, doing, clock>>
    BY DEF Settle
  <1> QED
    BY <1>1, <1>5, <1>6, <1>7, <1>8, <1>9

LEMMA AwaitedStep ==
    ASSUME TypeOK, LockMatchesRuns, AwaitedLast, [Next]_vars
    PROVE  AwaitedLast'
  <1> DEFINE Good(k, i) ==
        LET w == chain[k][i] IN
        /\ w.state = "completed" => w.waiter # NoCall
        /\ w.waiter # NoCall =>
              i = Len(chain[k]) /\ Waiting(w.waiter) /\ Key(w.waiter) = k
  <1>1. \A k \in Keys : \A i \in DOMAIN chain[k] : Good(k, i)
    BY DEF AwaitedLast, Waiting
  <1>2. SUFFICES ASSUME NEW k \in Keys, NEW i \in DOMAIN chain'[k] PROVE Good(k, i)'
    BY DEF AwaitedLast, Waiting
  <1>3. \A l \in Keys : \A j \in DOMAIN chain[l] :
           chain[l][j].waiter # NoCall => chain[l][j].waiter \in Calls
    BY WriteType DEF Write
  <1>4. CASE Silent
    <2>1. chain' = chain
      BY <1>4 DEF Silent
    <2> QED
      BY <1>1, <1>3, <1>4, <2>1 DEF Silent, Waiting, Key, Account
  <1>5. CASE Crash
    BY <1>5 DEF Crash
  <1>6. ASSUME NEW a \in Accounts, LoadStatus(a) PROVE Good(k, i)'
    BY <1>1, <1>6 DEF LoadStatus, calls, Waiting, Key, Account
  <1>7. ASSUME NEW l \in Keys, Settle(l) PROVE Good(k, i)'
    <2> DEFINE h == chain[l][1]
    <2>0. /\ 1 \in DOMAIN chain[l] /\ chain[l] \in Seq(Write)
          /\ pc' = IF h.waiter # NoCall THEN [pc EXCEPT ![h.waiter] = Resumed(@)] ELSE pc
      BY <1>7, SettleEffect DEF TypeOK
    <2>1. Good(l, 1)
      <3> HIDE DEF Good
      <3> QED
        BY <1>1, <2>0
    <2>2. \A d \in Calls : Key(d)' = Key(d)
      BY <1>7, SettleEffect DEF Key, Account
    <2>3. \A d \in Calls : d # h.waiter => pc'[d] = pc[d]
      BY <2>0 DEF TypeOK
    <2>4. CASE k # l
      <3>1. chain'[k] = chain[k]
        BY <1>7, <2>4, SettleEffect
      <3>2. chain[k][i].waiter # NoCall => chain[k][i].waiter # h.waiter
        BY <1>1, <2>1, <2>4, <3>1
      <3> QED
        BY <1>1, <1>3, <2>2, <2>3, <3>1, <3>2 DEF Waiting
    <2>5. CASE k = l
      <3>1. /\ i \in 1 .. Len(chain[k]) - 1 /\ i + 1 \in DOMAIN chain[k]
            /\ chain'[k][i] = chain[k][i+1] /\ Len(chain'[k]) = Len(chain[k]) - 1
        BY <1>7, <2>5, SettleEffect
      <3>2. h.waiter = NoCall
        BY <2>1, <2>5, <3>1
      <3>3. Good(k, i+1)
        BY <1>1, <3>1
      <3> QED
        BY <1>3, <2>1, <2>2, <2>3, <2>5, <3>1, <3>2, <3>3 DEF Waiting
    <2> QED
      BY <2>4, <2>5
  <1>8. ASSUME NEW c \in Calls, NEW l \in Keys, NEW state \in States, NEW new \in Nat,
               NEW waiter \in Calls \cup {NoCall}, Issues(c, l, state, new, waiter)
        PROVE  Good(k, i)'
    <2> DEFINE n == Len(chain[l])
    <2>0. /\ n \in Nat /\ DOMAIN chain'[l] = 1..n+1 /\ Len(chain'[l]) = n + 1
          /\ \A j \in 1..n : j \in DOMAIN chain[l] /\ chain'[l][j] = chain[l][j]
          /\ chain'[l][n+1].state = state /\ chain'[l][n+1].waiter = waiter
          /\ \A m \in Keys \ {l} : chain'[m] = chain[m]
      BY <1>8, IssuesEffect
    <2> HIDE DEF n
    <2>1. ASSUME NEW m \in Keys, NEW j \in DOMAIN chain[m], Good(m, j),
                 chain'[m] = chain[m] \/ chain[m][j].waiter = NoCall,
                 chain'[m][j] = chain[m][j]
          PROVE  Good(m, j)'
      <3>1. CASE chain[m][j].waiter = NoCall
        BY <2>1, <3>1
      <3>2. CASE chain[m][j].waiter # NoCall
        <4>1. chain[m][j].waiter # c
          BY <1>8, <2>1, <3>2 DEF Issues
        <4> QED
          BY <1>3, <1>8, <2>1, <3>2, <4>1 DEF Issues, WaitersStay, Waiting, Key, Account
      <3> QED
        BY <3>1, <3>2
    <2>2. CASE k # l
      BY <1>1, <2>0, <2>1, <2>2
    <2>3. CASE k = l /\ i \in 1..n
      <3>1. i \in DOMAIN chain[k] /\ chain'[k][i] = chain[k][i]
        BY <2>0, <2>3
      <3>2. chain[k][i].waiter = NoCall
        BY <1>8, <2>3, <3>1, NoneAwaited DEF Issues
      <3> QED
        BY <1>1, <2>1, <3>1, <3>2
    <2>4. CASE k = l /\ i = n + 1
      <3>1. /\ chain'[k][i].state = state /\ chain'[k][i].waiter = waiter
            /\ Len(chain'[k]) = i
        BY <2>0, <2>4
      <3> QED
        BY <1>8, <2>4, <3>1, CallsAssumption DEF Issues
    <2> QED
      BY <2>0, <2>2, <2>3, <2>4
  <1> QED
    BY <1>4, <1>5, <1>6, <1>7, <1>8, WriteKinds

----------------------------------------------------------------------------
(* The times of the last sync.                                             *)

LEMMA CompletionLast ==
    ASSUME TypeOK, AwaitedLast, NEW k \in Keys, NEW i \in DOMAIN chain[k],
           chain[k][i].state = "completed"
    PROVE  i = Len(chain[k])
  BY DEF AwaitedLast

\* SyncTimesOrdered for one key.
Ordered(k) ==
    /\ status[k].last <= clock /\ row[k].last <= clock
    /\ SavedSync(k) <= row[k].last
    /\ \A i \in DOMAIN chain[k] :
          IF chain[k][i].state = "completed"
          THEN chain[k][i].prev < chain[k][i].last /\ chain[k][i].last <= clock
               /\ chain[k][i].last = status[k].last
          ELSE chain[k][i].last = SavedSync(k)

LEMMA OrderedSettles ==
    ASSUME TypeOK, TypeOK', AwaitedLast, NEW k \in Keys, Ordered(k), Settle(k)
    PROVE  Ordered(k)'
  <1> DEFINE n == Len(chain[k])
             h == chain[k][1]
  <1>1. /\ chain[k] # <<>> /\ 1 \in DOMAIN chain[k] /\ h \in Write
        /\ n \in Nat \ {0} /\ DOMAIN chain[k] = 1..n
        /\ Len(chain'[k]) = n - 1 /\ DOMAIN chain'[k] = 1..n-1
        /\ \A i \in 1..n-1 : chain'[k][i] = chain[k][i+1]
        /\ (chain'[k] = <<>> <=> n = 1)
        /\ clock' = clock
    <2>1. /\ chain[k] # <<>> /\ 1 \in DOMAIN chain[k] /\ h \in Write
          /\ Len(chain'[k]) = n - 1 /\ DOMAIN chain'[k] = 1..n-1
          /\ \A i \in DOMAIN chain'[k] : chain'[k][i] = chain[k][i+1]
          /\ clock' = clock
      BY SettleEffect
    <2>2. chain[k] \in Seq(Write) /\ chain'[k] \in Seq(Write)
      BY DEF TypeOK
    <2>3. n \in Nat \ {0} /\ DOMAIN chain[k] = 1..n
      BY <2>1, <2>2
    <2>4. chain'[k] = <<>> <=> n = 1
      <3>1. chain'[k] = <<>> <=> Len(chain'[k]) = 0
        BY <2>2, EmptyIff
      <3> QED
        BY <2>1, <2>3, <3>1
    <2> QED
      BY <2>1, <2>3, <2>4
  <1>2. PICK outcome \in Outcomes :
          /\ row'[k] = IF outcome # "lost" THEN Upsert(row[k], h) ELSE row[k]
          /\ status'[k] = AfterWrite(status[k], h, outcome = "saved")
    BY SettleEffect
  <1>3. /\ status[k] \in Status /\ row[k] \in Status
        /\ status'[k] \in Status /\ row'[k] \in Status /\ clock \in Nat
    BY DEF TypeOK
  <1>4. h.last \in Nat /\ h.prev \in Nat /\ \A s \in Status : s.last \in Nat
    BY <1>1 DEF Write, Status
  <1>5. /\ row'[k].last = IF outcome # "lost" /\ h.last # 0 THEN h.last ELSE row[k].last
        /\ status'[k].last = IF outcome # "saved" /\ h.state = "completed" THEN h.prev
                             ELSE status[k].last
    BY <1>2, <1>3 DEF Upsert, AfterWrite, Status
  <1>6. CASE h.state = "completed"
    <2>1. n = 1
      BY <1>1, <1>6, CompletionLast
    <2>2. SavedSync(k) = h.prev /\ SavedSync(k)' = status'[k].last
      BY <1>1, <1>6, <2>1 DEF SavedSync, Newest
    <2>3. h.prev < h.last /\ h.last <= clock /\ h.last = status[k].last
          /\ h.prev <= row[k].last /\ row[k].last <= clock
      BY <1>1, <1>6, <2>2 DEF Ordered
    <2>4. /\ status'[k].last <= clock /\ row'[k].last <= clock
          /\ status'[k].last <= row'[k].last
      BY <1>3, <1>4, <1>5, <1>6, <2>3
    <2> QED
      BY <1>1, <2>1, <2>2, <2>4 DEF Ordered
  <1>7. CASE h.state # "completed"
    <2>1. SavedSync(k)' = SavedSync(k)
      <3>1. CASE n = 1
        BY <1>1, <1>5, <1>7, <3>1 DEF SavedSync, Newest
      <3>2. CASE n # 1
        <4>1. Newest(k)' = Newest(k)
          BY <1>1, <3>2 DEF Newest
        <4> QED
          BY <1>1, <1>5, <1>7, <3>2, <4>1 DEF SavedSync
      <3> QED
        BY <3>1, <3>2
    <2>2. h.last = SavedSync(k) /\ SavedSync(k) <= row[k].last /\ row[k].last <= clock
          /\ status[k].last <= clock
      BY <1>1, <1>7 DEF Ordered
    <2>3. SavedSync(k) <= row'[k].last /\ row'[k].last <= clock
      BY <1>3, <1>4, <1>5, <2>2
    <2>4. status'[k].last = status[k].last
      BY <1>5, <1>7
    <2>5. ASSUME NEW i \in DOMAIN chain'[k]
          PROVE  IF chain'[k][i].state = "completed"
                 THEN chain'[k][i].prev < chain'[k][i].last /\ chain'[k][i].last <= clock
                      /\ chain'[k][i].last = status'[k].last
                 ELSE chain'[k][i].last = SavedSync(k)
      <3>1. i + 1 \in DOMAIN chain[k] /\ chain'[k][i] = chain[k][i+1]
        BY <1>1
      <3> QED
        BY <2>4, <3>1 DEF Ordered
    <2> QED
      BY <1>1, <2>1, <2>2, <2>3, <2>4, <2>5 DEF Ordered
  <1> QED
    BY <1>6, <1>7

LEMMA OrderedIssues ==
    ASSUME TypeOK, TypeOK', LockMatchesRuns, AwaitedLast,
           NEW c \in Calls, NEW k \in Keys, Ordered(k),
           NEW state \in States, NEW new \in Nat, NEW waiter \in Calls \cup {NoCall},
           Issues(c, k, state, new, waiter)
    PROVE  Ordered(k)'
  <1> DEFINE n == Len(chain[k])
             w == chain'[k][n+1]
             last == status[k].last
  <1>1. /\ n \in Nat /\ DOMAIN chain'[k] = 1..n+1
        /\ chain'[k] # <<>> /\ Len(chain'[k]) = n + 1
        /\ \A i \in 1..n : i \in DOMAIN chain[k] /\ chain'[k][i] = chain[k][i]
        /\ w.state = state /\ w.prev = last
        /\ w.last = IF new # 0 THEN new ELSE last
        /\ status'[k].last = IF new # 0 THEN new ELSE last
    BY IssuesEffect
  <1>2. /\ IF state = "completed" THEN new = clock + 1 /\ clock' = clock + 1
           ELSE new = 0 /\ clock' = clock
        /\ row' = row
    BY DEF Issues
  <1>3. \A i \in 1..n : chain[k][i].state # "completed"
    BY <1>1, NoneAwaited DEF Issues
  <1>4. /\ status[k] \in Status /\ row[k] \in Status /\ clock \in Nat
    BY DEF TypeOK
  <1>5. last \in Nat /\ row[k].last \in Nat
    BY <1>4 DEF Status
  <1>6. SavedSync(k) = last
    <2>1. CASE chain[k] = <<>>
      BY <2>1 DEF SavedSync
    <2>2. CASE chain[k] # <<>>
      <3>1. chain[k] \in Seq(Write)
        BY DEF TypeOK
      <3>2. n \in 1..n
        BY <1>1, <2>2, <3>1, EmptyIff
      <3> QED
        BY <1>3, <3>2 DEF SavedSync, Newest
    <2> QED
      BY <2>1, <2>2
  <1>7. last <= clock /\ row[k].last <= clock /\ last <= row[k].last
        /\ \A i \in 1..n : chain[k][i].last = last
    BY <1>1, <1>3, <1>6 DEF Ordered
  <1>8. Newest(k)' = w
    BY <1>1 DEF Newest
  <1>9. SavedSync(k)' = last
    BY <1>1, <1>2, <1>5, <1>8 DEF SavedSync
  <1>10. status'[k].last <= clock' /\ row'[k].last <= clock' /\ last <= row'[k].last
    BY <1>1, <1>2, <1>4, <1>5, <1>7
  <1>11. ASSUME NEW i \in DOMAIN chain'[k]
         PROVE  IF chain'[k][i].state = "completed"
                THEN chain'[k][i].prev < chain'[k][i].last /\ chain'[k][i].last <= clock'
                     /\ chain'[k][i].last = status'[k].last
                ELSE chain'[k][i].last = last
    <2>1. CASE i \in 1..n
      BY <1>1, <1>3, <1>7, <2>1
    <2>2. CASE i = n + 1
      BY <1>1, <1>2, <1>4, <1>5, <1>7, <2>2
    <2> QED
      BY <1>1, <2>1, <2>2
  <1> QED
    BY <1>9, <1>10, <1>11 DEF Ordered

LEMMA OrderedStep ==
    ASSUME TypeOK, TypeOK', LockMatchesRuns, LoadedFirst, AwaitedLast,
           SyncTimesOrdered, [Next]_vars
    PROVE  SyncTimesOrdered'
  <1>1. \A k \in Keys : Ordered(k)
    BY DEF SyncTimesOrdered, Ordered
  <1>2. SUFFICES ASSUME NEW k \in Keys PROVE Ordered(k)'
    BY DEF SyncTimesOrdered, Ordered
  <1>3. status[k] \in Status /\ row[k] \in Status /\ clock \in Nat
    BY DEF TypeOK
  <1>4. ASSUME UNCHANGED <<status[k], chain[k], row[k]>>, clock' \in Nat, clock <= clock'
        PROVE  Ordered(k)'
    <2>1. Ordered(k)
      BY <1>1
    <2>2. SavedSync(k)' = SavedSync(k)
      BY <1>4 DEF SavedSync, Newest
    <2>3. \A i \in DOMAIN chain[k] : chain[k][i].last \in Nat
      BY WriteType DEF Write
    <2>4. status[k].last \in Nat /\ row[k].last \in Nat
      BY <1>3 DEF Status
    <2>5. status[k].last <= clock' /\ row[k].last <= clock'
      BY <1>3, <1>4, <2>1, <2>4 DEF Ordered
    <2>6. ASSUME NEW i \in DOMAIN chain[k], chain[k][i].state = "completed"
          PROVE  chain[k][i].last <= clock'
      BY <1>3, <1>4, <2>1, <2>3, <2>6 DEF Ordered
    <2> QED
      BY <1>4, <2>1, <2>2, <2>5, <2>6 DEF Ordered
  <1>5. CASE Silent
    BY <1>3, <1>4, <1>5 DEF Silent
  <1>6. CASE Crash
    <2>1. chain'[k] = <<>> /\ status'[k].last = 0 /\ clock' = clock
      BY <1>6 DEF Crash, Idle
    <2>2. row'[k] = row[k] \/ (chain[k] # <<>> /\ row'[k] = Upsert(row[k], Head(chain[k])))
      BY <1>6 DEF Crash
    <2>3. row[k].last \in Nat /\ row'[k] \in Status /\ row[k].last <= clock
      BY <1>1, <1>3 DEF Ordered, Status, TypeOK
    <2>4. row'[k].last \in Nat
      BY <2>3 DEF Status
    <2>5. chain[k] # <<>> => Head(chain[k]).last <= clock
      <3> SUFFICES ASSUME chain[k] # <<>> PROVE Head(chain[k]).last <= clock
        OBVIOUS
      <3>1. chain[k] \in Seq(Write)
        BY DEF TypeOK
      <3>2. 1 \in DOMAIN chain[k] /\ Head(chain[k]) = chain[k][1] /\ chain[k][1] \in Write
            /\ Len(chain[k]) \in DOMAIN chain[k]
        BY <3>1
      <3>3. SavedSync(k) \in Nat
        BY <1>3, <3>2, WriteType DEF SavedSync, Newest, Write, Status
      <3>4. chain[k][1].last <= clock
        BY <1>1, <1>3, <2>3, <3>2, <3>3 DEF Ordered
      <3> QED
        BY <3>2, <3>4
    <2>6. row'[k].last <= clock
      BY <2>2, <2>3, <2>5 DEF Upsert
    <2>7. SavedSync(k)' = 0 /\ DOMAIN chain'[k] = {}
      BY <2>1 DEF SavedSync
    <2> QED
      BY <1>3, <2>1, <2>4, <2>6, <2>7 DEF Ordered
  <1>7. ASSUME NEW a \in Accounts, LoadStatus(a) PROVE Ordered(k)'
    <2>1. chain' = chain /\ row' = row /\ clock' = clock
      BY <1>7 DEF LoadStatus
    <2>2. status'[k] = status[k] \/ (k[1] = a /\ status'[k] = row[k])
      BY <1>7 DEF LoadStatus
    <2>3. CASE status'[k] = status[k]
      BY <1>3, <1>4, <2>1, <2>3
    <2>4. CASE k[1] = a /\ status'[k] = row[k]
      <3>1. chain[k] = <<>>
        BY <1>7, <2>4 DEF LoadStatus, LoadedFirst, Loaded
      <3>2. SavedSync(k)' = row[k].last
        BY <2>1, <2>4, <3>1 DEF SavedSync
      <3>3. row[k].last \in Nat /\ row[k].last <= clock
        BY <1>1, <1>3 DEF Ordered, Status
      <3> QED
        BY <2>1, <2>4, <3>1, <3>2, <3>3 DEF Ordered
    <2> QED
      BY <2>2, <2>3, <2>4
  <1>8. ASSUME NEW l \in Keys, Settle(l) PROVE Ordered(k)'
    <2>1. CASE k = l
      BY <1>1, <1>8, <2>1, OrderedSettles
    <2>2. CASE k # l
      BY <1>3, <1>4, <1>8, <2>2, SettleEffect
    <2> QED
      BY <2>1, <2>2
  <1>9. ASSUME NEW c \in Calls, NEW l \in Keys, NEW state \in States, NEW new \in Nat,
               NEW waiter \in Calls \cup {NoCall}, Issues(c, l, state, new, waiter)
        PROVE  Ordered(k)'
    <2>1. CASE k = l
      BY <1>1, <1>9, <2>1, OrderedIssues
    <2>2. CASE k # l
      <3>1. UNCHANGED <<status[k], chain[k]>>
        BY <1>9, <2>2, IssuesEffect
      <3>2. row' = row /\ clock' \in Nat /\ clock <= clock'
        BY <1>3, <1>9 DEF Issues
      <3> QED
        BY <1>4, <3>1, <3>2
    <2> QED
      BY <2>1, <2>2
  <1> QED
    BY <1>5, <1>6, <1>7, <1>8, <1>9, WriteKinds

\* LoadedFirst, AwaitedLast and SyncTimesOrdered hold together.
LEMMA ChainsCorrect == Spec => [](LoadedFirst /\ AwaitedLast /\ SyncTimesOrdered)
  <1>1. Init => LoadedFirst /\ AwaitedLast
    BY DEF Init, LoadedFirst, AwaitedLast, Inside
  <1>2. Init => SyncTimesOrdered
    BY DEF Init, SyncTimesOrdered, SavedSync, Idle
  <1>3. TypeOK /\ TypeOK' /\ LockMatchesRuns /\ LoadedFirst /\ AwaitedLast /\ SyncTimesOrdered
        /\ [Next]_vars => (LoadedFirst /\ AwaitedLast /\ SyncTimesOrdered)'
    BY LoadedStep, AwaitedStep, OrderedStep
  <1> QED
    BY <1>1, <1>2, <1>3, TypeCorrect, LockCorrect, PTL DEF Spec

\* A lastSyncedAt the service reports is in sync_job_states, or its write is
\* still queued: a crash loses no sync that was reported and saved.
THEOREM SyncIsDurable == Spec => []ReportedSyncIsDurable
  <1>1. TypeOK /\ SyncTimesOrdered => ReportedSyncIsDurable
    <2> SUFFICES ASSUME TypeOK, SyncTimesOrdered, NEW k \in Keys, ~Completing(k)
                 PROVE  status[k].last <= row[k].last
      BY DEF ReportedSyncIsDurable
    <2>1. chain[k] # <<>> => Newest(k).state # "completed"
      <3>1. chain[k] \in Seq(Write)
        BY DEF TypeOK
      <3>2. chain[k] # <<>> => Len(chain[k]) \in DOMAIN chain[k]
        BY <3>1
      <3> QED
        BY <3>2 DEF Completing, Newest
    <2>2. SavedSync(k) = status[k].last
      BY <2>1 DEF SavedSync
    <2> QED
      BY <2>2 DEF SyncTimesOrdered
  <1> QED
    BY <1>1, TypeCorrect, ChainsCorrect, PTL

\* The table never loses the time of a job's last sync.
THEOREM SyncTimeKept == Spec => SyncTimeNeverErased
  <1>1. TypeOK /\ [Next]_vars =>
           [\A k \in Keys : row[k].last # 0 => row'[k].last # 0]_vars
    <2> SUFFICES ASSUME TypeOK, [Next]_vars, NEW k \in Keys, row[k].last # 0
                 PROVE  row'[k].last # 0
      OBVIOUS
    <2>1. row'[k] = row[k] \/ \E w : row'[k] = Upsert(row[k], w)
      <3>1. CASE Crash
        BY <3>1 DEF Crash
      <3>2. ASSUME NEW l \in Keys, Settle(l)
            PROVE  row'[k] = row[k] \/ \E w : row'[k] = Upsert(row[k], w)
        BY <3>2, SettleEffect
      <3> QED
        BY <3>1, <3>2, WriteKinds DEF Silent, LoadStatus, Issues
    <2>2. ASSUME NEW w PROVE Upsert(row[k], w).last # 0
      BY DEF Upsert
    <2> QED
      BY <2>1, <2>2
  <1> QED
    BY <1>1, TypeCorrect, PTL DEF Spec, SyncTimeNeverErased

----------------------------------------------------------------------------
(* The token.                                                              *)

LEMMA TokenKinds ==
    ASSUME TypeOK, [Next]_vars
    PROVE  \/ \A a \in Accounts : token'[a] \in {token[a], NoCall}
           \/ \E c \in Calls : GetToken(c)
  <1>1. ASSUME NEW c \in Calls, HandOver(c) \/ Leave(c)
        PROVE  \A a \in Accounts : token'[a] \in {token[a], NoCall}
    BY <1>1 DEF HandOver, Leave, DropToken, TypeOK
  <1>2. CASE Crash
    BY <1>2 DEF Crash
  <1>3. ASSUME NEW c \in Calls,
               \/ Trigger(c) \/ Dispatch(c) \/ Enter(c) \/ Busy(c) \/ CountPlans(c)
               \/ CountFails(c) \/ Conclude(c) \/ SkipSims(c) \/ StartSims(c)
               \/ StorePlan(c) \/ Progress(c)
        PROVE  token' = token
    BY <1>3 DEF Trigger, Dispatch, Enter, Busy, CountPlans, CountFails, Conclude,
                Complete, Fail, SkipSims, StartSims, StorePlan, Progress, memory
  <1>4. ASSUME NEW k \in Keys, Settle(k) PROVE token' = token
    BY <1>4 DEF Settle
  <1>5. ASSUME NEW a \in Accounts, LoadStatus(a) \/ GetSyncStatus(a) PROVE token' = token
    BY <1>5 DEF LoadStatus, GetSyncStatus
  <1>6. CASE UNCHANGED vars
    BY <1>6 DEF vars, memory
  <1> QED
    BY <1>1, <1>2, <1>3, <1>4, <1>5, <1>6 DEF Next, Work, Advance

LEMMA TokenStep ==
    ASSUME TypeOK, LockMatchesRuns, TokenIsTheRuns, [Next]_vars
    PROVE  TokenIsTheRuns'
  <1> SUFFICES ASSUME TypeOK', NEW a \in Accounts, NEW t \in Calls, token'[a] = t
               PROVE  Inside(t)' /\ Account(t)' = a
    BY TypeStep DEF TokenIsTheRuns, TypeOK
  <1>1. t # NoCall
    BY CallsAssumption
  <1>2. token[a] = t => Inside(t) /\ Account(t) = a
    BY <1>1 DEF TokenIsTheRuns
  <1>3. ASSUME NEW c \in Calls, GetToken(c)
        PROVE  Inside(t)' /\ Account(t)' = a
    <2>1. Inside(c)' /\ Account(c)' = Account(c)
      BY <1>3 DEF GetToken, calls, Inside, Account
    <2>2. token'[a] = token[a] \/ (token'[a] = c /\ a = Account(c))
      BY <1>3 DEF GetToken, TypeOK
    <2> QED
      BY <1>2, <1>3, <2>1, <2>2 DEF GetToken, calls, Inside, Account
  <1>4. ASSUME token[a] = t PROVE Inside(t)' /\ Account(t)' = a
    <2>1. CASE Unmoved
      BY <1>2, <1>4, <2>1 DEF Unmoved, Account
    <2>2. CASE Crash
      BY <1>1, <2>2 DEF Crash
    <2>3. ASSUME NEW c \in Calls, Entered(c) PROVE Inside(t)' /\ Account(t)' = a
      BY <1>2, <1>4, <2>3 DEF Entered, OthersStay, Inside, Account
    <2>4. ASSUME NEW c \in Calls, Left(c) PROVE Inside(t)' /\ Account(t)' = a
      <3>1. t # c
        BY <1>1, <1>2, <1>4, <2>4 DEF Left, DropToken, TypeOK
      <3> QED
        BY <1>2, <1>4, <2>4, <3>1 DEF Left, OthersStay, Inside, Account
    <2> QED
      BY <2>1, <2>2, <2>3, <2>4, StepKinds
  <1> QED
    BY <1>1, <1>3, <1>4, TokenKinds

\* The token a run goes upstream with was read by that run, for its account.
THEOREM TokenCorrect == Spec => []TokenIsTheRuns
  <1>1. Init => TokenIsTheRuns
    BY DEF Init, TokenIsTheRuns
  <1> QED
    BY <1>1, TokenStep, TypeCorrect, LockCorrect, PTL DEF Spec

----------------------------------------------------------------------------
(* The rating plans.                                                       *)

\* Every other call is where it was, and plans that were synced stay synced.
Alone(c) ==
    /\ \A d \in Calls \ {c} :
          /\ pc'[d] = pc[d] /\ todo'[d] = todo[d]
          /\ job'[d] = job[d] /\ doing'[d] = doing[d]
    /\ \A a \in Accounts : plans[a] # "unsynced" => plans'[a] # "unsynced"

LEMMA AloneKeeps ==
    ASSUME TypeOK, PlansKept, NEW c \in Calls, Alone(c)
    PROVE  \A d \in Calls \ {c} : PlansKeptBy(d)'
  <1> SUFFICES ASSUME NEW d \in Calls \ {c} PROVE PlansKeptBy(d)'
    OBVIOUS
  <1>1. /\ pc'[d] = pc[d] /\ Account(d)' = Account(d)
        /\ job'[d] = job[d] /\ doing'[d] = doing[d] /\ Inside(d)' = Inside(d)
    BY DEF Alone, Account, Inside
  <1>2. pc[d] # "none" => (plans[Account(d)] # "unsynced" => plans'[Account(d)] # "unsynced")
    BY AccountType DEF Alone
  <1>3. PlansKeptBy(d)
    BY DEF PlansKept
  <1> QED
    BY <1>1, <1>2, <1>3 DEF PlansKeptBy

LEMMA RequestKeeps ==
    ASSUME TypeOK, NEW c \in Calls, NEW list, NEW j, Request(c, list, j),
           c \in Cron => j = "syncRatingPlans", plans' = plans
    PROVE  Alone(c) /\ PlansKeptBy(c)'
  BY DEF Request, Alone, PlansKeptBy, Inside, TypeOK

LEMMA NextAccountKeeps ==
    ASSUME TypeOK, NEW c \in Calls, NextAccount(c), plans' = plans
    PROVE  Alone(c) /\ PlansKeptBy(c)'
  <1>1. CASE Tail(todo[c]) = <<>>
    BY <1>1 DEF NextAccount, Alone, PlansKeptBy, Inside, TypeOK
  <1>2. CASE Tail(todo[c]) # <<>>
    BY <1>2, RequestKeeps DEF NextAccount
  <1> QED
    BY <1>1, <1>2

\* What the call needs to have its next job started.
LEMMA StartKeeps ==
    ASSUME TypeOK, NEW c \in Calls, pc[c] # "none", NEW j, StartJob(c, j),
           todo' = todo, plans' = plans,
           \A d \in Calls \ {c} : job'[d] = job[d],
           j # job'[c] => job'[c] = "syncSims" /\ j = "syncRatingPlans",
           j = "syncSims" => plans[Account(c)] # "unsynced"
    PROVE  Alone(c) /\ PlansKeptBy(c)'
  <1>1. pc'[c] = "start" /\ doing'[c] = j /\ Account(c)' = Account(c)
    BY DEF StartJob, Account, TypeOK
  <1>2. Alone(c)
    BY DEF StartJob, Alone, TypeOK
  <1> QED
    BY <1>1, <1>2 DEF PlansKeptBy, Inside

LEMMA PlansStep ==
    ASSUME TypeOK, PlansKept, [Next]_vars
    PROVE  PlansKept'
  <1>0. ASSUME NEW c \in Calls, Alone(c), PlansKeptBy(c)' PROVE PlansKept'
    BY <1>0, AloneKeeps DEF PlansKept
  <1>1. ASSUME NEW c \in Calls, Trigger(c) PROVE PlansKept'
    BY <1>0, <1>1, RequestKeeps, CallsAssumption DEF Trigger
  <1>2. ASSUME NEW c \in Calls, Dispatch(c) PROVE PlansKept'
    BY <1>0, <1>2, RequestKeeps DEF Dispatch
  <1>3. ASSUME NEW c \in Calls, Enter(c) PROVE PlansKept'
    <2>1. PlansKeptBy(c) /\ pc[c] = "load" /\ c \in Manual \cup Cron
      BY <1>3 DEF Enter, PlansKept, Calls
    <2>2. CASE CountsPlans(c) /\ pc' = [pc EXCEPT ![c] = "count"] /\ UNCHANGED doing
      <3>1. UNCHANGED <<todo, job, plans>> /\ job[c] = "syncSims" /\ doing[c] = job[c]
        BY <1>3, <2>1, <2>2 DEF Enter, CountsPlans, PlansKeptBy
      <3> QED
        BY <1>0, <2>2, <3>1 DEF Alone, PlansKeptBy, Inside, TypeOK
    <2>3. CASE ~CountsPlans(c) /\ StartJob(c, job[c])
      <3>1. job[c] # "syncSims"
        BY <2>1, <2>3 DEF CountsPlans, PlansKeptBy
      <3> QED
        BY <1>0, <1>3, <2>1, <2>3, <3>1, StartKeeps DEF Enter
    <2> QED
      BY <1>3, <2>2, <2>3 DEF Enter
  <1>4. ASSUME NEW c \in Calls, Busy(c) PROVE PlansKept'
    BY <1>0, <1>4, NextAccountKeeps DEF Busy
  <1>5. ASSUME NEW c \in Calls, CountPlans(c) PROVE PlansKept'
    <2> DEFINE j == IF plans[Account(c)] = "stored" THEN "syncSims" ELSE "syncRatingPlans"
    <2>1. pc[c] = "count" /\ StartJob(c, j) /\ UNCHANGED <<todo, plans, job>>
      BY <1>5 DEF CountPlans
    <2>2. job[c] = "syncSims"
      BY <2>1 DEF PlansKept, PlansKeptBy
    <2> QED
      BY <1>0, <2>1, <2>2, StartKeeps
  <1>6. ASSUME NEW c \in Calls, CountFails(c) PROVE PlansKept'
    <2>1. PlansKeptBy(c)
      BY DEF PlansKept
    <2> QED
      BY <1>0, <1>6, <2>1 DEF CountFails, memory, Alone, PlansKeptBy, Inside, TypeOK
  <1>7. ASSUME NEW c \in Calls, Complete(c) PROVE PlansKept'
    <2>1. PlansKeptBy(c) /\ Account(c) \in Accounts
      BY <1>7, AccountType DEF PlansKept, Complete
    <2>2. /\ pc[c] = "work" /\ pc' = [pc EXCEPT ![c] = "finish"]
          /\ UNCHANGED <<todo, job, doing>> /\ Account(c)' = Account(c)
      BY <1>7 DEF Complete, Account
    <2>3. /\ \A a \in Accounts : plans[a] # "unsynced" => plans'[a] # "unsynced"
          /\ doing[c] = "syncRatingPlans" => plans'[Account(c)] # "unsynced"
      BY <1>7, <2>1 DEF Complete, TypeOK
    <2>4. Alone(c)
      BY <2>2, <2>3 DEF Alone, TypeOK
    <2>5. PlansKeptBy(c)'
      BY <2>1, <2>2, <2>3 DEF PlansKeptBy, Inside, TypeOK
    <2> QED
      BY <1>0, <2>4, <2>5
  <1>8. ASSUME NEW c \in Calls, Fail(c) PROVE PlansKept'
    <2>1. PlansKeptBy(c)
      BY DEF PlansKept
    <2>2. /\ pc[c] = "work" /\ UNCHANGED <<todo, job, doing, plans>>
          /\ pc' = [pc EXCEPT ![c] = IF doing[c] = job[c] THEN "giveup" ELSE "unready"]
      BY <1>8 DEF Fail
    <2> QED
      BY <1>0, <2>1, <2>2 DEF Alone, PlansKeptBy, Inside, TypeOK
  <1>9. ASSUME NEW c \in Calls, SkipSims(c) PROVE PlansKept'
    <2>1. PlansKeptBy(c)
      BY DEF PlansKept
    <2>2. pc[c] = "unready" /\ Inside(c)
      BY <1>9 DEF SkipSims, Inside
    <2>3. /\ pc' = [pc EXCEPT ![c] = "skip"] /\ doing' = [doing EXCEPT ![c] = "syncSims"]
          /\ UNCHANGED <<todo, job, plans>>
      BY <1>9 DEF SkipSims
    <2>4. job[c] = "syncSims"
      BY <2>1, <2>2, <1>9 DEF PlansKeptBy, SkipSims
    <2> QED
      BY <1>0, <2>2, <2>3, <2>4 DEF Alone, PlansKeptBy, Inside, TypeOK
  <1>10. ASSUME NEW c \in Calls, StartSims(c) PROVE PlansKept'
    <2>1. PlansKeptBy(c) /\ Inside(c)
      BY <1>10 DEF PlansKept, StartSims, Inside
    <2>2. /\ pc[c] = "saved" /\ StartJob(c, job[c]) /\ UNCHANGED <<todo, plans, job>>
          /\ plans[Account(c)] # "unsynced"
      BY <1>10, <2>1 DEF StartSims, PlansKeptBy
    <2> QED
      BY <1>0, <2>2, StartKeeps
  <1>11. ASSUME NEW c \in Calls, HandOver(c) PROVE PlansKept'
    <2>1. PlansKeptBy(c)
      BY DEF PlansKept
    <2>2. PICK j \in FollowUp(c) : job' = [job EXCEPT ![c] = j] /\ StartJob(c, j)
      BY <1>11 DEF HandOver
    <2>3. UNCHANGED <<todo, plans>> /\ pc[c] # "none" /\ Ended(c)
      BY <1>11 DEF HandOver, Ended
    <2>4. job'[c] = j /\ \A d \in Calls \ {c} : job'[d] = job[d]
      BY <2>2 DEF TypeOK
    <2>5. j = "syncSims" => plans[Account(c)] # "unsynced"
      BY <2>1, <2>2, <2>3 DEF FollowUp, Ended, PlansKeptBy
    <2> QED
      BY <1>0, <2>2, <2>3, <2>4, <2>5, StartKeeps
  <1>12. ASSUME NEW c \in Calls, Leave(c) PROVE PlansKept'
    BY <1>0, <1>12, NextAccountKeeps DEF Leave
  <1>13. ASSUME NEW c \in Calls, GetToken(c) \/ Progress(c) PROVE PlansKept'
    BY <1>13 DEF GetToken, Progress, calls, PlansKept, PlansKeptBy, Inside, Account
  <1>14. ASSUME NEW c \in Calls, StorePlan(c) PROVE PlansKept'
    <2>1. PlansKeptBy(c) /\ UNCHANGED <<pc, todo, job, doing>>
      BY <1>14 DEF PlansKept, StorePlan, calls
    <2>2. \A a \in Accounts : plans[a] # "unsynced" => plans'[a] # "unsynced"
      BY <1>14 DEF StorePlan, TypeOK
    <2>3. Alone(c)
      BY <2>1, <2>2 DEF Alone
    <2>4. pc[c] = "work" /\ Account(c) \in Accounts /\ Account(c)' = Account(c)
      BY <1>14, <2>1, AccountType DEF StorePlan, Account
    <2>5. PlansKeptBy(c)'
      BY <2>1, <2>2, <2>4 DEF PlansKeptBy, Inside
    <2> QED
      BY <1>0, <2>3, <2>5
  <1>15. ASSUME NEW k \in Keys, Settle(k) PROVE PlansKept'
    <2>1. UNCHANGED <<todo, job, doing, plans>>
      BY <1>15 DEF Settle
    <2>2. pc' = pc \/ \E c \in Calls : pc' = [pc EXCEPT ![c] = Resumed(@)]
      <3>1. Head(chain[k]) \in Write
        BY <1>15 DEF Settle, TypeOK
      <3> QED
        BY <1>15, <3>1 DEF Settle, Write
    <2>3. \A d \in Calls : pc'[d] = pc[d] \/ pc'[d] = Resumed(pc[d])
      BY <2>2 DEF TypeOK
    <2> SUFFICES ASSUME NEW d \in Calls PROVE PlansKeptBy(d)'
      BY DEF PlansKept
    <2>4. PlansKeptBy(d) /\ Account(d)' = Account(d) /\ pc[d] \in Places
      BY <2>1 DEF PlansKept, Account, TypeOK
    <2>5. /\ Inside(d)' => Inside(d)
          /\ pc'[d] \in {"load", "count", "unready"} => pc[d] = pc'[d]
          /\ pc'[d] \in {"finish", "saved"} => pc[d] \in {"finish", "saved"}
          /\ pc'[d] \in {"start", "work"} => pc[d] \in {"start", "work"}
      BY <2>3, <2>4 DEF Resumed, Inside, Places
    <2> QED
      BY <2>1, <2>4, <2>5 DEF PlansKeptBy
  <1>16. ASSUME NEW a \in Accounts, LoadStatus(a) \/ GetSyncStatus(a) PROVE PlansKept'
    BY <1>16 DEF LoadStatus, GetSyncStatus, calls, PlansKept, PlansKeptBy, Inside, Account
  <1>17. CASE Crash
    BY <1>17 DEF Crash, PlansKept, PlansKeptBy, Inside
  <1>18. CASE UNCHANGED vars
    BY <1>18 DEF vars, calls, PlansKept, PlansKeptBy, Inside, Account
  <1> QED
    BY <1>1, <1>2, <1>3, <1>4, <1>5, <1>6, <1>7, <1>8, <1>9, <1>10, <1>11, <1>12,
       <1>13, <1>14, <1>15, <1>16, <1>17, <1>18 DEF Next, Work, Advance, Conclude

LEMMA PlansStayKept == Spec => []PlansKept
  <1>1. Init => PlansKept
    BY DEF Init, PlansKept, PlansKeptBy, Inside
  <1> QED
    BY <1>1, PlansStep, TypeCorrect, PTL DEF Spec

\* No SIM sync runs on an account whose rating plans were never synced, whoever
\* asked for it and whatever failed before.
THEOREM PlansFirst == Spec => []SimsFollowPlans
  <1>1. PlansKept => SimsFollowPlans
    BY DEF PlansKept, PlansKeptBy, SimsFollowPlans, SyncsSims
  <1> QED
    BY <1>1, PlansStayKept, PTL

----------------------------------------------------------------------------
(* The newest write.                                                       *)

\* The newest write of a key: queued by a call, or the same as before as long
\* as one is left.
LEMMA NewestStep ==
    ASSUME TypeOK, LockMatchesRuns, LoadedFirst, NewestIsCurrent, [Next]_vars
    PROVE  NewestIsCurrent'
  <1> SUFFICES ASSUME NEW k \in Keys, chain'[k] # <<>>
               PROVE  Newest(k)'.state = status'[k].state
    BY DEF NewestIsCurrent
  <1>1. chain[k] # <<>> => Newest(k).state = status[k].state
    BY DEF NewestIsCurrent
  <1>2. CASE Silent
    BY <1>1, <1>2 DEF Silent, Newest
  <1>3. CASE Crash
    BY <1>3 DEF Crash
  <1>4. ASSUME NEW a \in Accounts, LoadStatus(a) PROVE Newest(k)'.state = status'[k].state
    <2>1. chain' = chain /\ ~Loaded(a)
      BY <1>4 DEF LoadStatus, Loaded
    <2>2. k[1] # a
      BY <2>1 DEF LoadedFirst
    <2>3. status'[k] = status[k]
      BY <1>4, <2>2 DEF LoadStatus
    <2> QED
      BY <1>1, <2>1, <2>3 DEF Newest
  <1>5. ASSUME NEW l \in Keys, Settle(l) PROVE Newest(k)'.state = status'[k].state
    <2>1. CASE k # l
      BY <1>1, <1>5, <2>1, SettleEffect DEF Newest
    <2>2. CASE k = l
      <3>1. /\ chain'[k] \in Seq(Write) /\ Len(chain'[k]) = Len(chain[k]) - 1
            /\ \A i \in DOMAIN chain'[k] : chain'[k][i] = chain[k][i+1]
            /\ chain[k] # <<>>
        BY <1>5, <2>2, SettleEffect
      <3>2. Len(chain'[k]) \in DOMAIN chain'[k] /\ Len(chain[k]) \in Nat
        BY <3>1 DEF TypeOK
      <3>3. Newest(k)' = Newest(k)
        BY <3>1, <3>2 DEF Newest
      <3>4. status'[k].state = status[k].state
        <4>1. PICK w, saved : status'[k] = AfterWrite(status[k], w, saved)
          BY <1>5, <2>2, SettleEffect
        <4>2. status[k] \in Status
          BY DEF TypeOK
        <4> QED
          BY <4>1, <4>2 DEF AfterWrite, Status
      <3> QED
        BY <1>1, <3>1, <3>3, <3>4
    <2> QED
      BY <2>1, <2>2
  <1>6. ASSUME NEW c \in Calls, NEW l \in Keys, NEW state \in States, NEW new \in Nat,
               NEW waiter \in Calls \cup {NoCall}, Issues(c, l, state, new, waiter)
        PROVE  Newest(k)'.state = status'[k].state
    <2> DEFINE last == IF new # 0 THEN new ELSE status[l].last
               w == [state |-> state, last |-> last, prev |-> status[l].last,
                     waiter |-> waiter]
    <2>1. /\ status' = [status EXCEPT ![l] = [state |-> state, last |-> last]]
          /\ chain' = [chain EXCEPT ![l] = Append(@, w)]
      BY <1>6 DEF Issues, UpdateSyncStatus
    <2>2. CASE k # l
      BY <1>1, <2>1, <2>2 DEF Newest, TypeOK
    <2>3. CASE k = l
      <3>1. chain[k] \in Seq(Write) /\ chain'[k] = Append(chain[k], w)
        BY <2>1, <2>3 DEF TypeOK
      <3>2. Newest(k)' = w
        BY <3>1 DEF Newest
      <3>3. status'[k].state = state
        BY <2>1, <2>3 DEF TypeOK
      <3> QED
        BY <3>2, <3>3
    <2> QED
      BY <2>2, <2>3
  <1> QED
    BY <1>2, <1>3, <1>4, <1>5, <1>6, WriteKinds

----------------------------------------------------------------------------
(* The table.                                                              *)

Matches(k) ==
    chain[k] = <<>> /\ settled[k] = "ok" =>
       /\ row[k].state = status[k].state
       /\ status[k].last \in {0, row[k].last}

\* The last write of a key that is acknowledged brings the table up to memory.
LEMMA LastSettles ==
    ASSUME TypeOK, TypeOK', NewestIsCurrent, SyncTimesOrdered, NEW k \in Keys, Settle(k)
    PROVE  Matches(k)'
  <1> SUFFICES ASSUME chain'[k] = <<>>, settled'[k] = "ok"
               PROVE  /\ row'[k].state = status'[k].state
                      /\ status'[k].last \in {0, row'[k].last}
    BY DEF Matches
  <1> DEFINE w == chain[k][1]
  <1>1. Len(chain[k]) = 1 /\ 1 \in DOMAIN chain[k] /\ chain[k] # <<>> /\ w \in Write
    <2>1. /\ chain[k] # <<>> /\ 1 \in DOMAIN chain[k] /\ w \in Write
          /\ Len(chain'[k]) = Len(chain[k]) - 1
      BY SettleEffect
    <2>2. Len(chain[k]) \in Nat /\ Len(chain'[k]) = 0
      BY DEF TypeOK
    <2> QED
      BY <2>1, <2>2
  <1>2. PICK outcome \in Outcomes :
           /\ row'[k] = IF outcome # "lost" THEN Upsert(row[k], w) ELSE row[k]
           /\ settled'[k] = IF outcome = "saved" THEN "ok" ELSE "failed"
           /\ status'[k] = AfterWrite(status[k], w, outcome = "saved")
    BY SettleEffect
  <1>3. outcome = "saved"
    BY <1>2
  <1>4. row'[k] = Upsert(row[k], w) /\ status'[k] = status[k]
    BY <1>2, <1>3 DEF AfterWrite
  <1>5. Newest(k) = w /\ w.state = status[k].state
    BY <1>1 DEF Newest, NewestIsCurrent
  <1>6. w.last = status[k].last
    <2>1. CASE w.state = "completed"
      BY <1>1, <2>1 DEF SyncTimesOrdered
    <2>2. CASE w.state # "completed"
      <3>1. SavedSync(k) = status[k].last
        BY <1>5, <2>2 DEF SavedSync
      <3> QED
        BY <1>1, <2>2, <3>1 DEF SyncTimesOrdered
    <2> QED
      BY <2>1, <2>2
  <1> QED
    BY <1>4, <1>5, <1>6 DEF Upsert

LEMMA TableStep ==
    ASSUME TypeOK, TypeOK', LoadedFirst, NewestIsCurrent, SyncTimesOrdered,
           TableMatchesMemory, [Next]_vars
    PROVE  TableMatchesMemory'
  <1> SUFFICES ASSUME NEW k \in Keys PROVE Matches(k)'
    BY DEF TableMatchesMemory, Matches
  <1>1. Matches(k)
    BY DEF TableMatchesMemory, Matches
  <1>2. CASE Silent
    BY <1>1, <1>2 DEF Silent, Matches
  <1>3. CASE Crash
    BY <1>3 DEF Crash, Matches
  <1>4. ASSUME NEW a \in Accounts, LoadStatus(a) PROVE Matches(k)'
    <2>1. UNCHANGED <<chain, row, settled>> /\ ~Loaded(a)
      BY <1>4 DEF LoadStatus, Loaded
    <2>2. CASE k[1] = a
      BY <2>1, <2>2 DEF LoadedFirst, Matches
    <2>3. CASE k[1] # a
      BY <1>1, <1>4, <2>1, <2>3 DEF LoadStatus, Matches
    <2> QED
      BY <2>2, <2>3
  <1>5. ASSUME NEW l \in Keys, Settle(l) PROVE Matches(k)'
    <2>1. CASE k # l
      BY <1>1, <1>5, <2>1, SettleEffect DEF Matches
    <2> QED
      BY <1>5, <2>1, LastSettles
  <1>6. ASSUME NEW c \in Calls, NEW l \in Keys, NEW state \in States, NEW new \in Nat,
               NEW waiter \in Calls \cup {NoCall}, Issues(c, l, state, new, waiter)
        PROVE  Matches(k)'
    <2>1. CASE k # l
      BY <1>1, <1>6, <2>1 DEF Issues, UpdateSyncStatus, Matches, TypeOK
    <2>2. CASE k = l
      <3>1. chain'[k] # <<>>
        BY <1>6, <2>2 DEF Issues, UpdateSyncStatus, TypeOK
      <3> QED
        BY <3>1 DEF Matches
    <2> QED
      BY <2>1, <2>2
  <1> QED
    BY <1>2, <1>3, <1>4, <1>5, <1>6, WriteKinds

\* What the table says of a job is what the process says, whenever the writes
\* have settled and the last was acknowledged: none overtakes another, and no
\* failed one leaves a completion standing in memory alone.
THEOREM TableCorrect == Spec => []TableMatchesMemory
  <1>1. Init => NewestIsCurrent /\ TableMatchesMemory
    BY DEF Init, NewestIsCurrent, TableMatchesMemory
  <1>2. TypeOK /\ TypeOK' /\ LockMatchesRuns /\ LoadedFirst /\ SyncTimesOrdered
        /\ NewestIsCurrent /\ TableMatchesMemory /\ [Next]_vars
        => (NewestIsCurrent /\ TableMatchesMemory)'
    BY NewestStep, TableStep
  <1> QED
    BY <1>1, <1>2, TypeCorrect, LockCorrect, ChainsCorrect, PTL DEF Spec

----------------------------------------------------------------------------
(* The status of a job at work.                                            *)

StatusOf(c) ==
    /\ pc[c] \in {"start", "work"} => status[Key(c)].state = "running"
    /\ pc[c] \in {"finish", "saved"} => status[Key(c)].state = "completed"
    /\ pc[c] = "skip" => status[Key(c)].state = "failed"

\* The step of call c: the statuses of other accounts stay, and a status only
\* changes if the call has the account or takes it.
Own(c) ==
    /\ \A d \in Calls \ {c} : pc'[d] = pc[d] /\ todo'[d] = todo[d] /\ doing'[d] = doing[d]
    /\ \/ status' = status
       \/ /\ Inside(c) \/ (pc[c] = "load" /\ Account(c) \notin active)
          /\ \A k \in Keys : k[1] # Account(c) => status'[k] = status[k]

LEMMA OwnersKeep ==
    ASSUME TypeOK, LockMatchesRuns, StatusIsTheRuns, NEW c \in Calls, Own(c)
    PROVE  \A d \in Calls \ {c} : StatusOf(d)'
  <1> SUFFICES ASSUME NEW d \in Calls \ {c} PROVE StatusOf(d)'
    OBVIOUS
  <1>1. pc'[d] = pc[d] /\ Key(d)' = Key(d) /\ StatusOf(d)
    BY DEF Own, Key, Account, StatusIsTheRuns, StatusOf
  <1>2. ASSUME Inside(d) PROVE status'[Key(d)] = status[Key(d)]
    <2>1. CASE status' = status
      BY <2>1
    <2>2. CASE status' # status
      <3>1. Account(d) # Account(c)
        BY <1>2, <2>2 DEF Own, LockMatchesRuns
      <3>2. Key(d) \in Keys /\ Key(d)[1] = Account(d)
        BY <1>2, AccountType DEF Inside, Key
      <3> QED
        BY <2>2, <3>1, <3>2 DEF Own
    <2> QED
      BY <2>1, <2>2
  <1> QED
    BY <1>1, <1>2 DEF StatusOf, Inside

LEMMA UpdateStatus ==
    ASSUME TypeOK, NEW k \in Keys, NEW state, NEW new, NEW waiter,
           UpdateSyncStatus(k, state, new, waiter)
    PROVE  /\ status'[k].state = state
           /\ \A l \in Keys : l # k => status'[l] = status[l]
  BY DEF UpdateSyncStatus, TypeOK

LEMMA StartStatus ==
    ASSUME TypeOK, NEW c \in Calls, NEW j \in Jobs, StartJob(c, j), todo' = todo,
           Inside(c) \/ (pc[c] = "load" /\ Account(c) \notin active)
    PROVE  Own(c) /\ StatusOf(c)'
  <1> DEFINE k == <<Account(c), j>>
  <1>1. k \in Keys /\ k[1] = Account(c)
    BY AccountType DEF Keys, Inside
  <1>2. /\ pc'[c] = "start" /\ Key(c)' = k
        /\ \A d \in Calls \ {c} : pc'[d] = pc[d] /\ doing'[d] = doing[d]
    BY DEF StartJob, Key, Account, TypeOK
  <1>3. status'[k].state = "running" /\ \A l \in Keys : l # k => status'[l] = status[l]
    BY <1>1, UpdateStatus DEF StartJob
  <1> QED
    BY <1>1, <1>2, <1>3 DEF Own, StatusOf

\* The same of the steps that write a status without starting a job.
LEMMA EndStatus ==
    ASSUME TypeOK, NEW c \in Calls, NEW j \in Jobs, NEW state, NEW new, NEW waiter,
           NEW p, UpdateSyncStatus(<<Account(c), j>>, state, new, waiter), Inside(c),
           pc' = [pc EXCEPT ![c] = p], todo' = todo, doing'[c] = j,
           \A d \in Calls \ {c} : doing'[d] = doing[d],
           p \in {"start", "work"} => state = "running",
           p \in {"finish", "saved"} => state = "completed",
           p = "skip" => state = "failed"
    PROVE  Own(c) /\ StatusOf(c)'
  <1> DEFINE k == <<Account(c), j>>
  <1>1. k \in Keys /\ k[1] = Account(c)
    BY AccountType DEF Keys, Inside
  <1>2. /\ pc'[c] = p /\ Key(c)' = k
        /\ \A d \in Calls \ {c} : pc'[d] = pc[d]
    BY DEF Key, Account, TypeOK
  <1>3. status'[k].state = state /\ \A l \in Keys : l # k => status'[l] = status[l]
    BY <1>1, UpdateStatus
  <1> QED
    BY <1>1, <1>2, <1>3 DEF Own, StatusOf

LEMMA NextAccountOwn ==
    ASSUME TypeOK, NEW c \in Calls, NextAccount(c), status' = status
    PROVE  Own(c) /\ StatusOf(c)'
  BY DEF NextAccount, Request, Own, StatusOf, TypeOK

LEMMA StatusStep ==
    ASSUME TypeOK, LockMatchesRuns, LoadedFirst, StatusIsTheRuns, [Next]_vars
    PROVE  StatusIsTheRuns'
  <1>0. ASSUME NEW c \in Calls, Own(c), StatusOf(c)' PROVE StatusIsTheRuns'
    <2>1. \A d \in Calls : StatusOf(d)'
      BY <1>0, OwnersKeep
    <2> QED
      BY <2>1 DEF StatusIsTheRuns, StatusOf
  <1>00. \A c \in Calls : StatusOf(c)
    BY DEF StatusIsTheRuns, StatusOf
  <1>1. ASSUME NEW c \in Calls, Trigger(c) \/ Dispatch(c) PROVE StatusIsTheRuns'
    <2>1. PICK list, j : Request(c, list, j)
      BY <1>1 DEF Trigger, Dispatch
    <2>2. status' = status
      BY <1>1 DEF Trigger, Dispatch
    <2> QED
      BY <1>0, <2>1, <2>2 DEF Request, Own, StatusOf, TypeOK
  <1>2. ASSUME NEW c \in Calls, Enter(c) PROVE StatusIsTheRuns'
    <2>1. pc[c] = "load" /\ Account(c) \notin active /\ todo' = todo /\ job[c] \in Jobs
      BY <1>2 DEF Enter, TypeOK
    <2>2. CASE pc' = [pc EXCEPT ![c] = "count"] /\ UNCHANGED <<doing, status, chain>>
      BY <1>0, <2>1, <2>2 DEF Own, StatusOf, TypeOK
    <2>3. CASE StartJob(c, job[c])
      BY <1>0, <2>1, <2>3, StartStatus
    <2> QED
      BY <1>2, <2>2, <2>3 DEF Enter
  <1>3. ASSUME NEW c \in Calls, Busy(c) PROVE StatusIsTheRuns'
    BY <1>0, <1>3, NextAccountOwn DEF Busy
  <1>4. ASSUME NEW c \in Calls, CountPlans(c) PROVE StatusIsTheRuns'
    <2>1. {"syncSims", "syncRatingPlans"} \subseteq Jobs /\ Inside(c) /\ todo' = todo
      BY <1>4 DEF CountPlans, Jobs, Inside
    <2>2. \E j \in Jobs : StartJob(c, j)
      BY <1>4, <2>1 DEF CountPlans
    <2> QED
      BY <1>0, <2>1, <2>2, StartStatus
  <1>5. ASSUME NEW c \in Calls, CountFails(c) PROVE StatusIsTheRuns'
    BY <1>0, <1>5 DEF CountFails, memory, Own, StatusOf, TypeOK
  <1>6. ASSUME NEW c \in Calls, Complete(c) PROVE StatusIsTheRuns'
    <2>1. /\ UpdateSyncStatus(<<Account(c), doing[c]>>, "completed", clock + 1, c)
          /\ pc' = [pc EXCEPT ![c] = "finish"] /\ UNCHANGED <<todo, doing>>
          /\ Inside(c) /\ doing[c] \in Jobs
      BY <1>6 DEF Complete, Key, Inside, TypeOK
    <2> QED
      BY <1>0, <2>1, EndStatus
  <1>7. ASSUME NEW c \in Calls, Fail(c) PROVE StatusIsTheRuns'
    <2>1. /\ UpdateSyncStatus(<<Account(c), doing[c]>>, "failed", 0, NoCall)
          /\ \E p \in {"giveup", "unready"} : pc' = [pc EXCEPT ![c] = p]
          /\ UNCHANGED <<todo, doing>> /\ Inside(c) /\ doing[c] \in Jobs
      BY <1>7 DEF Fail, Key, Inside, TypeOK
    <2> QED
      BY <1>0, <2>1, EndStatus
  <1>8. ASSUME NEW c \in Calls, SkipSims(c) PROVE StatusIsTheRuns'
    <2>1. /\ UpdateSyncStatus(<<Account(c), "syncSims">>, "failed", 0, c)
          /\ pc' = [pc EXCEPT ![c] = "skip"] /\ todo' = todo
          /\ Inside(c) /\ "syncSims" \in Jobs
      BY <1>8 DEF SkipSims, Inside, Jobs
    <2>2. doing'[c] = "syncSims" /\ \A d \in Calls \ {c} : doing'[d] = doing[d]
      BY <1>8 DEF SkipSims, TypeOK
    <2> QED
      BY <1>0, <2>1, <2>2, EndStatus
  <1>9. ASSUME NEW c \in Calls, StartSims(c) PROVE StatusIsTheRuns'
    BY <1>0, <1>9, StartStatus DEF StartSims, Inside, TypeOK
  <1>10. ASSUME NEW c \in Calls, HandOver(c) PROVE StatusIsTheRuns'
    <2>1. Inside(c) /\ todo' = todo /\ \E j \in FollowUp(c) : StartJob(c, j)
      BY <1>10 DEF HandOver, Ended, Inside
    <2>2. FollowUp(c) \subseteq Jobs
      BY DEF FollowUp, Jobs
    <2> QED
      BY <1>0, <2>1, <2>2, StartStatus
  <1>11. ASSUME NEW c \in Calls, Leave(c) PROVE StatusIsTheRuns'
    BY <1>0, <1>11, NextAccountOwn DEF Leave
  <1>12. ASSUME NEW c \in Calls, GetToken(c) \/ StorePlan(c) PROVE StatusIsTheRuns'
    BY <1>12 DEF GetToken, StorePlan, memory, calls, StatusIsTheRuns, Key, Account
  <1>13. ASSUME NEW c \in Calls, Progress(c) PROVE StatusIsTheRuns'
    <2>1. /\ UpdateSyncStatus(<<Account(c), doing[c]>>, "running", 0, NoCall)
          /\ pc' = [pc EXCEPT ![c] = "work"] /\ UNCHANGED <<todo, doing>>
          /\ Inside(c) /\ doing[c] \in Jobs
      BY <1>13 DEF Progress, Key, Inside, calls, TypeOK
    <2> QED
      BY <1>0, <2>1, EndStatus
  <1>14. ASSUME NEW k \in Keys, Settle(k) PROVE StatusIsTheRuns'
    <2>1. \A l \in Keys : status'[l].state = status[l].state
      <3>1. PICK w, saved : status' = [status EXCEPT ![k] = AfterWrite(@, w, saved)]
        BY <1>14 DEF Settle
      <3>2. status[k] \in Status
        BY DEF TypeOK
      <3> QED
        BY <3>1, <3>2 DEF AfterWrite, Status, TypeOK
    <2>2. \A d \in Calls : pc'[d] = pc[d] \/ pc'[d] = Resumed(pc[d])
      <3>1. pc' = pc \/ \E c \in Calls : pc' = [pc EXCEPT ![c] = Resumed(@)]
        BY <1>14, SettleEffect DEF Write
      <3> QED
        BY <3>1 DEF TypeOK
    <2>3. \A d \in Calls : Key(d)' = Key(d)
      BY <1>14 DEF Settle, Key, Account
    <2> SUFFICES ASSUME NEW d \in Calls PROVE StatusOf(d)'
      BY DEF StatusIsTheRuns, StatusOf
    <2>4. pc[d] # "none" => Key(d) \in Keys
      BY AccountType
    <2>5. /\ pc'[d] \in {"start", "work"} => pc[d] \in {"start", "work"}
          /\ pc'[d] \in {"finish", "saved"} => pc[d] \in {"finish", "saved"}
          /\ pc'[d] = "skip" => pc[d] = "skip"
      BY <2>2 DEF Resumed, Places, TypeOK
    <2> QED
      BY <1>00, <2>1, <2>3, <2>4, <2>5 DEF StatusOf
  <1>15. ASSUME NEW a \in Accounts, LoadStatus(a) PROVE StatusIsTheRuns'
    <2>1. UNCHANGED <<pc, todo, doing>> /\ ~Loaded(a)
      BY <1>15 DEF LoadStatus, calls, Loaded
    <2> SUFFICES ASSUME NEW d \in Calls PROVE StatusOf(d)'
      BY DEF StatusIsTheRuns, StatusOf
    <2>2. ASSUME Inside(d) PROVE status'[Key(d)] = status[Key(d)]
      <3>1. Account(d) # a /\ Key(d) \in Keys /\ Key(d)[1] = Account(d)
        BY <2>1, <2>2, AccountType DEF LoadedFirst, Inside, Key
      <3> QED
        BY <1>15, <3>1 DEF LoadStatus
    <2> QED
      BY <1>00, <2>1, <2>2 DEF StatusOf, Inside, Key, Account
  <1>16. ASSUME NEW a \in Accounts, GetSyncStatus(a) PROVE StatusIsTheRuns'
    BY <1>16 DEF GetSyncStatus, calls, StatusIsTheRuns, Key, Account
  <1>17. CASE Crash
    BY <1>17 DEF Crash, StatusIsTheRuns
  <1>18. CASE UNCHANGED vars
    BY <1>18 DEF vars, memory, calls, StatusIsTheRuns, Key, Account
  <1> QED
    BY <1>1, <1>2, <1>3, <1>4, <1>5, <1>6, <1>7, <1>8, <1>9, <1>10, <1>11, <1>12,
       <1>13, <1>14, <1>15, <1>16, <1>17, <1>18 DEF Next, Work, Advance, Conclude

\* While a call works on a job nothing else, not a late load, a late write or
\* another call, changes what the status says of it.
THEOREM StatusCorrect == Spec => []StatusIsTheRuns
  <1>1. Init => StatusIsTheRuns
    BY DEF Init, StatusIsTheRuns
  <1>2. TypeOK /\ LockMatchesRuns /\ LoadedFirst /\ StatusIsTheRuns /\ [Next]_vars
        => StatusIsTheRuns'
    BY StatusStep
  <1> QED
    BY <1>1, <1>2, TypeCorrect, LockCorrect, ChainsCorrect, PTL DEF Spec

----------------------------------------------------------------------------
(* A job shown as running.                                                 *)

\* A call at work on a job stays at work on it, or the job is no longer shown as
\* running.
LEMMA WorkStays ==
    ASSUME TypeOK, StatusIsTheRuns', [Next]_vars, NEW c \in Calls, NEW k \in Keys,
           Works(c, k), status'[k].state = "running"
    PROVE  Works(c, k)'
  <1>1. pc[c] \in {"start", "work"} /\ Key(c) = k
    BY DEF Works
  <1>2. ASSUME pc'[c] = pc[c], todo'[c] = todo[c], doing'[c] = doing[c] PROVE Works(c, k)'
    BY <1>1, <1>2 DEF Works, Key, Account
  <1>3. ASSUME NEW d \in Calls,
               Trigger(d) \/ Dispatch(d) \/ Enter(d) \/ Busy(d) \/ CountPlans(d)
               \/ CountFails(d) \/ SkipSims(d) \/ StartSims(d) \/ HandOver(d) \/ Leave(d)
        PROVE  Works(c, k)'
    <2>1. d # c
      BY <1>1, <1>3 DEF Trigger, Dispatch, Enter, Busy, CountPlans, CountFails, SkipSims,
         StartSims, HandOver, Leave, Ended
    <2>2. pc'[c] = pc[c] /\ todo'[c] = todo[c] /\ doing'[c] = doing[c]
      <3>1. CASE Trigger(d) \/ Dispatch(d)
        BY <2>1, <3>1 DEF Trigger, Dispatch, Request, TypeOK
      <3>2. CASE Enter(d)
        BY <2>1, <3>2 DEF Enter, StartJob, TypeOK
      <3>3. CASE Busy(d) \/ Leave(d)
        BY <2>1, <3>3 DEF Busy, Leave, NextAccount, Request, TypeOK
      <3>4. CASE HandOver(d)
        BY <2>1, <3>4 DEF HandOver, StartJob, TypeOK
      <3>5. CASE CountPlans(d) \/ CountFails(d)
        BY <2>1, <3>5 DEF CountPlans, CountFails, StartJob, TypeOK
      <3>6. CASE SkipSims(d) \/ StartSims(d)
        BY <2>1, <3>6 DEF SkipSims, StartSims, StartJob, TypeOK
      <3> QED
        BY <1>3, <3>1, <3>2, <3>3, <3>4, <3>5, <3>6
    <2> QED
      BY <1>2, <2>2
  <1>4. ASSUME NEW d \in Calls, Complete(d) PROVE Works(c, k)'
    <2>1. CASE d = c
      <3>1. pc'[c] = "finish" /\ Key(c)' = k
        BY <1>1, <1>4, <2>1 DEF Complete, Key, Account, TypeOK
      <3> QED
        BY <3>1 DEF StatusIsTheRuns
    <2> QED
      BY <1>2, <1>4, <2>1 DEF Complete, TypeOK
  <1>5. ASSUME NEW d \in Calls, Fail(d) PROVE Works(c, k)'
    <2>1. CASE d = c
      BY <1>1, <1>5, <2>1, UpdateStatus DEF Fail
    <2> QED
      BY <1>2, <1>5, <2>1 DEF Fail, TypeOK
  <1>6. ASSUME NEW d \in Calls, GetToken(d) \/ StorePlan(d) \/ Progress(d)
        PROVE  Works(c, k)'
    BY <1>2, <1>6 DEF GetToken, StorePlan, Progress, calls
  <1>7. ASSUME NEW l \in Keys, Settle(l) PROVE Works(c, k)'
    <2>1. pc' = pc \/ \E d \in Calls : pc' = [pc EXCEPT ![d] = Resumed(@)]
      BY <1>7, SettleEffect DEF Write
    <2>2. pc'[c] \in {pc[c], Resumed(pc[c])}
      BY <2>1 DEF TypeOK
    <2> QED
      BY <1>1, <1>7, <2>2 DEF Settle, Resumed, Works, Key, Account
  <1>8. ASSUME NEW a \in Accounts, LoadStatus(a) \/ GetSyncStatus(a) PROVE Works(c, k)'
    BY <1>2, <1>8 DEF LoadStatus, GetSyncStatus, calls
  <1>9. CASE Crash
    BY <1>9 DEF Crash, Idle
  <1>10. CASE UNCHANGED vars
    BY <1>2, <1>10 DEF vars, calls
  <1> QED
    BY <1>3, <1>4, <1>5, <1>6, <1>7, <1>8, <1>9, <1>10 DEF Next, Work, Advance, Conclude

LEMMA BackedStep ==
    ASSUME TypeOK, LoadedFirst, RunningIsBacked, StatusIsTheRuns', [Next]_vars
    PROVE  RunningIsBacked'
  <1> SUFFICES ASSUME NEW k \in Keys, status'[k].state = "running",
                      \A c \in Calls : ~Works(c, k)'
               PROVE  chain'[k] = <<>> /\ settled'[k] = "none" /\ row'[k].state = "running"
    BY DEF RunningIsBacked
  <1>1. \A c \in Calls : ~Works(c, k)
    BY WorkStays
  <1>2. status[k].state = "running" =>
            chain[k] = <<>> /\ settled[k] = "none" /\ row[k].state = "running"
    BY <1>1 DEF RunningIsBacked
  <1>3. CASE Silent
    BY <1>2, <1>3 DEF Silent
  <1>4. CASE Crash
    BY <1>4 DEF Crash, Idle
  <1>5. ASSUME NEW a \in Accounts, LoadStatus(a)
        PROVE chain'[k] = <<>> /\ settled'[k] = "none" /\ row'[k].state = "running"
    <2>1. UNCHANGED <<chain, settled, row>> /\ ~Loaded(a)
      BY <1>5 DEF LoadStatus, Loaded
    <2>2. status'[k] = status[k] \/ (k[1] = a /\ status'[k] = row[k])
      BY <1>5 DEF LoadStatus
    <2> QED
      BY <1>2, <2>1, <2>2 DEF LoadedFirst
  <1>6. ASSUME NEW l \in Keys, Settle(l)
        PROVE chain'[k] = <<>> /\ settled'[k] = "none" /\ row'[k].state = "running"
    <2>1. CASE k # l
      BY <1>2, <1>6, <2>1, SettleEffect
    <2>2. CASE k = l
      <3>1. PICK w, saved : status'[k] = AfterWrite(status[k], w, saved)
        BY <1>6, <2>2, SettleEffect
      <3>2. status[k] \in Status /\ chain[k] # <<>>
        BY <1>6, <2>2 DEF TypeOK, Settle
      <3>3. status[k].state = "running"
        BY <3>1, <3>2 DEF AfterWrite, Status
      <3> QED
        BY <1>2, <3>2, <3>3
    <2> QED
      BY <2>1, <2>2
  <1>7. ASSUME NEW c \in Calls, NEW l \in Keys, NEW state \in States, NEW new \in Nat,
               NEW waiter \in Calls \cup {NoCall}, Issues(c, l, state, new, waiter)
        PROVE  chain'[k] = <<>> /\ settled'[k] = "none" /\ row'[k].state = "running"
    <2>1. CASE k # l
      BY <1>2, <1>7, <2>1 DEF Issues, UpdateSyncStatus, TypeOK
    <2>2. CASE k = l
      <3>1. state = "running"
        BY <1>7, <2>2, UpdateStatus DEF Issues
      <3> QED
        BY <1>7, <2>2, <3>1 DEF Issues
    <2> QED
      BY <2>1, <2>2
  <1> QED
    BY <1>3, <1>4, <1>5, <1>6, <1>7, WriteKinds

\* A job is shown as running while a call is at work on it, or because the table
\* said so when the process started; a run that is over never leaves it so.
THEOREM RunningCorrect == Spec => []RunningIsBacked
  <1>1. Init => RunningIsBacked
    BY DEF Init, RunningIsBacked, Idle
  <1>2. TypeOK /\ LoadedFirst /\ RunningIsBacked /\ StatusIsTheRuns' /\ [Next]_vars
        => RunningIsBacked'
    BY BackedStep
  <1> QED
    BY <1>1, <1>2, TypeCorrect, StatusCorrect, ChainsCorrect, PTL DEF Spec

----------------------------------------------------------------------------
(* The waits.                                                              *)

WaitsFor(c) == chain[Key(c)] # <<>> /\ Newest(Key(c)).waiter = c

LEMMA UpdateQueues ==
    ASSUME TypeOK, NEW k \in Keys, NEW state, NEW new, NEW waiter,
           UpdateSyncStatus(k, state, new, waiter)
    PROVE  chain'[k] # <<>> /\ chain'[k][Len(chain'[k])].waiter = waiter
  <1> DEFINE last == IF new # 0 THEN new ELSE status[k].last
             w == [state |-> state, last |-> last, prev |-> status[k].last,
                   waiter |-> waiter]
  <1>1. chain' = [chain EXCEPT ![k] = Append(@, w)]
    BY DEF UpdateSyncStatus
  <1>2. w.waiter = waiter
    OBVIOUS
  <1> HIDE DEF w
  <1>3. chain'[k] = Append(chain[k], w) /\ chain[k] \in Seq(Write)
    BY <1>1 DEF TypeOK
  <1> QED
    BY <1>2, <1>3

\* A call that begins to wait for a write has just queued it.
LEMMA WaitBegins ==
    ASSUME TypeOK, [Next]_vars, NEW c \in Calls, ~Waiting(c), Waiting(c)'
    PROVE  WaitsFor(c)'
  <1>0. ASSUME NEW j \in Jobs, NEW state, NEW new, pc[c] # "none",
               UpdateSyncStatus(<<Account(c), j>>, state, new, c),
               todo' = todo, doing'[c] = j
        PROVE  WaitsFor(c)'
    <2>1. <<Account(c), j>> \in Keys /\ Key(c)' = <<Account(c), j>>
      BY <1>0, AccountType DEF Keys, Key, Account
    <2> QED
      BY <1>0, <2>1, UpdateQueues DEF WaitsFor, Newest
  <1>1. ASSUME NEW j \in Jobs, pc[c] # "none", StartJob(c, j), todo' = todo
        PROVE  WaitsFor(c)'
    BY <1>0, <1>1 DEF StartJob, TypeOK
  <1>2. CASE Enter(c) \/ CountPlans(c) \/ StartSims(c) \/ HandOver(c)
    <2>1. pc[c] # "none" /\ todo' = todo
      BY <1>2 DEF Enter, CountPlans, StartSims, HandOver, Ended
    <2>2. \E j \in Jobs : StartJob(c, j)
      <3>1. job[c] \in Jobs /\ FollowUp(c) \subseteq Jobs
            /\ {"syncSims", "syncRatingPlans"} \subseteq Jobs
        BY DEF TypeOK, FollowUp, Jobs
      <3>2. pc' # [pc EXCEPT ![c] = "count"]
        BY DEF Waiting, TypeOK
      <3> QED
        BY <1>2, <3>1, <3>2 DEF Enter, CountPlans, StartSims, HandOver
    <2> QED
      BY <1>1, <2>1, <2>2
  <1>3. CASE Complete(c)
    BY <1>0, <1>3 DEF Complete, Key, TypeOK
  <1>4. CASE SkipSims(c)
    <2>1. "syncSims" \in Jobs
      BY DEF Jobs
    <2> QED
      BY <1>0, <1>4, <2>1 DEF SkipSims, TypeOK
  <1>5. CASE Fail(c) \/ CountFails(c)
    BY <1>5 DEF Fail, CountFails, Waiting, TypeOK
  <1>6. ASSUME NEW d \in Calls, Busy(d) \/ Leave(d) PROVE FALSE
    <2>1. ~Waiting(d)
      BY <1>6 DEF Busy, Leave, Ended, Waiting
    <2> QED
      BY <1>6, <2>1 DEF Busy, Leave, NextAccount, Request, Waiting, TypeOK
  <1>7. ASSUME NEW d \in Calls, Trigger(d) \/ Dispatch(d) PROVE FALSE
    BY <1>7 DEF Trigger, Dispatch, Request, Waiting, TypeOK
  <1>8. ASSUME NEW d \in Calls, d # c,
               \/ Enter(d) \/ CountPlans(d) \/ CountFails(d) \/ Conclude(d)
               \/ SkipSims(d) \/ StartSims(d) \/ HandOver(d)
        PROVE  FALSE
    <2>1. pc'[c] = pc[c]
      BY <1>8 DEF Enter, CountPlans, CountFails, Conclude, Complete, Fail, SkipSims,
                  StartSims, HandOver, StartJob, TypeOK
    <2> QED
      BY <2>1 DEF Waiting
  <1>9. ASSUME NEW d \in Calls, GetToken(d) \/ StorePlan(d) \/ Progress(d) PROVE FALSE
    BY <1>9 DEF GetToken, StorePlan, Progress, calls, Waiting
  <1>10. ASSUME NEW k \in Keys, Settle(k) PROVE FALSE
    <2>1. pc' = IF chain[k][1].waiter # NoCall
                THEN [pc EXCEPT ![chain[k][1].waiter] = Resumed(@)] ELSE pc
      BY <1>10, SettleEffect
    <2>2. pc'[c] \in {pc[c], Resumed(pc[c])}
      BY <2>1 DEF TypeOK
    <2> QED
      BY <2>2 DEF Resumed, Waiting
  <1>11. ASSUME NEW a \in Accounts, LoadStatus(a) \/ GetSyncStatus(a) PROVE FALSE
    BY <1>11 DEF LoadStatus, GetSyncStatus, calls, Waiting
  <1>12. CASE Crash
    BY <1>12 DEF Crash, Waiting
  <1>13. CASE UNCHANGED vars
    BY <1>13 DEF vars, calls, Waiting
  <1> QED
    BY <1>2, <1>3, <1>4, <1>5, <1>6, <1>7, <1>8, <1>9, <1>10, <1>11, <1>12, <1>13
       DEF Next, Work, Advance, Conclude

\* As long as it waits, the write stays the newest of its key.
LEMMA WaitGoesOn ==
    ASSUME TypeOK, LockMatchesRuns, AwaitedLast, [Next]_vars,
           NEW c \in Calls, Waiting(c), Waiting(c)', WaitsFor(c)
    PROVE  WaitsFor(c)'
  <1>0. Key(c) \in Keys /\ Inside(c)
    BY AccountType DEF Waiting, Inside
  <1>1. CASE Silent
    BY <1>1 DEF Silent, WaitsFor, Newest, Key, Account
  <1>2. CASE Crash
    BY <1>2 DEF Crash, Waiting
  <1>3. ASSUME NEW a \in Accounts, LoadStatus(a) PROVE WaitsFor(c)'
    BY <1>3 DEF LoadStatus, calls, WaitsFor, Newest, Key, Account
  <1>4. ASSUME NEW k \in Keys, Settle(k) PROVE WaitsFor(c)'
    <2>1. Key(c)' = Key(c)
      BY <1>4 DEF Settle, Key, Account
    <2>2. CASE k # Key(c)
      BY <1>0, <1>4, <2>1, <2>2, SettleEffect DEF WaitsFor, Newest
    <2>3. CASE k = Key(c)
      <3>1. chain[k] \in Seq(Write) /\ chain[k] # <<>> /\ Len(chain[k]) \in Nat
        BY <1>4, SettleEffect DEF TypeOK
      <3>2. CASE Len(chain[k]) = 1
        <4>1. chain[k][1].waiter = c /\ c # NoCall
          BY <2>3, <3>2, CallsAssumption DEF WaitsFor, Newest
        <4>2. pc'[c] = Resumed(pc[c])
          BY <1>4, <4>1, SettleEffect DEF TypeOK
        <4> QED
          BY <4>2 DEF Resumed, Waiting
      <3>3. CASE Len(chain[k]) # 1
        <4>1. Len(chain[k]) > 1
          <5>1. Len(chain[k]) # 0
            BY <3>1
          <5>2. \A m \in Nat : m # 0 /\ m # 1 => m > 1
            OBVIOUS
          <5> QED
            BY <3>1, <3>3, <5>1, <5>2, Zenon
        <4> DEFINE n == Len(chain[k])
        <4>2. n - 1 \in DOMAIN chain'[k] /\ Len(chain'[k]) = n - 1
          BY <1>4, <3>1, <4>1, SettleEffect
        <4>3. chain'[k][n - 1] = chain[k][n]
          BY <1>4, <3>1, <4>2, SettleEffect
        <4>4. chain'[k] # <<>>
          BY <4>2
        <4> QED
          BY <2>1, <2>3, <4>2, <4>3, <4>4 DEF WaitsFor, Newest
      <3> QED
        BY <3>2, <3>3
    <2> QED
      BY <2>2, <2>3
  <1>5. ASSUME NEW d \in Calls, NEW k \in Keys, NEW state \in States, NEW new \in Nat,
               NEW waiter \in Calls \cup {NoCall}, Issues(d, k, state, new, waiter)
        PROVE  WaitsFor(c)'
    <2>1. d # c
      BY <1>5 DEF Issues
    <2>2. Key(c)' = Key(c)
      BY <1>5, <2>1 DEF Issues, WaitersStay, Key, Account
    <2>3. Account(d) # Account(c)
      BY <1>0, <1>5, <2>1 DEF Issues, LockMatchesRuns
    <2>4. k # Key(c)
      BY <1>5, <2>3 DEF Issues, Key
    <2> QED
      BY <1>0, <1>5, <2>2, <2>4, IssuesEffect DEF WaitsFor, Newest
  <1> QED
    BY <1>1, <1>2, <1>3, <1>4, <1>5, WriteKinds

LEMMA BeginLoadEffect ==
    ASSUME TypeOK, NEW a \in Accounts, BeginLoad(a)
    PROVE  /\ loaded'[a] # "no"
           /\ \A b \in Accounts : loaded[b] # "no" => loaded'[b] # "no"
  BY DEF BeginLoad, TypeOK

\* A call that awaits its statuses has them, or their load, under way.
Loads(c) == loaded[Account(c)] # "no"

LEMMA RequestLoads ==
    ASSUME TypeOK, NEW c \in Calls, NEW list \in Seq(Accounts), list # <<>>, NEW j,
           Request(c, list, j)
    PROVE  /\ Loads(c)'
           /\ \A b \in Accounts : loaded[b] # "no" => loaded'[b] # "no"
  <1>1. Head(list) \in Accounts /\ BeginLoad(Head(list)) /\ todo'[c] = list
    BY DEF Request, TypeOK
  <1> QED
    BY <1>1, BeginLoadEffect DEF Loads, Account

LEMMA NextAccountLoads ==
    ASSUME TypeOK, NEW c \in Calls, pc[c] # "none", NextAccount(c)
    PROVE  /\ pc'[c] = "load" => Loads(c)'
           /\ \A b \in Accounts : loaded[b] # "no" => loaded'[b] # "no"
  <1>1. CASE Tail(todo[c]) = <<>>
    BY <1>1 DEF NextAccount, TypeOK
  <1>2. CASE Tail(todo[c]) # <<>>
    <2>1. Request(c, Tail(todo[c]), "syncRatingPlans")
      BY <1>2 DEF NextAccount
    <2>2. Tail(todo[c]) \in Seq(Accounts)
      BY DEF TypeOK
    <2> QED
      BY <1>2, <2>1, <2>2, RequestLoads
  <1> QED
    BY <1>1, <1>2

\* A step of call c as far as loads go: c has its load, and no load is undone.
LoadsKept(c) ==
    /\ pc'[c] = "load" => Loads(c)'
    /\ \A b \in Accounts : loaded[b] # "no" => loaded'[b] # "no"
    /\ OthersStay(c)

LEMMA LoadsStep ==
    ASSUME TypeOK, \A d \in Calls : pc[d] = "load" => Loads(d), [Next]_vars,
           NEW c \in Calls, pc'[c] = "load"
    PROVE  Loads(c)'
  <1>0. ASSUME NEW d \in Calls, LoadsKept(d) PROVE Loads(c)'
    <2>1. CASE c = d
      BY <1>0, <2>1 DEF LoadsKept
    <2>2. CASE c # d
      <3>1. pc[c] = "load" /\ Account(c)' = Account(c)
        BY <1>0, <2>2 DEF LoadsKept, OthersStay, Account
      <3> QED
        BY <1>0, <3>1, AccountType DEF LoadsKept, Loads
    <2> QED
      BY <2>1, <2>2
  <1>1. ASSUME NEW d \in Calls, Trigger(d) PROVE LoadsKept(d)
    <2>1. PICK r \in Requests : Request(d, <<r[1]>>, r[2])
      BY <1>1 DEF Trigger
    <2>2. <<r[1]>> \in Seq(Accounts) /\ <<r[1]>> # <<>>
      BY InputsAssumption DEF Keys
    <2>3. OthersStay(d)
      BY <2>1 DEF Request, OthersStay, TypeOK
    <2> QED
      BY <2>1, <2>2, <2>3, RequestLoads DEF LoadsKept
  <1>2. ASSUME NEW d \in Calls, Dispatch(d) PROVE LoadsKept(d)
    <2>1. PICK list \in EligibleLists : Request(d, list, "syncRatingPlans")
      BY <1>2 DEF Dispatch
    <2>2. list \in Seq(Accounts) /\ list # <<>>
      BY InputsAssumption
    <2>3. OthersStay(d)
      BY <2>1 DEF Request, OthersStay, TypeOK
    <2> QED
      BY <2>1, <2>2, <2>3, RequestLoads DEF LoadsKept
  <1>3. ASSUME NEW d \in Calls, Busy(d) \/ Leave(d) PROVE LoadsKept(d)
    <2>1. NextAccount(d) /\ pc[d] # "none"
      BY <1>3 DEF Busy, Leave, Ended
    <2> QED
      BY <2>1, NextAccountLoads, NextAccountOutside DEF LoadsKept
  <1>4. ASSUME NEW d \in Calls,
               \/ Enter(d) \/ CountPlans(d) \/ CountFails(d) \/ Conclude(d)
               \/ SkipSims(d) \/ StartSims(d) \/ HandOver(d)
        PROVE  LoadsKept(d)
    <2>1. UNCHANGED <<todo, loaded>>
      BY <1>4 DEF Enter, CountPlans, CountFails, Conclude, Complete, Fail, SkipSims,
                  StartSims, HandOver, memory
    <2>2. \E p \in {"count", "start", "giveup", "finish", "unready", "skip"} :
             pc' = [pc EXCEPT ![d] = p]
      BY <1>4 DEF Enter, CountPlans, CountFails, Conclude, Complete, Fail, SkipSims,
                  StartSims, HandOver, StartJob
    <2> QED
      BY <2>1, <2>2 DEF LoadsKept, OthersStay, TypeOK
  <1>5. ASSUME NEW d \in Calls, GetToken(d) \/ StorePlan(d) \/ Progress(d) PROVE Loads(c)'
    BY <1>5 DEF GetToken, StorePlan, Progress, calls, memory, Loads, Account
  <1>6. ASSUME NEW k \in Keys, Settle(k) PROVE Loads(c)'
    <2>1. pc' = IF chain[k][1].waiter # NoCall
                THEN [pc EXCEPT ![chain[k][1].waiter] = Resumed(@)] ELSE pc
      BY <1>6, SettleEffect
    <2>2. pc[c] \in Places /\ pc'[c] \in {pc[c], Resumed(pc[c])}
      BY <2>1 DEF TypeOK
    <2>3. pc[c] = "load"
      BY <2>2 DEF Resumed, Places
    <2> QED
      BY <1>6, <2>3 DEF Settle, Loads, Account
  <1>7. ASSUME NEW a \in Accounts, LoadStatus(a) \/ GetSyncStatus(a) PROVE Loads(c)'
    <2>1. \A b \in Accounts : loaded[b] # "no" => loaded'[b] # "no"
      BY <1>7, BeginLoadEffect DEF LoadStatus, GetSyncStatus, TypeOK
    <2>2. pc[c] = "load" /\ Account(c)' = Account(c)
      BY <1>7 DEF LoadStatus, GetSyncStatus, calls, Account
    <2> QED
      BY <2>1, <2>2, AccountType DEF Loads
  <1>8. CASE Crash
    BY <1>8 DEF Crash
  <1>9. CASE UNCHANGED vars
    BY <1>9 DEF vars, calls, memory, Loads, Account
  <1> QED
    BY <1>0, <1>1, <1>2, <1>3, <1>4, <1>5, <1>6, <1>7, <1>8, <1>9
       DEF Next, Work, Advance

\* Whatever is queued, settled, loaded or lost meanwhile, what a call waits for
\* is under way: its wait ends as soon as the database answers.
THEOREM WaitsCorrect == Spec => []WaitsAnswered
  <1>1. Init => WaitsAnswered
    BY DEF Init, WaitsAnswered
  <1>2. ASSUME TypeOK, LockMatchesRuns, AwaitedLast, WaitsAnswered, [Next]_vars
        PROVE  WaitsAnswered'
    <2>1. \A c \in Calls : /\ pc[c] = "load" => Loads(c)
                           /\ Waiting(c) => WaitsFor(c)
      BY <1>2 DEF WaitsAnswered, Loads, WaitsFor, Waiting
    <2>2. ASSUME NEW c \in Calls PROVE /\ pc'[c] = "load" => Loads(c)'
                                       /\ Waiting(c)' => WaitsFor(c)'
      BY <1>2, <2>1, LoadsStep, WaitBegins, WaitGoesOn
    <2> QED
      BY <2>2 DEF WaitsAnswered, Loads, WaitsFor, Waiting
  <1> QED
    BY <1>1, <1>2, TypeCorrect, LockCorrect, ChainsCorrect, PTL DEF Spec

----------------------------------------------------------------------------
(* The end of a call.                                                      *)

LEMMA EffortParts ==
    ASSUME NEW c \in Calls
    PROVE  /\ JobsLeft(c) \in 0..2 /\ JobsLeft(c)' \in 0..2
           /\ PlansLeft(c) \in 0..1 /\ PlansLeft(c)' \in 0..1
           /\ PlacesLeft(c) \in 1..8 /\ PlacesLeft(c)' \in 1..8
  <1>1. JobsLeft(c) \in 0..2 /\ JobsLeft(c)' \in 0..2
    BY DEF JobsLeft
  <1>2. PlansLeft(c) \in 0..1 /\ PlansLeft(c)' \in 0..1
    BY DEF PlansLeft
  <1>3. PlacesLeft(c) \in 1..8 /\ PlacesLeft(c)' \in 1..8
    BY DEF PlacesLeft
  <1> QED
    BY <1>1, <1>2, <1>3

LEMMA SumFalls ==
    ASSUME NEW l \in Nat, NEW j \in 0..2, NEW r \in 0..1, NEW p \in 1..8,
           NEW l2 \in Nat, NEW j2 \in 0..2, NEW r2 \in 0..1, NEW p2 \in 1..8,
           \/ l2 < l
           \/ l2 = l /\ \/ j2 < j
                        \/ j2 = j /\ (r2 < r \/ (r2 = r /\ p2 < p))
    PROVE  60 * l2 + 20 * j2 + 10 * r2 + p2 \in 0 .. (60 * l + 20 * j + 10 * r + p) - 1
  OBVIOUS

\* The parts of an effort count in their order.
LEMMA EffortFalls ==
    ASSUME TypeOK, TypeOK', NEW c \in Calls, pc[c] # "none",
           \/ pc'[c] = "none"
           \/ Len(todo'[c]) < Len(todo[c])
           \/ /\ todo'[c] = todo[c]
              /\ \/ JobsLeft(c)' < JobsLeft(c)
                 \/ /\ JobsLeft(c)' = JobsLeft(c)
                    /\ \/ PlansLeft(c)' < PlansLeft(c)
                       \/ /\ PlansLeft(c)' = PlansLeft(c)
                          /\ PlacesLeft(c)' < PlacesLeft(c)
    PROVE  Effort(c)' \in 0 .. Effort(c) - 1
  <1>1. Len(todo[c]) \in Nat /\ Len(todo'[c]) \in Nat
    BY DEF TypeOK
  <1> DEFINE sum(l, j, r, p) == 60 * l + 20 * j + 10 * r + p
  <1>2. CASE pc'[c] = "none"
    <2>1. \A l \in Nat, j \in 0..2, r \in 0..1, p \in 1..8 : 0 \in 0 .. sum(l, j, r, p) - 1
      OBVIOUS
    <2>2. 0 \in 0 .. sum(Len(todo[c]), JobsLeft(c), PlansLeft(c), PlacesLeft(c)) - 1
      BY <1>1, <2>1, EffortParts
    <2> QED
      BY <1>2, <2>2 DEF Effort
  <1>3. CASE pc'[c] # "none"
    <2>1. sum(Len(todo'[c]), JobsLeft(c)', PlansLeft(c)', PlacesLeft(c)')
          \in 0 .. sum(Len(todo[c]), JobsLeft(c), PlansLeft(c), PlacesLeft(c)) - 1
      <3> DEFINE l == Len(todo[c])    l2 == Len(todo'[c])
                 j == JobsLeft(c)     j2 == JobsLeft(c)'
                 r == PlansLeft(c)    r2 == PlansLeft(c)'
                 p == PlacesLeft(c)   p2 == PlacesLeft(c)'
      <3>1. \/ l2 < l
            \/ l2 = l /\ \/ j2 < j
                         \/ j2 = j /\ (r2 < r \/ (r2 = r /\ p2 < p))
        BY <1>3
      <3>2. /\ l \in Nat /\ l2 \in Nat /\ j \in 0..2 /\ j2 \in 0..2
            /\ r \in 0..1 /\ r2 \in 0..1 /\ p \in 1..8 /\ p2 \in 1..8
        BY <1>1, EffortParts
      <3>3. sum(l2, j2, r2, p2) \in 0 .. sum(l, j, r, p) - 1
        <4> HIDE DEF l, l2, j, j2, r, r2, p, p2
        <4> QED
          BY <3>1, <3>2, SumFalls
      <3> QED
        BY <3>3
    <2> QED
      BY <1>3, <2>1 DEF Effort
  <1> QED
    BY <1>2, <1>3

OthersAtRest(c) == \A d \in Calls \ {c} : At(d)' = At(d)

LEMMA NextAccountFalls ==
    ASSUME TypeOK, TypeOK', NEW c \in Calls, pc[c] # "none", NextAccount(c)
    PROVE  Effort(c)' \in 0 .. Effort(c) - 1 /\ OthersAtRest(c)
  <1>1. todo[c] \in Seq(Accounts) /\ todo[c] # <<>>
    BY DEF TypeOK
  <1>2. pc'[c] = "none" \/ Len(todo'[c]) < Len(todo[c])
    <2>1. Len(Tail(todo[c])) < Len(todo[c])
      BY <1>1
    <2> QED
      BY <2>1 DEF NextAccount, Request, TypeOK
  <1>3. OthersAtRest(c)
    BY DEF NextAccount, Request, OthersAtRest, At, TypeOK
  <1> QED
    BY <1>2, <1>3, EffortFalls

\* Starting a job: nothing but its own work is left at its end.
LEMMA StartFalls ==
    ASSUME TypeOK, TypeOK', NEW c \in Calls, pc[c] # "none", NEW j \in Jobs,
           StartJob(c, j), todo' = todo,
           \/ /\ job' = job
              /\ PlansLeft(c) = 1
              /\ j = job[c] \/ pc[c] = "count"
           \/ j \in FollowUp(c) /\ job' = [job EXCEPT ![c] = j]
    PROVE  Effort(c)' \in 0 .. Effort(c) - 1 /\ OthersAtRest(c)
  <1>1. pc'[c] = "start" /\ doing'[c] = j /\ todo'[c] = todo[c]
    BY DEF StartJob, TypeOK
  <1>2. OthersAtRest(c)
    BY DEF StartJob, OthersAtRest, At, TypeOK
  <1>3. CASE job' = job /\ j = job[c] /\ PlansLeft(c) = 1
    <2>1. JobsLeft(c)' = JobsLeft(c)
      BY <1>3 DEF JobsLeft
    <2>2. PlansLeft(c)' = 0
      BY <1>1, <1>3 DEF PlansLeft
    <2>3. PlansLeft(c)' < PlansLeft(c)
      BY <1>3, <2>2
    <2> QED
      BY <1>1, <1>2, <2>1, <2>3, EffortFalls
  <1>4. CASE job' = job /\ j # job[c] /\ PlansLeft(c) = 1 /\ pc[c] = "count"
    <2>1. JobsLeft(c)' = JobsLeft(c)
      BY <1>4 DEF JobsLeft
    <2>2. PlansLeft(c)' = PlansLeft(c)
      BY <1>1, <1>4 DEF PlansLeft
    <2>3. PlacesLeft(c)' = 6 /\ PlacesLeft(c) = 7
      BY <1>1, <1>4 DEF PlacesLeft
    <2>4. PlacesLeft(c)' < PlacesLeft(c)
      BY <2>3
    <2> QED
      BY <1>1, <1>2, <2>1, <2>2, <2>4, EffortFalls
  <1>5. CASE j \in FollowUp(c) /\ job' = [job EXCEPT ![c] = j]
    <2>1. job'[c] = j
      BY <1>5 DEF TypeOK
    <2>2. JobsLeft(c)' < JobsLeft(c)
      BY <1>5, <2>1 DEF JobsLeft, FollowUp
    <2> QED
      BY <1>1, <1>2, <2>2, EffortFalls
  <1> QED
    BY <1>3, <1>4, <1>5

\* The other steps of a job only move the call to a later place.
LEMMA PlaceFalls ==
    ASSUME TypeOK, TypeOK', NEW c \in Calls, pc[c] # "none", NEW p \in Places,
           pc' = [pc EXCEPT ![c] = p], todo' = todo, job' = job,
           doing' = doing \/ (doing' = [doing EXCEPT ![c] = job[c]] /\ p = "skip"),
           PlacesLeft(c)' < PlacesLeft(c), p = "count" => pc[c] = "load"
    PROVE  Effort(c)' \in 0 .. Effort(c) - 1 /\ OthersAtRest(c)
  <1>1. pc'[c] = p /\ todo'[c] = todo[c] /\ OthersAtRest(c)
    BY DEF OthersAtRest, At, TypeOK
  <1>2. JobsLeft(c)' = JobsLeft(c)
    BY DEF JobsLeft
  <1>3. PlansLeft(c)' = PlansLeft(c) \/ PlansLeft(c)' < PlansLeft(c)
    <2>1. p # "load"
      BY <1>1, EffortParts DEF PlacesLeft
    <2>2. CASE doing' = doing
      BY <1>1, <2>1, <2>2 DEF PlansLeft
    <2>3. CASE doing' = [doing EXCEPT ![c] = job[c]] /\ p = "skip"
      <3>1. PlansLeft(c)' = 0
        BY <1>1, <2>3 DEF PlansLeft, TypeOK
      <3> QED
        BY <3>1, EffortParts
    <2> QED
      BY <2>2, <2>3
  <1> QED
    BY <1>1, <1>2, <1>3, EffortFalls

LEMMA AdvanceFalls ==
    ASSUME TypeOK, TypeOK', PlansKept, NEW c \in Calls, Advance(c)
    PROVE  Effort(c)' \in 0 .. Effort(c) - 1 /\ OthersAtRest(c)
  <1>0. pc[c] # "none" /\ job[c] \in Jobs
    BY DEF Advance, Enter, Busy, CountPlans, CountFails, Conclude, Complete, Fail, SkipSims,
           StartSims, HandOver, Leave, Ended, TypeOK
  <1>1. CASE Enter(c)
    <2>1. pc[c] = "load" /\ UNCHANGED <<todo, job>> /\ PlansLeft(c) = 1
      BY <1>1 DEF Enter, PlansLeft
    <2>2. CASE pc' = [pc EXCEPT ![c] = "count"] /\ doing' = doing
      <3>1. PlacesLeft(c)' = 7 /\ PlacesLeft(c) = 8 /\ "count" \in Places
        BY <2>1, <2>2 DEF PlacesLeft, Places, TypeOK
      <3>2. PlacesLeft(c)' < PlacesLeft(c)
        BY <3>1
      <3> QED
        BY <1>0, <2>1, <2>2, <3>1, <3>2, PlaceFalls
    <2>3. CASE StartJob(c, job[c])
      BY <1>0, <2>1, <2>3, StartFalls
    <2> QED
      BY <1>1, <2>2, <2>3 DEF Enter
  <1>2. CASE Busy(c) \/ Leave(c)
    BY <1>0, <1>2, NextAccountFalls DEF Busy, Leave
  <1>3. CASE CountPlans(c)
    <2>1. pc[c] = "count" /\ UNCHANGED <<todo, job>> /\ PlansLeft(c) = 1
      BY <1>3 DEF CountPlans, PlansLeft
    <2>2. \E j \in Jobs : StartJob(c, j)
      BY <1>3 DEF CountPlans, Jobs
    <2> QED
      BY <1>0, <2>1, <2>2, StartFalls
  <1>4. CASE CountFails(c) \/ Complete(c) \/ Fail(c)
    <2>1. UNCHANGED <<todo, job, doing>>
      BY <1>4 DEF CountFails, Complete, Fail
    <2>2. /\ pc[c] \in {"count", "work"}
          /\ \E p \in {"giveup", "finish", "unready"} : pc' = [pc EXCEPT ![c] = p]
      BY <1>4 DEF CountFails, Complete, Fail
    <2>3. PICK p \in {"giveup", "finish", "unready"} : pc' = [pc EXCEPT ![c] = p]
      BY <2>2
    <2>4. PlacesLeft(c)' <= 4 /\ PlacesLeft(c) >= 5
      BY <2>2, <2>3 DEF PlacesLeft, TypeOK
    <2>5. PlacesLeft(c)' < PlacesLeft(c) /\ p \in Places /\ p # "count"
      BY <2>4, EffortParts DEF Places
    <2> QED
      BY <1>0, <2>1, <2>3, <2>5, PlaceFalls
  <1>5. CASE SkipSims(c)
    <2>1. job[c] = "syncSims"
      BY <1>5 DEF SkipSims, PlansKept, PlansKeptBy
    <2>2. PlacesLeft(c)' = 3 /\ PlacesLeft(c) = 4 /\ "skip" \in Places
      BY <1>5 DEF SkipSims, PlacesLeft, Places, TypeOK
    <2>3. PlacesLeft(c)' < PlacesLeft(c)
      BY <2>2
    <2>4. /\ pc' = [pc EXCEPT ![c] = "skip"] /\ UNCHANGED <<todo, job>>
          /\ doing' = [doing EXCEPT ![c] = job[c]]
      BY <1>5, <2>1 DEF SkipSims
    <2> QED
      BY <1>0, <2>2, <2>3, <2>4, PlaceFalls
  <1>6. CASE StartSims(c)
    <2>1. PlansLeft(c) = 1
      BY <1>6 DEF StartSims, PlansLeft
    <2> QED
      BY <1>0, <1>6, <2>1, StartFalls DEF StartSims
  <1>7. CASE HandOver(c)
    <2>1. PICK j \in FollowUp(c) : job' = [job EXCEPT ![c] = j] /\ StartJob(c, j)
      BY <1>7 DEF HandOver
    <2>2. j \in Jobs /\ todo' = todo
      BY <1>7, <2>1 DEF HandOver, FollowUp, Jobs
    <2> QED
      BY <1>0, <2>1, <2>2, StartFalls
  <1> QED
    BY <1>1, <1>2, <1>3, <1>4, <1>5, <1>6, <1>7 DEF Advance, Conclude

\* A call is over after finitely many steps of its own, as many as its list is
\* long times a constant: no failure, wait or restart sends it back.
THEOREM CallsFinite == Spec => CallsWindDown
  <1>1. ASSUME TypeOK, TypeOK', PlansKept, [Next]_vars, NEW c \in Calls, pc[c] # "none"
        PROVE  At(c)' = At(c) \/ Effort(c)' \in 0 .. Effort(c) - 1
    <2>1. ASSUME NEW d \in Calls, Advance(d)
          PROVE  At(c)' = At(c) \/ Effort(c)' \in 0 .. Effort(c) - 1
      BY <1>1, <2>1, AdvanceFalls DEF OthersAtRest
    <2>2. ASSUME NEW d \in Calls, Trigger(d) \/ Dispatch(d) PROVE At(c)' = At(c)
      BY <1>1, <2>2 DEF Trigger, Dispatch, Request, At, TypeOK
    <2>3. ASSUME NEW d \in Calls, GetToken(d) \/ StorePlan(d) \/ Progress(d)
          PROVE  At(c)' = At(c)
      BY <2>3 DEF GetToken, StorePlan, Progress, calls, At
    <2>4. ASSUME NEW k \in Keys, Settle(k)
          PROVE  At(c)' = At(c) \/ Effort(c)' \in 0 .. Effort(c) - 1
      <3>1. /\ pc' = IF chain[k][1].waiter # NoCall
                     THEN [pc EXCEPT ![chain[k][1].waiter] = Resumed(@)] ELSE pc
            /\ UNCHANGED <<todo, job, doing>>
        BY <1>1, <2>4, SettleEffect
      <3>2. CASE pc'[c] = pc[c]
        BY <3>1, <3>2 DEF At
      <3>3. CASE pc'[c] # pc[c]
        <4>1. chain[k][1].waiter = c /\ pc' = [pc EXCEPT ![c] = Resumed(pc[c])]
          BY <1>1, <3>1, <3>3 DEF TypeOK
        <4>2. Resumed(pc[c]) \in Places /\ pc'[c] = Resumed(pc[c])
          BY <1>1, <4>1 DEF TypeOK, Resumed, Places
        <4>3. PlacesLeft(c)' < PlacesLeft(c) /\ Resumed(pc[c]) # "count"
          BY <1>1, <3>3, <4>2 DEF PlacesLeft, Resumed, TypeOK, Places
        <4> QED
          BY <1>1, <3>1, <4>1, <4>2, <4>3, PlaceFalls
      <3> QED
        BY <3>2, <3>3
    <2>5. ASSUME NEW a \in Accounts, LoadStatus(a) \/ GetSyncStatus(a) PROVE At(c)' = At(c)
      BY <2>5 DEF LoadStatus, GetSyncStatus, calls, At
    <2>6. CASE Crash
      <3>1. pc'[c] = "none"
        BY <2>6 DEF Crash
      <3> QED
        BY <1>1, <3>1, EffortFalls
    <2>7. CASE UNCHANGED vars
      BY <2>7 DEF vars, calls, At
    <2> QED
      BY <1>1, <2>1, <2>2, <2>3, <2>4, <2>5, <2>6, <2>7 DEF Next, Work
  <1>2. TypeOK /\ TypeOK' /\ PlansKept /\ [Next]_vars =>
           [\A c \in Calls : pc[c] # "none" =>
               At(c)' = At(c) \/ Effort(c)' \in 0 .. Effort(c) - 1]_vars
    BY <1>1
  <1> QED
    BY <1>2, TypeCorrect, PlansStayKept, PTL DEF Spec, CallsWindDown

----------------------------------------------------------------------------
(* The engine among its streams.                                           *)

LEMMA EventsStep ==
    ASSUME TypeOK, [EventsNext]_allVars
    PROVE  [Next]_vars
  <1>1. CASE EngineStep
    BY <1>1 DEF EngineStep, Next, Work, Advance
  <1>2. ASSUME NEW c \in Calls, Report(c) PROVE UNCHANGED vars
    BY <1>2 DEF Report, engine, vars
  <1>3. CASE CrashAll
    BY <1>3 DEF CrashAll, Next
  <1>4. ASSUME NEW s \in Streams, Open(s) PROVE [Next]_vars
    <2> DEFINE a == Watched[s]
    <2>1. a \in Accounts /\ BeginLoad(a)
      BY <1>4, WatchedAssumption DEF Open
    <2>2. UNCHANGED <<status, active, token, chain, settled, row, plans, calls,
                      clock, crashes>>
      BY <1>4 DEF Open
    <2>3. CASE loaded[a] = "no"
      BY <2>1, <2>2, <2>3 DEF GetSyncStatus, Next, Work
    <2>4. CASE loaded[a] # "no"
      <3>1. loaded' = loaded
        BY <2>1, <2>4 DEF BeginLoad, TypeOK
      <3> QED
        BY <2>2, <3>1 DEF vars, memory
    <2> QED
      BY <2>3, <2>4
  <1>5. ASSUME NEW s \in Streams, Read(s) \/ Subscribe(s) \/ Close(s) PROVE UNCHANGED vars
    BY <1>5 DEF Read, Subscribe, Close, engine, vars
  <1>6. CASE UNCHANGED allVars
    BY <1>6 DEF allVars, engine, vars
  <1> QED
    BY <1>1, <1>2, <1>3, <1>4, <1>5, <1>6 DEF EventsNext

\* The streams only watch: whatever clients open and close them, the engine
\* behaves as it does without, so all that is proved of SyncJobs holds here.
THEOREM StreamsOnlyWatch == EventsSpec => Spec
  <1>1. EventsInit => Init
    BY DEF EventsInit
  <1>2. TypeOK /\ [EventsNext]_allVars => [Next]_vars
    BY EventsStep
  <1> QED
    BY <1>1, <1>2, TypeInit, TypeStep, PTL DEF EventsSpec, Spec

----------------------------------------------------------------------------
(* What the streams show.                                                  *)

\* A stream that has read the statuses of its account.
HasRead(s) == stage[s] \in {"gap", "live"}

\* The invariant, less what is proved of the engine: it also speaks of streams
\* that are still to subscribe.
Watching(s) ==
    HasRead(s) =>
        /\ Loaded(Watched[s])
        /\ \A j \in Jobs : Shows(s, j) # Actual(s, j) =>
              Actual(s, j).state = "running" /\ AtWork(s, j)

StreamTypes == /\ stage \in [Streams -> {"none", "load", "gap", "live"}]
               /\ view \in [Streams -> [Jobs -> Status]]

AllWatching == StreamTypes /\ \A s \in Streams : Watching(s)

LEMMA WatchedKey ==
    ASSUME NEW s \in Streams, NEW j \in Jobs
    PROVE  Watched[s] \in Accounts /\ <<Watched[s], j>> \in Keys
  BY WatchedAssumption DEF Keys

\* A stream whose view and whose statuses stay is as current as before.
LEMMA StillWatching ==
    ASSUME TypeOK, StatusIsTheRuns', [Next]_vars, NEW s \in Streams, Watching(s),
           HasRead(s), Loaded(Watched[s])', NEW j \in Jobs,
           view'[s][j] = view[s][j],
           status'[<<Watched[s], j>>] = status[<<Watched[s], j>>],
           Shows(s, j)' # Actual(s, j)'
    PROVE  Actual(s, j)'.state = "running" /\ AtWork(s, j)'
  <1>1. Actual(s, j).state = "running" /\ AtWork(s, j)
    BY DEF Watching, Shows, Actual
  <1>2. PICK c \in Calls : Works(c, <<Watched[s], j>>)
    BY <1>1 DEF AtWork
  <1>3. Works(c, <<Watched[s], j>>)'
    BY <1>1, <1>2, WorkStays, WatchedKey DEF Actual
  <1> QED
    BY <1>1, <1>3 DEF AtWork, Actual

\* What a call that comes to its check does in the turn of a stream: the status
\* it changes is that of the job it starts.
LEMMA TurnStarts ==
    ASSUME TypeOK, NEW c \in Calls, Enter(c) \/ Busy(c), NEW k \in Keys,
           status'[k] # status[k]
    PROVE  status'[k].state = "running" /\ Works(c, k)'
  <1>1. Enter(c) /\ StartJob(c, job[c]) /\ todo' = todo
    BY DEF Enter, Busy
  <1>2. <<Account(c), job[c]>> \in Keys
    BY <1>1, AccountType DEF Enter, Keys, TypeOK
  <1>3. k = <<Account(c), job[c]>> /\ status'[k].state = "running"
    BY <1>1, <1>2, UpdateStatus DEF StartJob
  <1>4. pc'[c] = "start" /\ doing'[c] = job[c]
    BY <1>1 DEF StartJob, TypeOK
  <1> QED
    BY <1>1, <1>3, <1>4 DEF Works, Key, Account

LEMMA LoadedStays ==
    ASSUME TypeOK, [Next]_vars, ~Crash, NEW s \in Streams, Loaded(Watched[s])
    PROVE  Loaded(Watched[s])'
  BY LoadedGrows, WatchedAssumption

\* What the engine does beside its streams does not take the process down.
LEMMA EngineAlive ==
    ASSUME TypeOK, EngineStep
    PROVE  ~Crash
  <1>1. ASSUME NEW c \in Calls, Trigger(c) \/ Dispatch(c) PROVE crashes' = crashes
    BY <1>1 DEF Trigger, Dispatch
  <1>2. ASSUME NEW c \in Calls, Enter(c) \/ Busy(c) PROVE crashes' = crashes
    BY <1>2 DEF Enter, Busy
  <1>3. ASSUME NEW c \in Calls, CountPlans(c) \/ CountFails(c) PROVE crashes' = crashes
    BY <1>3 DEF CountPlans, CountFails
  <1>4. ASSUME NEW c \in Calls, Conclude(c) PROVE crashes' = crashes
    BY <1>4 DEF Conclude, Complete, Fail
  <1>5. ASSUME NEW c \in Calls, SkipSims(c) \/ StartSims(c) PROVE crashes' = crashes
    BY <1>5 DEF SkipSims, StartSims
  <1>6. ASSUME NEW c \in Calls, HandOver(c) \/ Leave(c) PROVE crashes' = crashes
    BY <1>6 DEF HandOver, Leave
  <1>7. ASSUME NEW c \in Calls, GetToken(c) \/ StorePlan(c) \/ Progress(c)
        PROVE  crashes' = crashes
    BY <1>7 DEF GetToken, StorePlan, Progress
  <1>8. ASSUME NEW k \in Keys, Settle(k) PROVE crashes' = crashes
    BY <1>8 DEF Settle
  <1>9. ASSUME NEW a \in Accounts, LoadStatus(a) \/ GetSyncStatus(a) PROVE crashes' = crashes
    BY <1>9 DEF LoadStatus, GetSyncStatus
  <1>10. crashes' = crashes
    BY <1>1, <1>2, <1>3, <1>4, <1>5, <1>6, <1>7, <1>8, <1>9 DEF EngineStep, Work, Advance
  <1> QED
    BY <1>10, BoundsAssumption DEF Crash, TypeOK

LEMMA TypesStep ==
    ASSUME TypeOK, TypeOK', StreamTypes, [EventsNext]_allVars
    PROVE  StreamTypes'
  <1>1. \A s \in Streams : Snapshot(Watched[s]) \in [Jobs -> Status]
                           /\ Snapshot(Watched[s])' \in [Jobs -> Status]
    BY WatchedKey DEF Snapshot, TypeOK
  <1>2. [j \in Jobs |-> Idle] \in [Jobs -> Status]
    BY DEF Idle, Status, States
  <1>3. CASE EngineStep
    <2>1. \A s \in Streams : view'[s] = view[s] \/ view'[s] = Snapshot(Watched[s])'
      BY <1>3 DEF EngineStep, Deliver, Snapshot
    <2>2. \A s \in Streams : view'[s] \in [Jobs -> Status]
      BY <1>1, <2>1 DEF StreamTypes
    <2> QED
      BY <1>3, <2>2 DEF EngineStep, Deliver, StreamTypes
  <1>4. ASSUME NEW c \in Calls, Report(c) PROVE StreamTypes'
    <2>1. \A s \in Streams : view'[s] \in [Jobs -> Status]
      BY <1>1, <1>4 DEF Report, StreamTypes
    <2> QED
      BY <1>4, <2>1 DEF Report, StreamTypes
  <1>5. CASE CrashAll
    BY <1>2, <1>5 DEF CrashAll, StreamTypes
  <1>6. ASSUME NEW s \in Streams, Open(s) PROVE StreamTypes'
    BY <1>1, <1>6 DEF Open, StreamTypes
  <1>7. ASSUME NEW s \in Streams, Read(s) PROVE StreamTypes'
    BY <1>1, <1>7 DEF Read, StreamTypes
  <1>8. ASSUME NEW s \in Streams, Subscribe(s) PROVE StreamTypes'
    BY <1>8 DEF Subscribe, StreamTypes
  <1>9. ASSUME NEW s \in Streams, Close(s) PROVE StreamTypes'
    BY <1>2, <1>9 DEF Close, StreamTypes
  <1>10. CASE UNCHANGED allVars
    BY <1>10 DEF allVars, streams, StreamTypes
  <1> QED
    BY <1>3, <1>4, <1>5, <1>6, <1>7, <1>8, <1>9, <1>10 DEF EventsNext

LEMMA WatchingStep ==
    ASSUME TypeOK, StatusIsTheRuns', StreamTypes, StreamTypes', [EventsNext]_allVars,
           NEW s \in Streams, Watching(s)
    PROVE  Watching(s)'
  <1> DEFINE a == Watched[s]
  <1>0. [Next]_vars
    BY EventsStep
  <1>1. CASE EngineStep
    <2>1. stage'[s] = stage[s]
      BY <1>1 DEF EngineStep
    <2>2. HasRead(s) => Loaded(a) /\ Loaded(a)'
      BY <1>0, <1>1, EngineAlive, LoadedStays DEF Watching
    <2> SUFFICES ASSUME HasRead(s), NEW j \in Jobs, Shows(s, j)' # Actual(s, j)'
                 PROVE  Actual(s, j)'.state = "running" /\ AtWork(s, j)'
      BY <2>1, <2>2 DEF Watching, HasRead
    <2> DEFINE k == <<a, j>>
    <2>3. k \in Keys /\ a \in Accounts /\ Loaded(a)'
      BY <2>2, WatchedKey
    <2>4. CASE stage[s] = "gap"
      <3>1. view'[s] = view[s]
        BY <1>1, <2>4 DEF EngineStep, Deliver
      <3>2. PICK c \in Calls : Enter(c) \/ Busy(c)
        BY <1>1, <2>4 DEF EngineStep, Quiet
      <3>3. CASE status'[k] = status[k]
        BY <1>0, <2>3, <3>1, <3>3, StillWatching
      <3>4. CASE status'[k] # status[k]
        BY <2>3, <3>2, <3>4, TurnStarts DEF Actual, AtWork
      <3> QED
        BY <3>3, <3>4
    <2>5. CASE stage[s] = "live"
      <3>1. CASE Emitted(a)
        <4>1. view'[s] = [i \in Jobs |-> status'[<<a, i>>]]
          BY <1>1, <2>5, <3>1 DEF EngineStep, Deliver
        <4> QED
          BY <4>1 DEF Shows, Actual
      <3>2. CASE ~Emitted(a)
        <4>1. view'[s] = view[s] /\ status'[k] = status[k]
          BY <1>1, <2>2, <2>3, <2>5, <3>2 DEF EngineStep, Deliver, Emitted
        <4> QED
          BY <1>0, <2>3, <4>1, StillWatching
      <3> QED
        BY <3>1, <3>2
    <2> QED
      BY <2>4, <2>5 DEF HasRead
  <1>2. ASSUME NEW c \in Calls, Report(c) PROVE Watching(s)'
    <2>1. UNCHANGED <<stage, status, loaded, pc, todo, doing>>
      BY <1>2 DEF Report, engine, memory, calls
    <2>2. view'[s] = view[s] \/ view'[s] = Snapshot(a)
      BY <1>2 DEF Report
    <2> QED
      BY <2>1, <2>2 DEF Watching, HasRead, Loaded, Shows, Actual, AtWork, Works, Key,
         Account, Snapshot
  <1>3. CASE CrashAll
    BY <1>3 DEF CrashAll, Watching, HasRead
  <1>4. ASSUME NEW r \in Streams, Open(r) PROVE Watching(s)'
    <2>1. UNCHANGED <<status, pc, todo, doing>> /\ (Loaded(a) => Loaded(a)')
      BY <1>4 DEF Open, BeginLoad, calls, Loaded, TypeOK
    <2>2. CASE r # s
      BY <1>4, <2>1, <2>2 DEF Open, Watching, HasRead, Shows, Actual, AtWork, Works, Key,
         Account, StreamTypes
    <2>3. CASE r = s
      <3>1. HasRead(s)' => Loaded(a) /\ view'[s] = Snapshot(a)
        BY <1>4, <2>3 DEF Open, HasRead, StreamTypes
      <3> QED
        BY <2>1, <3>1 DEF Watching, Shows, Actual, Snapshot
    <2> QED
      BY <2>2, <2>3
  <1>5. ASSUME NEW r \in Streams, Read(r) \/ Subscribe(r) \/ Close(r) PROVE Watching(s)'
    <2>1. UNCHANGED <<status, loaded, pc, todo, doing>>
      BY <1>5 DEF Read, Subscribe, Close, engine, memory, calls
    <2>2. CASE HasRead(s)'
      <3>1. \/ HasRead(s) /\ view'[s] = view[s]
            \/ Loaded(a) /\ view'[s] = Snapshot(a)
        BY <1>5, <2>2 DEF Read, Subscribe, Close, HasRead, StreamTypes
      <3> QED
        BY <2>1, <3>1 DEF Watching, HasRead, Loaded, Shows, Actual, AtWork, Works, Key,
           Account, Snapshot
    <2> QED
      BY <2>2 DEF Watching
  <1>6. CASE UNCHANGED allVars
    BY <1>6 DEF allVars, streams, engine, memory, calls, Watching, HasRead, Loaded, Shows,
       Actual, AtWork, Works, Key, Account
  <1> QED
    BY <1>1, <1>2, <1>3, <1>4, <1>5, <1>6 DEF EventsNext

\* A client that is subscribed sees every job as it is, but for one that started
\* between its read and its subscription and is still at work.
THEOREM StreamsCorrect == EventsSpec => []StreamCurrent
  <1>1. EventsInit => AllWatching
    <2>1. [j \in Jobs |-> Idle] \in [Jobs -> Status]
      BY DEF Idle, Status, States
    <2> QED
      BY <2>1 DEF EventsInit, AllWatching, StreamTypes, Watching, HasRead
  <1>2. TypeOK /\ TypeOK' /\ StatusIsTheRuns' /\ AllWatching /\ [EventsNext]_allVars
        => AllWatching'
    BY TypesStep, WatchingStep DEF AllWatching
  <1>3. AllWatching => StreamCurrent
    BY DEF AllWatching, Watching, HasRead, StreamCurrent
  <1> QED
    BY <1>1, <1>2, <1>3, StreamsOnlyWatch, TypeCorrect, StatusCorrect, PTL DEF EventsSpec

\* Whatever ends a job, every client that stays is shown its end at once.
THEOREM EndsCorrect == EventsSpec => EndsAreShown
  <1>1. TypeOK /\ StatusIsTheRuns' /\ StreamCurrent' /\ [EventsNext]_allVars =>
           [\A s \in Streams, j \in Jobs :
              stage[s] = "live" /\ stage'[s] = "live" /\ AtWork(s, j) /\ ~AtWork(s, j)' =>
                  Shows(s, j)' = Actual(s, j)' /\ Actual(s, j)'.state # "running"]_allVars
    <2> SUFFICES ASSUME TypeOK, StatusIsTheRuns', StreamCurrent', [EventsNext]_allVars,
                        NEW s \in Streams, NEW j \in Jobs,
                        stage'[s] = "live", AtWork(s, j), ~AtWork(s, j)'
                 PROVE  Shows(s, j)' = Actual(s, j)' /\ Actual(s, j)'.state # "running"
      OBVIOUS
    <2>1. PICK c \in Calls : Works(c, <<Watched[s], j>>)
      BY DEF AtWork
    <2>2. status'[<<Watched[s], j>>].state # "running"
      BY <2>1, WorkStays, EventsStep, WatchedKey DEF AtWork
    <2>3. Actual(s, j)'.state # "running"
      BY <2>2 DEF Actual
    <2> QED
      BY <2>3 DEF StreamCurrent
  <1> QED
    BY <1>1, StreamsOnlyWatch, TypeCorrect, StatusCorrect, StreamsCorrect, PTL
    DEF EventsSpec, EndsAreShown
=============================================================================
