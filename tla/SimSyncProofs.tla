--------------------------- MODULE SimSyncProofs ----------------------------
(* What holds of SimSync for every value of its constants.                  *)
EXTENDS SimSync, TLAPS

----------------------------------------------------------------------------
(* Batches.                                                                 *)

\* The SIMs of a batch are SIMs of the listing.
LEMMA BatchListed ==
    ASSUME listed \in Seq(Sims), NEW size \in Nat
    PROVE  Batch(size) \subseteq Sims
BY DEF Batch

\* What a run reads for a SIM is a usage.
LEMMA ReadingType ==
    ASSUME TypeOK, NEW s \in Sims
    PROVE  Reading(s) \in Usage
<1>1. 0 \in 0..MaxMB /\ month \in Months
  BY BoundsAssumption DEF TypeOK
<1>2. CASE s \in DOMAIN used
  BY <1>2 DEF TypeOK, Reading
<1>3. CASE s \notin DOMAIN used
  BY <1>1, <1>3 DEF Reading, Usage
<1> QED BY <1>2, <1>3

----------------------------------------------------------------------------
(* Types.                                                                   *)

LEMMA InitTypeOK == Init => TypeOK
<1> SUFFICES ASSUME Init PROVE TypeOK
  OBVIOUS
<1>1. 1 \in Months /\ 0 \in 0..MaxRuns /\ 0 \in 0..MaxEdits
  BY BoundsAssumption DEF Months
<1> QED BY <1>1 DEF Init, TypeOK, Empty, Stages

\* The run keeps the types.
LEMMA RunTypeOK == TypeOK /\ Run => TypeOK'
<1> SUFFICES ASSUME TypeOK, Run PROVE TypeOK'
  OBVIOUS
<1>1. ASSUME StartRun PROVE TypeOK'
  BY <1>1, BoundsAssumption DEF StartRun, TypeOK, table, Empty, Stages
<1>2. ASSUME List PROVE TypeOK'
  BY <1>2, ListingsAssumption DEF List, TypeOK, table, Stages
<1>3. ASSUME Snapshot PROVE TypeOK'
  <2>1. 1 \in DOMAIN listed
    BY <1>3 DEF Snapshot, TypeOK
  <2>2. snapshot' \in [DOMAIN snapshot' -> Statuses] /\ DOMAIN snapshot' \subseteq Sims
    BY <1>3 DEF Snapshot, TypeOK, Row
  <2>3. edit' \in [Sims -> {"never", "past", "since"}]
    BY <1>3 DEF Snapshot, TypeOK
  <2> QED BY <1>3, <2>1, <2>2, <2>3 DEF Snapshot, TypeOK, table, Stages
<1>4. ASSUME FetchUsage PROVE TypeOK'
  <2>1. Proceed(UsageBatch, "save") /\ next \in DOMAIN listed /\ listed' = listed
    BY <1>4 DEF FetchUsage, TypeOK
  <2>2. PICK answered \in SUBSET Batch(UsageBatch) : \E mb \in [answered -> 0..MaxMB] :
          used' = [s \in DOMAIN used \cup answered |->
                     IF s \in answered THEN [mb |-> mb[s], taken |-> today] ELSE used[s]]
    BY <1>4 DEF FetchUsage
  <2>3. PICK mb \in [answered -> 0..MaxMB] :
          used' = [s \in DOMAIN used \cup answered |->
                     IF s \in answered THEN [mb |-> mb[s], taken |-> today] ELSE used[s]]
    BY <2>2
  <2>4. answered \subseteq Sims
    BY <2>2, BatchListed, BatchAssumption DEF TypeOK
  <2>5. DOMAIN used' \subseteq Sims /\ used' \in [DOMAIN used' -> Usage]
    BY <2>3, <2>4 DEF TypeOK, Usage
  <2>6. /\ stage' \in {"usage", "save"} /\ next' \in DOMAIN listed
    BY <1>4, <2>1, BatchAssumption DEF FetchUsage, Proceed, TypeOK
  <2> QED BY <1>4, <2>5, <2>6 DEF FetchUsage, TypeOK, table, Stages
<1>5. ASSUME Save PROVE TypeOK'
  <2> DEFINE batch == Batch(UpsertBatch)
  <2>1. batch \subseteq Sims
    BY BatchListed, BatchAssumption DEF TypeOK
  <2>2. \A s \in DOMAIN sims \cup batch : Upserted(s) \in Row
    <3> SUFFICES ASSUME NEW s \in DOMAIN sims \cup batch PROVE Upserted(s) \in Row
      OBVIOUS
    <3>1. Reading(s).mb \in 0..MaxMB
      BY <2>1, ReadingType DEF TypeOK, Usage
    <3>2. s \in DOMAIN sims => sims[s].status \in Statuses
      BY DEF TypeOK, Row
    <3> QED BY <3>1, <3>2 DEF Upserted, Row, Statuses
  <2>3. sims' = [s \in DOMAIN sims \cup batch |->
                   IF s \in batch THEN Upserted(s) ELSE sims[s]]
    BY <1>5 DEF Save
  <2>4. DOMAIN sims' \subseteq Sims /\ sims' \in [DOMAIN sims' -> Row]
    BY <2>1, <2>2, <2>3 DEF TypeOK
  <2>5. edit' \in [Sims -> {"never", "past", "since"}]
    BY <1>5 DEF Save, TypeOK
  <2>6. stage' \in {"save", "ids"} /\ next' \in Nat
        /\ (stage' = "save" => next' \in DOMAIN listed)
    BY <1>5, BatchAssumption DEF Save, Proceed, TypeOK
  <2> QED BY <1>5, <2>4, <2>5, <2>6 DEF Save, TypeOK, Stages
<1>6. ASSUME LoadIds PROVE TypeOK'
  <2>1. 1 \in DOMAIN listed
    BY <1>6 DEF LoadIds, TypeOK
  <2> QED BY <1>6, <2>1 DEF LoadIds, TypeOK, table, Stages
<1>7. ASSUME SaveHistory PROVE TypeOK'
  <2> DEFINE rows == {<<s, HistoryMonth>> : s \in Batch(UpsertBatch) \cap ids}
  <2>1. rows \subseteq Sims \X Months
    BY BatchListed, BatchAssumption DEF TypeOK, HistoryMonth
  <2>2. \A r \in rows : Reading(r[1]) \in Usage
    BY <2>1, ReadingType
  <2>3. history' = [r \in DOMAIN history \cup rows |->
                      IF r \in rows THEN Reading(r[1]) ELSE history[r]]
    BY <1>7 DEF SaveHistory
  <2>4. DOMAIN history' \subseteq Sims \X Months /\ history' \in [DOMAIN history' -> Usage]
    BY <2>1, <2>2, <2>3 DEF TypeOK
  <2>5. stage' \in {"history", "follow"} /\ next' \in Nat
        /\ (stage' = "history" => next' \in DOMAIN listed)
    BY <1>7, BatchAssumption DEF SaveHistory, Proceed, TypeOK
  <2> QED BY <1>7, <2>4, <2>5 DEF SaveHistory, TypeOK, Stages
<1>8. ASSUME Finish PROVE TypeOK'
  BY <1>8 DEF Finish, TypeOK, table, Stages
<1>9. ASSUME Abort PROVE TypeOK'
  BY <1>9 DEF Abort, TypeOK, table, Empty, Stages
<1> QED BY <1>1, <1>2, <1>3, <1>4, <1>5, <1>6, <1>7, <1>8, <1>9 DEF Run

\* So do the operators and the calendar.
LEMMA OperateTypeOK == TypeOK /\ (Operate \/ MonthEnds) => TypeOK'
<1> SUFFICES ASSUME TypeOK, Operate \/ MonthEnds PROVE TypeOK'
  OBVIOUS
<1>1. ASSUME NEW S \in SUBSET DOMAIN sims, NEW status \in Statuses, Give(S, status)
      PROVE  DOMAIN sims' \subseteq Sims /\ sims' \in [DOMAIN sims' -> Row]
  BY <1>1 DEF Give, TypeOK, Row
<1>2. ASSUME NEW S, Edited(S)
      PROVE  edit' \in [Sims -> {"never", "past", "since"}] /\ edits' \in 0..MaxEdits
  BY <1>2, BoundsAssumption DEF Edited, TypeOK
<1>3. ASSUME SetStatus PROVE TypeOK'
  <2>1. PICK S \in SUBSET DOMAIN sims, status \in SetStatuses : Give(S, status) /\ Edited(S)
    BY <1>3 DEF SetStatus
  <2> QED BY <1>1, <1>2, <1>3, <2>1, StatusesAssumption DEF SetStatus, TypeOK, run
<1>4. ASSUME PatchUsage PROVE TypeOK'
  <2>1. PICK s \in DOMAIN sims, mb \in 0..MaxMB :
          sims' = [sims EXCEPT ![s].usedMB = mb] /\ Edited({s})
    BY <1>4 DEF PatchUsage
  <2>2. DOMAIN sims' \subseteq Sims /\ sims' \in [DOMAIN sims' -> Row]
    BY <2>1 DEF TypeOK, Row
  <2> QED BY <1>2, <1>4, <2>1, <2>2 DEF PatchUsage, TypeOK, run
<1>5. ASSUME Reset PROVE TypeOK'
  <2>1. PICK S \in SUBSET DOMAIN sims :
          /\ Edited(S)
          /\ sims' = [s \in DOMAIN sims |->
                         IF s \in S THEN [status |-> "NEW", usedMB |-> 0] ELSE sims[s]]
          /\ history' = [r \in {q \in DOMAIN history : q[1] \notin S} |-> history[r]]
    BY <1>5 DEF Reset
  <2>2. DOMAIN sims' \subseteq Sims /\ sims' \in [DOMAIN sims' -> Row]
    BY <2>1, BoundsAssumption DEF TypeOK, Row, Statuses
  <2>3. DOMAIN history' \subseteq Sims \X Months /\ history' \in [DOMAIN history' -> Usage]
    BY <2>1 DEF TypeOK
  <2> QED BY <1>2, <1>5, <2>1, <2>2, <2>3 DEF Reset, TypeOK, run
<1>6. ASSUME NEW o \in Operators, CheckActive(o) PROVE TypeOK'
  BY <1>6 DEF CheckActive, TypeOK, table, run
<1>7. ASSUME NEW o \in Operators, Confirm(o) PROVE TypeOK'
  <2>1. DOMAIN sims' \subseteq Sims /\ sims' \in [DOMAIN sims' -> Row]
    BY <1>7 DEF Confirm, Give, TypeOK, Row, Statuses
  <2>2. Edited({confirming[o]})
    BY <1>7 DEF Confirm
  <2> QED BY <1>2, <1>7, <2>1, <2>2 DEF Confirm, TypeOK, run
<1>8. ASSUME MonthEnds PROVE TypeOK'
  BY <1>8, BoundsAssumption DEF MonthEnds, TypeOK, table, run, Months
<1> QED BY <1>3, <1>4, <1>5, <1>6, <1>7, <1>8 DEF Operate

\* Every state of SimSync has the declared types: a run never leaves its listing.
THEOREM TypeCorrect == Spec => []TypeOK
<1>1. TypeOK /\ [Next]_vars => TypeOK'
  <2> SUFFICES ASSUME TypeOK, [Next]_vars PROVE TypeOK'
    OBVIOUS
  <2>1. CASE Next
    BY <2>1, RunTypeOK, OperateTypeOK DEF Next
  <2>2. CASE UNCHANGED vars
    BY <2>2 DEF vars, table, run, TypeOK
  <2> QED BY <2>1, <2>2
<1> QED BY InitTypeOK, <1>1, PTL DEF Spec

----------------------------------------------------------------------------
(* What operators do to the tables.                                         *)

\* The rows of a SIM whose last change by an operator is not newer than the run
\* are the rows it had.
LEMMA OperateEffect ==
    ASSUME TypeOK, Operate
    PROVE  /\ UNCHANGED <<run, today>>
           /\ DOMAIN sims' = DOMAIN sims
           /\ DOMAIN history' \subseteq DOMAIN history
           /\ \A r \in DOMAIN history' : history'[r] = history[r]
           /\ \A s \in Sims : edit'[s] # "since" => edit'[s] = edit[s]
           /\ \A s \in DOMAIN sims : edit'[s] # "since" => sims'[s] = sims[s]
           /\ \A r \in DOMAIN history : edit'[r[1]] # "since" => r \in DOMAIN history'
<1> DEFINE Effect ==
       /\ UNCHANGED <<run, today>>
       /\ DOMAIN sims' = DOMAIN sims
       /\ DOMAIN history' \subseteq DOMAIN history
       /\ \A r \in DOMAIN history' : history'[r] = history[r]
       /\ \A s \in Sims : edit'[s] # "since" => edit'[s] = edit[s]
       /\ \A s \in DOMAIN sims : edit'[s] # "since" => sims'[s] = sims[s]
       /\ \A r \in DOMAIN history : edit'[r[1]] # "since" => r \in DOMAIN history'
<1>1. ASSUME NEW S \in SUBSET Sims, Edited(S)
      PROVE  \A s \in Sims : edit'[s] # "since" => edit'[s] = edit[s] /\ s \notin S
  BY <1>1 DEF Edited
<1>2. DOMAIN sims \subseteq Sims /\ \A r \in DOMAIN history : r[1] \in Sims
  BY DEF TypeOK
<1>3. ASSUME SetStatus PROVE Effect
  <2>1. PICK S \in SUBSET DOMAIN sims, status \in SetStatuses : Give(S, status) /\ Edited(S)
    BY <1>3 DEF SetStatus
  <2> QED BY <1>1, <1>2, <1>3, <2>1 DEF SetStatus, Give
<1>4. ASSUME PatchUsage PROVE Effect
  <2>1. PICK s \in DOMAIN sims, mb \in 0..MaxMB :
          sims' = [sims EXCEPT ![s].usedMB = mb] /\ Edited({s})
    BY <1>4 DEF PatchUsage
  <2> QED BY <1>1, <1>2, <1>4, <2>1 DEF PatchUsage
<1>5. ASSUME Reset PROVE Effect
  <2>1. PICK S \in SUBSET DOMAIN sims :
          /\ Edited(S)
          /\ sims' = [s \in DOMAIN sims |->
                         IF s \in S THEN [status |-> "NEW", usedMB |-> 0] ELSE sims[s]]
          /\ history' = [r \in {q \in DOMAIN history : q[1] \notin S} |-> history[r]]
    BY <1>5 DEF Reset
  <2> QED BY <1>1, <1>2, <1>5, <2>1 DEF Reset
<1>6. ASSUME NEW o \in Operators, CheckActive(o) PROVE Effect
  BY <1>6 DEF CheckActive, table
<1>7. ASSUME NEW o \in Operators, Confirm(o) PROVE Effect
  <2>1. CASE confirming[o] \in Sims
    BY <1>1, <1>2, <1>7, <2>1 DEF Confirm, Give
  <2>2. CASE confirming[o] \notin Sims
    BY <1>7, <2>2 DEF Confirm, TypeOK
  <2> QED BY <2>1, <2>2
<1> QED BY <1>3, <1>4, <1>5, <1>6, <1>7 DEF Operate

----------------------------------------------------------------------------
(* Usage and its month.                                                     *)

LEMMA MonthsOrdered == Spec => [](UsageOfTheMonth /\ HistoryNotAhead)
<1> DEFINE Inv == UsageOfTheMonth /\ HistoryNotAhead
<1>1. Init => Inv
  BY BoundsAssumption DEF Init, UsageOfTheMonth, HistoryNotAhead, Empty
<1>2. TypeOK /\ Inv /\ [Next]_vars => Inv'
  <2> SUFFICES ASSUME TypeOK, Inv, [Next]_vars PROVE Inv'
    OBVIOUS
  <2> USE DEF UsageOfTheMonth, HistoryNotAhead
  <2>0. month \in Nat /\ today \in Nat /\ \A s \in DOMAIN used : used[s].taken \in Nat
    BY DEF TypeOK, Months, Usage
  <2>1. CASE StartRun
    BY <2>1 DEF StartRun, table, Empty
  <2>2. CASE List
    BY <2>0, <2>2 DEF List, table
  <2>3. CASE Snapshot
    BY <2>3 DEF Snapshot, table
  <2>4. CASE FetchUsage
    <3>1. PICK answered \in SUBSET Batch(UsageBatch) : \E mb \in [answered -> 0..MaxMB] :
            used' = [s \in DOMAIN used \cup answered |->
                       IF s \in answered THEN [mb |-> mb[s], taken |-> today] ELSE used[s]]
      BY <2>4 DEF FetchUsage
    <3>2. \A s \in DOMAIN used' : month <= used'[s].taken
      BY <3>1
    <3>3. stage' \notin {"idle", "list", "snapshot"}
      BY <2>4 DEF FetchUsage, Proceed
    <3> QED BY <2>4, <3>2, <3>3 DEF FetchUsage, table
  <2>5. CASE Save
    BY <2>5 DEF Save, Proceed
  <2>6. CASE LoadIds
    BY <2>6 DEF LoadIds, table
  <2>7. CASE SaveHistory
    <3> DEFINE rows == {<<s, HistoryMonth>> : s \in Batch(UpsertBatch) \cap ids}
    <3>1. history' = [r \in DOMAIN history \cup rows |->
                        IF r \in rows THEN Reading(r[1]) ELSE history[r]]
      BY <2>7 DEF SaveHistory
    <3>2. \A s : month <= Reading(s).taken
      BY <2>0 DEF Reading
    <3>3. \A r \in rows : r[2] = month
      BY DEF HistoryMonth
    <3>4. HistoryNotAhead'
      BY <3>1, <3>2, <3>3
    <3> QED BY <2>7, <3>4 DEF SaveHistory, Proceed
  <2>8. CASE Finish
    BY <2>8 DEF Finish, table
  <2>9. CASE Abort
    BY <2>9 DEF Abort, table, Empty
  <2>10. CASE Operate
    BY <2>10, OperateEffect DEF run
  <2>11. CASE MonthEnds
    BY <2>0, <2>11 DEF MonthEnds, table, run
  <2>12. CASE UNCHANGED vars
    BY <2>12 DEF vars, table, run
  <2> QED BY <2>1, <2>2, <2>3, <2>4, <2>5, <2>6, <2>7, <2>8, <2>9, <2>10, <2>11, <2>12
          DEF Next, Run
<1> QED BY <1>1, <1>2, TypeCorrect, PTL DEF Spec

\* No history of a month holds usage reported before the month began, however
\* long a run takes.
THEOREM HistoryCorrect == Spec => []HistoryNotAhead
BY MonthsOrdered, PTL

----------------------------------------------------------------------------
(* Statuses.                                                                *)

\* A transaction of upserts, SIM by SIM.
LEMMA SaveEffect ==
    ASSUME TypeOK, Save
    PROVE  /\ UNCHANGED <<history, listed, month, snapshot, used, ids, today>>
           /\ DOMAIN sims' = DOMAIN sims \cup Batch(UpsertBatch)
           /\ Batch(UpsertBatch) \subseteq Sims
           /\ \A s \in Batch(UpsertBatch) :
                 sims'[s] = Upserted(s) /\ (edit'[s] = edit[s] \/ edit'[s] = "past")
                 /\ edit'[s] # "since"
           /\ \A s \in DOMAIN sims' \ Batch(UpsertBatch) :
                 sims'[s] = sims[s] /\ edit'[s] = edit[s]
           /\ \A s : Reading(s)' = Reading(s) /\ Activates(s)' = Activates(s)
<1>1. Batch(UpsertBatch) \subseteq Sims
  BY BatchListed, BatchAssumption DEF TypeOK
<1>2. DOMAIN sims \subseteq Sims /\ \A s \in Sims : edit[s] \in {"never", "past", "since"}
  BY DEF TypeOK
<1>3. /\ UNCHANGED <<history, listed, month, snapshot, used, ids, today>>
      /\ sims' = [s \in DOMAIN sims \cup Batch(UpsertBatch) |->
                    IF s \in Batch(UpsertBatch) THEN Upserted(s) ELSE sims[s]]
      /\ edit' = [s \in Sims |->
                    IF s \in Batch(UpsertBatch) /\ edit[s] = "since" THEN "past" ELSE edit[s]]
  BY DEF Save
<1>4. \A s : Reading(s)' = Reading(s) /\ Activates(s)' = Activates(s)
  BY <1>3 DEF Reading, Activates
<1> QED BY <1>1, <1>2, <1>3, <1>4

LEMMA StatusesHold == Spec => [](SnapshotHolds /\ UntouchedFollowsUsage)
<1> DEFINE Inv == SnapshotHolds /\ UntouchedFollowsUsage
<1>1. Init => Inv
  BY DEF Init, SnapshotHolds, UntouchedFollowsUsage, Empty
<1>2. TypeOK /\ Inv /\ [Next]_vars => Inv'
  <2> SUFFICES ASSUME TypeOK, Inv, [Next]_vars PROVE Inv'
    OBVIOUS
  <2>0. /\ DOMAIN sims \subseteq Sims
        /\ \A s \in Sims : edit[s] \in {"never", "past", "since"}
    BY DEF TypeOK
  <2>1. CASE StartRun
    BY <2>1 DEF StartRun, table, SnapshotHolds, UntouchedFollowsUsage
  <2>2. CASE List
    BY <2>2 DEF List, table, SnapshotHolds, UntouchedFollowsUsage
  <2>3. CASE Snapshot
    <3>1. \A s \in Sims : edit'[s] # "since" /\ (edit'[s] = "never" => edit[s] = "never")
      BY <2>0, <2>3 DEF Snapshot
    <3>2. UntouchedFollowsUsage'
      BY <2>0, <2>3, <3>1 DEF Snapshot, table, UntouchedFollowsUsage
    <3>3. SnapshotHolds'
      BY <2>0, <2>3, <3>1 DEF Snapshot, table, SnapshotHolds, UntouchedFollowsUsage
    <3> QED BY <3>2, <3>3
  <2>4. CASE FetchUsage
    <3>1. UNCHANGED <<sims, snapshot, edit>> /\ stage = "usage" /\ stage' \in {"usage", "save"}
      BY <2>4 DEF FetchUsage, Proceed, table
    <3> QED BY <3>1 DEF SnapshotHolds, UntouchedFollowsUsage
  <2>5. CASE Save
    <3>1. stage = "save" /\ stage' \in {"save", "ids"}
      BY <2>5 DEF Save, Proceed
    <3> DEFINE batch == Batch(UpsertBatch)
    <3>2. ASSUME NEW s \in batch
          PROVE  /\ Activates(s) => sims'[s].status = "ACTIVE"
                 /\ ~Activates(s) => sims'[s].status =
                                       IF s \in DOMAIN sims THEN sims[s].status ELSE "NEW"
                 /\ sims'[s].usedMB = Reading(s).mb
      BY <2>5, SaveEffect DEF Upserted
    <3>3. ASSUME NEW s \in batch, edit'[s] = "never"
          PROVE  /\ edit[s] = "never"
                 /\ sims'[s].status \in {"NEW", "ACTIVE"}
                 /\ Reading(s).mb > 0 => sims'[s].status = "ACTIVE"
                 /\ s \in DOMAIN snapshot /\ snapshot[s] # "NEW" /\ s \in DOMAIN sims
                       => sims'[s].status = "ACTIVE"
      <4>1. edit[s] = "never"
        BY <2>5, <3>3, SaveEffect
      <4>2. CASE Activates(s)
        BY <3>2, <4>1, <4>2
      <4>3. CASE ~Activates(s) /\ s \in DOMAIN sims
        <5>1. sims'[s].status = sims[s].status /\ sims[s].status \in {"NEW", "ACTIVE"}
          BY <3>2, <4>1, <4>3 DEF UntouchedFollowsUsage
        <5>2. Reading(s).mb > 0 => s \in DOMAIN snapshot /\ snapshot[s] # "NEW"
          BY <4>3 DEF Activates
        <5>3. s \in DOMAIN snapshot /\ snapshot[s] # "NEW" => sims[s].status = "ACTIVE"
          BY <3>1, <4>1, <4>3 DEF SnapshotHolds
        <5> QED BY <4>1, <5>1, <5>2, <5>3
      <4>4. CASE ~Activates(s) /\ s \notin DOMAIN sims
        <5>1. sims'[s].status = "NEW"
          BY <3>2, <4>4
        <5>2. s \notin DOMAIN snapshot
          BY <2>5, <3>1, <4>4 DEF SnapshotHolds
        <5>3. ~(Reading(s).mb > 0)
          BY <4>4, <5>2 DEF Activates
        <5> QED BY <4>1, <4>4, <5>1, <5>3
      <4> QED BY <4>2, <4>3, <4>4
    <3>4. UntouchedFollowsUsage'
      BY <2>5, <3>2, <3>3, SaveEffect DEF UntouchedFollowsUsage
    <3>5. SnapshotHolds'
      <4>1. ASSUME stage' = "save", NEW s \in DOMAIN sims', edit'[s] # "since"
            PROVE  \/ s \in DOMAIN snapshot' /\ snapshot'[s] = sims'[s].status
                   \/ Activates(s)' => sims'[s].status = "ACTIVE"
        BY <2>5, <3>1, <3>2, <4>1, SaveEffect DEF SnapshotHolds
      <4>2. ASSUME NEW s \in DOMAIN sims' \cap DOMAIN snapshot', edit'[s] = "never",
                   snapshot'[s] # "NEW"
            PROVE  sims'[s].status = "ACTIVE"
        <5>1. s \in DOMAIN snapshot /\ snapshot[s] # "NEW" /\ s \in DOMAIN sims
          BY <2>5, <3>1, <4>2, SaveEffect DEF SnapshotHolds
        <5>2. CASE s \in batch
          BY <3>3, <4>2, <5>1, <5>2
        <5>3. CASE s \notin batch
          BY <2>5, <3>1, <4>2, <5>1, <5>3, SaveEffect DEF SnapshotHolds
        <5> QED BY <5>2, <5>3
      <4>3. DOMAIN snapshot' \subseteq DOMAIN sims'
        BY <2>5, <3>1, SaveEffect DEF SnapshotHolds
      <4> QED BY <3>1, <4>1, <4>2, <4>3 DEF SnapshotHolds
    <3> QED BY <3>4, <3>5
  <2>6. CASE LoadIds
    BY <2>6 DEF LoadIds, table, SnapshotHolds, UntouchedFollowsUsage
  <2>7. CASE SaveHistory
    BY <2>7 DEF SaveHistory, Proceed, SnapshotHolds, UntouchedFollowsUsage
  <2>8. CASE Finish
    BY <2>8 DEF Finish, table, SnapshotHolds, UntouchedFollowsUsage
  <2>9. CASE Abort
    BY <2>9 DEF Abort, table, SnapshotHolds, UntouchedFollowsUsage
  <2>10. CASE Operate
    <3>1. UntouchedFollowsUsage'
      BY <2>0, <2>10, OperateEffect DEF UntouchedFollowsUsage
    <3>2. \A s : Activates(s)' = Activates(s)
      BY <2>10, OperateEffect DEF run, Activates, Reading
    <3>3. SnapshotHolds'
      BY <2>0, <2>10, <3>2, OperateEffect DEF run, SnapshotHolds
    <3> QED BY <3>1, <3>3
  <2>11. CASE MonthEnds
    BY <2>11 DEF MonthEnds, table, run, SnapshotHolds, UntouchedFollowsUsage, Activates, Reading
  <2>12. CASE UNCHANGED vars
    BY <2>12 DEF vars, table, run, SnapshotHolds, UntouchedFollowsUsage, Activates, Reading
  <2> QED BY <2>1, <2>2, <2>3, <2>4, <2>5, <2>6, <2>7, <2>8, <2>9, <2>10, <2>11, <2>12
          DEF Next, Run
<1> QED BY <1>1, <1>2, TypeCorrect, PTL DEF Spec

\* The status of a SIM that no operator ever touched follows its usage, over any
\* number of runs, failures and restarts.
THEOREM UntouchedCorrect == Spec => []UntouchedFollowsUsage
BY StatusesHold, PTL

\* A run overwrites no status that an operator gave before the run read it.
THEOREM DecisionsKept == Spec => RunKeepsDecisions
<1>1. ASSUME TypeOK, SnapshotHolds, Save, NEW s \in Changed
      PROVE  sims[s].status = "NEW" \/ edit[s] = "since"
  <2>1. s \in Batch(UpsertBatch) /\ s \in DOMAIN sims /\ Activates(s)
        /\ sims'[s].status = "ACTIVE"
    BY <1>1, SaveEffect DEF Changed, Upserted
  <2>2. stage = "save"
    BY <1>1 DEF Save
  <2> QED BY <1>1, <2>1, <2>2 DEF SnapshotHolds, Changed, Activates
<1>2. TypeOK /\ SnapshotHolds /\ [Next]_vars =>
        [Save => \A s \in Changed : sims[s].status = "NEW" \/ edit[s] = "since"]_vars
  BY <1>1
<1> QED BY <1>2, TypeCorrect, StatusesHold, PTL DEF Spec, RunKeepsDecisions

----------------------------------------------------------------------------
(* How far a run has got.                                                   *)

\* The SIMs a loop has passed are those it had passed and those of its batch.
LEMMA BatchPassed ==
    ASSUME TypeOK, next \in DOMAIN listed, NEW i \in DOMAIN listed,
           i < next + UpsertBatch
    PROVE  i < next \/ listed[i] \in Batch(UpsertBatch)
BY BatchAssumption DEF TypeOK, Batch

LEMMA ProgressHolds == Spec => []Progress
<1>1. Init => Progress
  BY DEF Init, Progress
<1>2. TypeOK /\ Progress /\ [Next]_vars => Progress'
  <2> SUFFICES ASSUME TypeOK, Progress, [Next]_vars PROVE Progress'
    OBVIOUS
  <2>0. /\ listed \in Seq(Sims) /\ DOMAIN listed = 1..Len(listed) /\ Len(listed) \in Nat
        /\ \A i \in DOMAIN listed : listed[i] \in Sims /\ i \in Nat /\ i < Len(listed) + 1
        /\ DOMAIN sims \subseteq Sims
    BY DEF TypeOK
  <2>1. CASE StartRun
    BY <2>1 DEF StartRun, Progress
  <2>2. CASE List
    <3>1. stage' = "done" => listed' = <<>>
      BY <2>2 DEF List
    <3> QED BY <2>2, <3>1 DEF List, Progress, SavedTo, FiledTo
  <2>3. CASE Snapshot
    BY <2>3 DEF Snapshot, Progress
  <2>4. CASE FetchUsage
    <3>1. stage' \in {"usage", "save"} /\ (stage' = "save" => next' = 1)
      BY <2>4 DEF FetchUsage, Proceed
    <3>2. listed' = listed
      BY <2>4 DEF FetchUsage
    <3> QED BY <2>0, <3>1, <3>2 DEF Progress, SavedTo
  <2>5. CASE Save
    <3>1. /\ stage = "save" /\ next \in DOMAIN listed
          /\ \/ stage' = "save" /\ next' = next + UpsertBatch
             \/ stage' = "ids" /\ next + UpsertBatch > Len(listed)
      BY <2>5, BatchAssumption DEF Save, Proceed, TypeOK
    <3>2. ASSUME NEW i \in DOMAIN listed, i < next + UpsertBatch
          PROVE  /\ listed[i] \in DOMAIN sims'
                 /\ edit'[listed[i]] # "since" =>
                       sims'[listed[i]].usedMB = Reading(listed[i]).mb
      <4>1. CASE listed[i] \in Batch(UpsertBatch)
        BY <2>5, <4>1, SaveEffect DEF Upserted
      <4>2. CASE listed[i] \notin Batch(UpsertBatch)
        <5>1. i < next
          BY <3>1, <3>2, <4>2, BatchPassed
        <5> QED BY <2>5, <3>1, <4>2, <5>1, SaveEffect DEF Progress, SavedTo
      <4> QED BY <4>1, <4>2
    <3>3. \A s : Reading(s)' = Reading(s)
      BY <2>5, SaveEffect
    <3>4. listed' = listed
      BY <2>5 DEF Save
    <3>5. \A i \in DOMAIN listed : next + UpsertBatch > Len(listed) => i < next + UpsertBatch
      BY <2>0, <3>1, BatchAssumption
    <3> QED BY <2>0, <3>1, <3>2, <3>3, <3>4, <3>5 DEF Progress, SavedTo
  <2>6. CASE LoadIds
    <3>1. stage' = "history" /\ next' = 1 /\ ids' = DOMAIN sims
          /\ UNCHANGED <<table, listed, used, month, edit>>
      BY <2>6 DEF LoadIds
    <3>2. SavedTo(Len(listed) + 1)
      BY <2>6 DEF LoadIds, Progress
    <3> QED BY <2>0, <3>1, <3>2 DEF Progress, SavedTo, FiledTo, table, Reading
  <2>7. CASE SaveHistory
    <3> DEFINE rows == {<<s, HistoryMonth>> : s \in Batch(UpsertBatch) \cap ids}
    <3>1. /\ stage = "history" /\ next \in DOMAIN listed
          /\ \/ stage' = "history" /\ next' = next + UpsertBatch
             \/ stage' = "follow" /\ next + UpsertBatch > Len(listed)
      BY <2>7, BatchAssumption DEF SaveHistory, Proceed, TypeOK
    <3>2. history' = [r \in DOMAIN history \cup rows |->
                        IF r \in rows THEN Reading(r[1]) ELSE history[r]]
      BY <2>7 DEF SaveHistory
    <3>3. UNCHANGED <<sims, listed, used, month, ids, edit>>
      BY <2>7 DEF SaveHistory
    <3>4. ASSUME NEW i \in DOMAIN listed, i < next + UpsertBatch, edit[listed[i]] # "since"
          PROVE  /\ <<listed[i], month>> \in DOMAIN history'
                 /\ history'[<<listed[i], month>>].mb = Reading(listed[i]).mb
      <4>1. CASE listed[i] \in Batch(UpsertBatch)
        <5>1. <<listed[i], month>> \in rows
          BY <3>1, <4>1 DEF Progress, HistoryMonth
        <5> QED BY <3>2, <5>1
      <4>2. CASE listed[i] \notin Batch(UpsertBatch)
        <5>1. i < next
          BY <3>1, <3>4, <4>2, BatchPassed
        <5>2. /\ <<listed[i], month>> \in DOMAIN history
              /\ history[<<listed[i], month>>].mb = Reading(listed[i]).mb
          BY <3>1, <3>4, <5>1 DEF Progress, FiledTo
        <5>3. <<listed[i], month>> \notin rows
          BY <4>2
        <5> QED BY <3>2, <5>2, <5>3
      <4> QED BY <4>1, <4>2
    <3>5. \A i \in DOMAIN listed : next + UpsertBatch > Len(listed) => i < next + UpsertBatch
      BY <2>0, <3>1, BatchAssumption
    <3> QED BY <2>0, <3>1, <3>3, <3>4, <3>5 DEF Progress, SavedTo, FiledTo, Reading
  <2>8. CASE Finish
    BY <2>8 DEF Finish, table, Progress, SavedTo, FiledTo, Reading
  <2>9. CASE Abort
    BY <2>9 DEF Abort, Progress
  <2>10. CASE Operate
    <3>1. UNCHANGED run
      BY <2>10, OperateEffect
    <3>2. \A s : Reading(s)' = Reading(s)
      BY <3>1 DEF run, Reading
    <3>3. ASSUME NEW n, SavedTo(n) PROVE SavedTo(n)'
      BY <2>0, <2>10, <3>1, <3>2, <3>3, OperateEffect DEF run, SavedTo
    <3>4. ASSUME NEW n, FiledTo(n) PROVE FiledTo(n)'
      <4> SUFFICES ASSUME NEW i \in DOMAIN listed, i < n, edit'[listed[i]] # "since"
                   PROVE  /\ <<listed[i], month>> \in DOMAIN history'
                          /\ history'[<<listed[i], month>>].mb = Reading(listed[i]).mb
        BY <3>1, <3>2 DEF run, FiledTo
      <4>1. edit[listed[i]] # "since"
        BY <2>0, <2>10, OperateEffect
      <4>2. /\ <<listed[i], month>> \in DOMAIN history
            /\ history[<<listed[i], month>>].mb = Reading(listed[i]).mb
        BY <3>4, <4>1 DEF FiledTo
      <4>3. <<listed[i], month>> \in DOMAIN history'
        BY <2>10, <4>2, OperateEffect
      <4> QED BY <2>10, <4>2, <4>3, OperateEffect
    <3> QED BY <3>1, <3>3, <3>4 DEF run, Progress
  <2>11. CASE MonthEnds
    BY <2>11 DEF MonthEnds, table, run, Progress, SavedTo, FiledTo, Reading
  <2>12. CASE UNCHANGED vars
    BY <2>12 DEF vars, table, run, Progress, SavedTo, FiledTo, Reading
  <2> QED BY <2>1, <2>2, <2>3, <2>4, <2>5, <2>6, <2>7, <2>8, <2>9, <2>10, <2>11, <2>12
          DEF Next, Run
<1> QED BY <1>1, <1>2, TypeCorrect, PTL DEF Spec

\* A completed run has left every SIM of its listing, in `sims` and in
\* usage_history, with what the upstream reported.
THEOREM ReflectionCorrect == Spec => []SyncReflected
<1>1. TypeOK /\ Progress => SyncReflected
  <2> SUFFICES ASSUME TypeOK, Progress, stage = "done", NEW i \in DOMAIN listed
               PROVE  /\ listed[i] \in DOMAIN sims
                      /\ edit[listed[i]] # "since" =>
                            /\ sims[listed[i]].usedMB = Reading(listed[i]).mb
                            /\ <<listed[i], month>> \in DOMAIN history
                            /\ history[<<listed[i], month>>].mb = Reading(listed[i]).mb
    BY DEF SyncReflected
  <2>1. i < Len(listed) + 1
    BY DEF TypeOK
  <2> QED BY <2>1 DEF Progress, SavedTo, FiledTo
<1> QED BY <1>1, TypeCorrect, ProgressHolds, PTL
=============================================================================
