-------------------------- MODULE BackupRunsProofs --------------------------
(***************************************************************************)
(* Proofs about BackupRuns: for any number of ticks, any minutes and any   *)
(* faults, one run at a time is made for a minute, what is answered was    *)
(* mailed, and what goes wrong goes wrong by the faults named.             *)
(***************************************************************************)
EXTENDS BackupRuns, TLAPS

----------------------------------------------------------------------------
(* The inductive invariant.                                                *)

\* OneRunPerMinute, read from the ticks and from the map.
RunsKept ==
    /\ \A t \in Ticks : Running(t) => activeRuns[at[t]] = t
    /\ \A m \in Minutes : activeRuns[m] # NoTick =>
          Running(activeRuns[m]) /\ at[activeRuns[m]] = m

\* Who says that a mail arrived: the map, a run past its mail, an answer.
MailsKept ==
    /\ \A m \in Minutes : completedRuns[m] # NoTick =>
          completedRuns[m] \in mailed /\ at[completedRuns[m]] = m
    /\ \A t \in Ticks : pc[t] = "sent" => t \in mailed
    /\ CompletedWasMailed

\* Before its mail a run finds none recorded for its minute; without doubt none
\* has arrived either.
MailsCounted ==
    /\ \A t \in Ticks : Running(t) /\ pc[t] # "sent" => completedRuns[at[t]] = NoTick
    /\ seen \cap {"answer", "crash"} = {} =>
          \A m \in Minutes : mailbox[m] = IF completedRuns[m] = NoTick THEN 0 ELSE 1

\* A run that has not made its directory has none on disk.
FilesKept ==
    /\ \A t \in workspaces : pc[t] \notin {"idle", "joined", "mkdtemp"}
    /\ LeftoversNeedFault

Kept == RunsKept /\ MailsKept /\ MailsCounted /\ FilesKept

----------------------------------------------------------------------------
(* Types.                                                                  *)

LEMMA FinishType ==
    ASSUME TypeOK, NEW r \in Ticks, NEW status \in Answers, Finish(r, status)
    PROVE  /\ activeRuns' \in [Minutes -> Ticks \cup {NoTick}]
           /\ pc' \in [Ticks -> Places]
           /\ answer' \in [Ticks -> Answers]
           /\ by' \in [Ticks -> Ticks \cup {NoTick}]
  BY DEF Finish, TypeOK, Places

LEMMA ContinueType ==
    ASSUME TypeOK, NEW r \in Ticks, NEW place \in Places, Continue(r, place)
    PROVE  /\ activeRuns' \in [Minutes -> Ticks \cup {NoTick}]
           /\ pc' \in [Ticks -> Places]
           /\ answer' \in [Ticks -> Answers]
           /\ by' \in [Ticks -> Ticks \cup {NoTick}]
  BY DEF Continue, TypeOK

LEMMA MailType ==
    ASSUME TypeOK, NEW r \in Ticks,
           Arrive(r) \/ UNCHANGED <<mailbox, mailed>>
    PROVE  mailbox' \in [Minutes -> Nat] /\ mailed' \subseteq Ticks
  BY DEF Arrive, TypeOK

LEMMA TypeStep ==
    ASSUME TypeOK, [Next]_vars
    PROVE  TypeOK'
  <1> Stages \subseteq Places /\ "done" \in Places /\ "joined" \in Places /\ "idle" \in Places
    BY DEF Places
  <1> {"dump", "stat", "send", "undump", "sent", "unsent", "mkdtemp"} \subseteq Places
    BY DEF Places, Stages
  <1> {"skipped", "completed", "failed", "rejected"} \subseteq Answers
    BY DEF Answers
  <1>1. ASSUME NEW t \in Ticks, Tick(t) PROVE TypeOK'
    <2>1. CASE Skip(t)
      BY <2>1 DEF Skip, Answer, TypeOK
    <2>2. CASE AnswerFromCache(t)
      BY <2>2 DEF AnswerFromCache, Answer, TypeOK
    <2>3. CASE Join(t)
      BY <2>3 DEF Join, TypeOK
    <2>4. CASE Start(t)
      BY <2>4 DEF Start, TypeOK
    <2> QED
      BY <1>1, <2>1, <2>2, <2>3, <2>4 DEF Tick
  <1>2. ASSUME NEW r \in Ticks, Run(r) PROVE TypeOK'
    <2>1. CASE MakeWorkspace(r)
      <3>1. CASE Continue(r, "dump")
        BY <2>1, <3>1, ContinueType, FaultsAssumption DEF MakeWorkspace, Suffer, TypeOK
      <3>2. CASE Finish(r, "rejected")
        BY <2>1, <3>2, FinishType, FaultsAssumption DEF MakeWorkspace, Suffer, TypeOK
      <3> QED
        BY <2>1, <3>1, <3>2 DEF MakeWorkspace
    <2>2. CASE Dump(r)
      <3>1. PICK place \in {"stat", "undump"} : Continue(r, place)
        BY <2>2 DEF Dump
      <3> QED
        BY <2>2, <3>1, ContinueType DEF Dump, Suffer, TypeOK
    <2>3. CASE BuildArtifact(r)
      <3>1. CASE Continue(r, "send")
        BY <2>3, <3>1, ContinueType DEF BuildArtifact, Suffer, TypeOK
      <3>2. CASE Finish(r, "rejected")
        BY <2>3, <3>2, FinishType DEF BuildArtifact, Suffer, TypeOK
      <3> QED
        BY <2>3, <3>1, <3>2 DEF BuildArtifact
    <2>4. CASE Send(r)
      <3>1. PICK place \in {"sent", "unsent"} : Continue(r, place)
        BY <2>4 DEF Send
      <3>2. completedRuns' \in [Minutes -> Ticks \cup {NoTick}]
        BY <2>4 DEF Send, TypeOK
      <3>3. mailbox' \in [Minutes -> Nat] /\ mailed' \subseteq Ticks
        BY <2>4, MailType DEF Send
      <3> QED
        BY <2>4, <3>1, <3>2, <3>3, ContinueType DEF Send, Suffer, TypeOK
    <2>5. CASE Cleanup(r)
      <3>1. PICK status \in {"completed", "failed"} : Finish(r, status)
        BY <2>5 DEF Cleanup
      <3> QED
        BY <2>5, <3>1, FinishType DEF Cleanup, Suffer, TypeOK
    <2> QED
      BY <1>2, <2>1, <2>2, <2>3, <2>4, <2>5 DEF Run
  <1>3. CASE Crash
    <2>1. mailbox' \in [Minutes -> Nat] /\ mailed' \subseteq Ticks
      BY <1>3 DEF Crash, Arrive, TypeOK
    <2> QED
      BY <1>3, <2>1 DEF Crash, Suffer, TypeOK
  <1>4. CASE Over \/ UNCHANGED vars
    BY <1>4 DEF Over, vars, TypeOK
  <1> QED
    BY <1>1, <1>2, <1>3, <1>4 DEF Next

\* Every state has the declared types.
THEOREM TypeCorrect == Spec => []TypeOK
  <1>1. Init => TypeOK
    BY DEF Init, TypeOK, Places, Answers
  <1>2. TypeOK /\ [Next]_vars => TypeOK'
    BY TypeStep
  <1> QED
    BY <1>1, <1>2, PTL DEF Spec

----------------------------------------------------------------------------
(* What a step does to the runs and the answers.                            *)

LEMMA StagesDistinct ==
    /\ "idle" \notin Stages /\ "joined" \notin Stages /\ "done" \notin Stages
    /\ {"mkdtemp", "dump", "stat", "send", "undump", "sent", "unsent"} = Stages
  BY DEF Stages

\* A run that settles takes its minute with it and leaves the other runs alone.
LEMMA FinishRuns ==
    ASSUME TypeOK, RunsKept, NEW r \in Ticks, Running(r), NEW status, Finish(r, status),
           at' = at
    PROVE  /\ RunsKept'
           /\ \A t \in Ticks : pc'[t] = pc[t] \/ pc'[t] = "done"
           /\ \A t \in Ticks : Running(t) /\ t # r => pc'[t] = pc[t]
  <1>1. \A t \in Ticks : pc'[t] = IF t = r \/ (pc[t] = "joined" /\ at[t] = at[r])
                                  THEN "done" ELSE pc[t]
    BY DEF Finish
  <1>2. \A m \in Minutes : activeRuns'[m] = IF m = at[r] THEN NoTick ELSE activeRuns[m]
    BY DEF Finish, TypeOK
  <1> QED
    BY <1>1, <1>2, StagesDistinct, TicksAssumption DEF RunsKept, Running, TypeOK

\* A run that goes on stays the run of its minute.
LEMMA ContinueRuns ==
    ASSUME TypeOK, RunsKept, NEW r \in Ticks, Running(r), NEW place \in Stages,
           Continue(r, place), at' = at
    PROVE  /\ RunsKept'
           /\ pc'[r] = place /\ \A t \in Ticks \ {r} : pc'[t] = pc[t]
  BY StagesDistinct DEF RunsKept, Continue, Running, TypeOK

\* The next state of the ticks, when no run moves.
LEMMA AnswerRuns ==
    ASSUME TypeOK, RunsKept, NEW t \in Ticks, pc[t] = "idle",
           Answer(t, "skipped", NoTick) \/ Answer(t, "completed", completedRuns[at[t]])
              \/ pc' = [pc EXCEPT ![t] = "joined"],
           UNCHANGED <<activeRuns, at>>
    PROVE  /\ RunsKept'
           /\ \A x \in Ticks : Running(x)' <=> Running(x)
           /\ \A x \in Ticks : Running(x) => pc'[x] = pc[x]
  <1>1. pc'[t] \in {"done", "joined"} /\ \A x \in Ticks \ {t} : pc'[x] = pc[x]
    BY DEF Answer, TypeOK
  <1> QED
    BY <1>1, StagesDistinct DEF RunsKept, Running, TypeOK

----------------------------------------------------------------------------
(* Every step keeps the invariant.                                          *)

LEMMA TickKeeps ==
    ASSUME TypeOK, Kept, NEW t \in Ticks, Tick(t)
    PROVE  Kept'
  <1>1. pc[t] = "idle" /\ UNCHANGED <<completedRuns, at, mailbox, mailed, workspaces, seen>>
    BY DEF Tick, Skip, AnswerFromCache, Join, Start
  <1>2. CASE Start(t)
    <2>1. pc' = [pc EXCEPT ![t] = "mkdtemp"] /\ UNCHANGED <<answer, by>>
          /\ activeRuns' = [activeRuns EXCEPT ![at[t]] = t]
          /\ activeRuns[at[t]] = NoTick /\ completedRuns[at[t]] = NoTick
      BY <1>2 DEF Start
    <2>2. pc'[t] = "mkdtemp" /\ (\A x \in Ticks \ {t} : pc'[x] = pc[x]) /\ at[t] \in Minutes
      BY <2>1 DEF TypeOK
    <2>3. RunsKept'
      <3>1. \A m \in Minutes : activeRuns'[m] = IF m = at[t] THEN t ELSE activeRuns[m]
        BY <2>1 DEF TypeOK
      <3>2. at' = at /\ Running(t)' /\ \A x \in Ticks \ {t} : Running(x)' <=> Running(x)
        BY <1>1, <2>2, StagesDistinct DEF Running
      <3>3. \A x \in Ticks : Running(x)' => activeRuns'[at'[x]] = x
        BY <2>1, <3>1, <3>2, TicksAssumption DEF Kept, RunsKept, TypeOK
      <3>4. \A m \in Minutes : activeRuns'[m] # NoTick =>
               (Running(activeRuns[m])' /\ at'[activeRuns'[m]] = m) \/ m = at[t]
        BY <1>1, <3>1, <3>2, <2>2, StagesDistinct DEF Kept, RunsKept, TypeOK, Running
      <3> QED
        BY <1>1, <2>2, <3>1, <3>3, <3>4, StagesDistinct DEF RunsKept, Running, Kept, TypeOK
    <2>4. MailsKept'
      BY <1>1, <2>1, <2>2 DEF Kept, MailsKept, CompletedWasMailed
    <2>5. MailsCounted'
      BY <1>1, <2>1, <2>2, StagesDistinct DEF Kept, MailsCounted, Running, TypeOK
    <2>6. FilesKept'
      BY <1>1, <2>2, StagesDistinct DEF Kept, FilesKept, LeftoversNeedFault, Running, TypeOK
    <2> QED
      BY <2>3, <2>4, <2>5, <2>6 DEF Kept
  <1>3. CASE Skip(t) \/ AnswerFromCache(t) \/ Join(t)
    <2>1. /\ RunsKept'
          /\ \A x \in Ticks : Running(x)' <=> Running(x)
          /\ \A x \in Ticks : Running(x) => pc'[x] = pc[x]
      BY <1>1, <1>3, AnswerRuns DEF Kept, Skip, AnswerFromCache, Join
    <2>2. \A x \in Ticks : pc'[x] = "sent" => pc[x] = "sent"
      BY <2>1, StagesDistinct DEF Running
    <2>3. CompletedWasMailed'
      <3>1. CASE AnswerFromCache(t)
        <4>1. completedRuns[at[t]] \in mailed /\ at[completedRuns[at[t]]] = at[t]
          BY <3>1 DEF AnswerFromCache, Kept, MailsKept, TypeOK
        <4>2. by'[t] = completedRuns[at[t]]
              /\ \A x \in Ticks \ {t} : answer'[x] = answer[x] /\ by'[x] = by[x]
          BY <3>1 DEF AnswerFromCache, Answer, TypeOK
        <4> QED
          BY <1>1, <4>1, <4>2 DEF Kept, MailsKept, CompletedWasMailed, TypeOK
      <3>2. CASE Skip(t)
        <4>1. answer'[t] = "skipped"
              /\ \A x \in Ticks \ {t} : answer'[x] = answer[x] /\ by'[x] = by[x]
          BY <3>2 DEF Skip, Answer, TypeOK
        <4> QED
          BY <1>1, <4>1 DEF Kept, MailsKept, CompletedWasMailed, TypeOK
      <3>3. CASE Join(t)
        BY <1>1, <3>3 DEF Join, Kept, MailsKept, CompletedWasMailed
      <3> QED
        BY <1>3, <3>1, <3>2, <3>3
    <2>4. MailsKept'
      BY <1>1, <2>2, <2>3 DEF Kept, MailsKept
    <2>5. MailsCounted'
      BY <1>1, <2>1 DEF Kept, MailsCounted
    <2>6. FilesKept'
      <3>1. \A x \in Ticks : pc'[x] \in {"idle", "joined", "mkdtemp"}
               => pc[x] \in {"idle", "joined", "mkdtemp"}
        BY <1>1, <1>3 DEF Skip, AnswerFromCache, Join, Answer, TypeOK
      <3> QED
        BY <1>1, <2>1, <3>1 DEF Kept, FilesKept, LeftoversNeedFault, TypeOK
    <2> QED
      BY <2>1, <2>4, <2>5, <2>6 DEF Kept
  <1> QED
    BY <1>2, <1>3 DEF Tick

\* What the invariant says of mails is about runs before and after theirs.
LEMMA ContinueMails ==
    ASSUME TypeOK, Kept, NEW r \in Ticks, Running(r), pc[r] # "sent",
           NEW place \in Stages \ {"sent"}, Continue(r, place),
           UNCHANGED <<completedRuns, at>>, mailed \subseteq mailed'
    PROVE  MailsKept' /\ (\A t \in Ticks : Running(t)' /\ pc'[t] # "sent" =>
                             completedRuns'[at'[t]] = NoTick)
  <1>1. pc'[r] = place /\ \A t \in Ticks \ {r} : pc'[t] = pc[t]
    BY ContinueRuns DEF Kept
  <1>2. UNCHANGED <<answer, by>>
    BY DEF Continue
  <1> QED
    BY <1>1, <1>2, StagesDistinct
    DEF Kept, MailsKept, MailsCounted, CompletedWasMailed, Running, TypeOK

\* The ticks told of a failure are told nothing of a mail.
LEMMA FinishMails ==
    ASSUME TypeOK, Kept, NEW r \in Ticks, Running(r), NEW status, Finish(r, status),
           status = "completed" => pc[r] = "sent",
           UNCHANGED <<completedRuns, at, mailbox, mailed>>, seen \subseteq seen'
    PROVE  RunsKept' /\ MailsKept' /\ MailsCounted'
  <1>1. /\ RunsKept'
        /\ \A t \in Ticks : pc'[t] = pc[t] \/ pc'[t] = "done"
    BY FinishRuns DEF Kept
  <1>2. \A t \in Ticks : \/ answer'[t] = answer[t] /\ by'[t] = by[t]
                         \/ answer'[t] = status /\ by'[t] = r /\ at[t] = at[r]
    BY DEF Finish
  <1>3. CompletedWasMailed'
    BY <1>2 DEF Kept, MailsKept, CompletedWasMailed
  <1>4. MailsKept'
    BY <1>1, <1>3 DEF Kept, MailsKept
  <1>5. MailsCounted'
    BY <1>1, StagesDistinct DEF Kept, MailsCounted, Running
  <1> QED
    BY <1>1, <1>4, <1>5

\* A run that settles leaves its directory only where that is a fault.
LEMMA FinishLeftovers ==
    ASSUME TypeOK, Kept, NEW r \in Ticks, Running(r), NEW status, Finish(r, status),
           at' = at, seen \subseteq seen', workspaces' \subseteq workspaces,
           r \notin workspaces' \/ seen' \cap {"cleanup", "crash", "stat"} # {}
    PROVE  FilesKept'
  <1>1. /\ \A t \in Ticks : Running(t) /\ t # r => pc'[t] = pc[t]
        /\ \A t \in Ticks : pc'[t] = pc[t] \/ pc'[t] = "done"
    BY FinishRuns DEF Kept
  <1> QED
    BY <1>1 DEF Kept, FilesKept, LeftoversNeedFault, Running, TypeOK

LEMMA RunKeeps ==
    ASSUME TypeOK, Kept, NEW r \in Ticks, Run(r)
    PROVE  Kept'
  <1>1. Running(r) /\ at' = at /\ seen \subseteq seen'
    BY StagesDistinct DEF Run, MakeWorkspace, Dump, BuildArtifact, Send, Cleanup, Running, Suffer
  <1>2. ASSUME NEW place \in Stages \ {"sent"}, Continue(r, place), pc[r] # "sent",
               UNCHANGED <<completedRuns, mailbox, mailed>>,
               workspaces' \subseteq workspaces \cup {r}, place # "mkdtemp"
        PROVE  Kept'
    <2>1. /\ RunsKept'
          /\ pc'[r] = place /\ \A t \in Ticks \ {r} : pc'[t] = pc[t]
      BY <1>1, <1>2, ContinueRuns DEF Kept
    <2>2. MailsKept' /\ MailsCounted'
      BY <1>1, <1>2, ContinueMails DEF Kept, MailsCounted
    <2>3. FilesKept'
      BY <1>1, <1>2, <2>1, StagesDistinct DEF Kept, FilesKept, LeftoversNeedFault, Running, TypeOK
    <2> QED
      BY <2>1, <2>2, <2>3 DEF Kept
  <1>3. CASE MakeWorkspace(r)
    <2>1. CASE Continue(r, "dump")
      BY <1>2, <1>3, <2>1, StagesDistinct DEF MakeWorkspace
    <2>2. CASE Finish(r, "rejected") /\ workspaces' = workspaces
      <3>1. RunsKept' /\ MailsKept' /\ MailsCounted'
        BY <1>1, <1>3, <2>2, FinishMails DEF MakeWorkspace
      <3>2. r \notin workspaces
        BY <1>3 DEF MakeWorkspace, Kept, FilesKept
      <3>3. FilesKept'
        BY <1>1, <2>2, <3>2, FinishLeftovers
      <3> QED
        BY <3>1, <3>3 DEF Kept
    <2> QED
      BY <1>3, <2>1, <2>2 DEF MakeWorkspace
  <1>4. CASE Dump(r)
    BY <1>2, <1>4, StagesDistinct DEF Dump
  <1>5. CASE BuildArtifact(r)
    <2>1. CASE Continue(r, "send")
      BY <1>2, <1>5, <2>1, StagesDistinct DEF BuildArtifact
    <2>2. CASE Suffer("stat") /\ Finish(r, "rejected")
      <3>1. RunsKept' /\ MailsKept' /\ MailsCounted'
        BY <1>1, <1>5, <2>2, FinishMails DEF BuildArtifact
      <3>2. FilesKept'
        BY <1>1, <1>5, <2>2, FinishLeftovers DEF BuildArtifact, Suffer
      <3> QED
        BY <3>1, <3>2 DEF Kept
    <2> QED
      BY <1>5, <2>1, <2>2 DEF BuildArtifact
  <1>6. CASE Send(r)
    <2>1. PICK place \in {"sent", "unsent"} : Continue(r, place)
      BY <1>6 DEF Send
    <2>2. /\ RunsKept'
          /\ pc'[r] = place /\ \A t \in Ticks \ {r} : pc'[t] = pc[t]
      BY <1>1, <2>1, ContinueRuns, StagesDistinct DEF Kept
    <2>3. FilesKept'
      BY <1>1, <1>6, <2>1, <2>2, StagesDistinct
      DEF Send, Kept, FilesKept, LeftoversNeedFault, Running, TypeOK
    <2>4. pc[r] = "send" /\ mailed \subseteq mailed' /\ at[r] \in Minutes
      BY <1>6 DEF Send, Arrive, TypeOK
    <2>5. CASE completedRuns' = completedRuns /\ place = "unsent"
      <3>1. /\ MailsKept'
            /\ \A t \in Ticks : Running(t)' /\ pc'[t] # "sent" => completedRuns'[at'[t]] = NoTick
        BY <1>1, <2>1, <2>4, <2>5, ContinueMails, StagesDistinct
      <3>2. mailbox' = mailbox \/ "answer" \in seen'
        BY <1>6, <2>2, <2>5 DEF Send, Suffer, Continue, TypeOK
      <3>3. MailsCounted'
        BY <1>1, <2>5, <3>1, <3>2 DEF Kept, MailsCounted
      <3> QED
        BY <2>2, <2>3, <3>1, <3>3 DEF Kept
    <2>6. CASE place = "sent" /\ Arrive(r)
               /\ completedRuns' = [completedRuns EXCEPT ![at[r]] = r] /\ seen' = seen
      <3>1. \A m \in Minutes : completedRuns'[m] = IF m = at[r] THEN r ELSE completedRuns[m]
        BY <2>6 DEF TypeOK
      <3>2. mailed' = mailed \cup {r} /\ UNCHANGED <<answer, by>>
        BY <2>1, <2>6 DEF Arrive, Continue
      <3>3. MailsKept'
        BY <1>1, <2>2, <2>4, <2>6, <3>1, <3>2 DEF Kept, MailsKept, CompletedWasMailed
      <3>4. \A t \in Ticks : Running(t)' /\ pc'[t] # "sent" => completedRuns'[at'[t]] = NoTick
        BY <1>1, <2>2, <2>4, <2>6, <3>1, StagesDistinct
        DEF Kept, RunsKept, MailsCounted, Running, TypeOK
      <3>5. completedRuns[at[r]] = NoTick
        BY <1>1, <2>4 DEF Kept, MailsCounted
      <3>6. \A m \in Minutes : mailbox'[m] = IF m = at[r] THEN mailbox[m] + 1 ELSE mailbox[m]
        BY <2>6 DEF Arrive, TypeOK
      <3>7. MailsCounted'
        BY <2>4, <2>6, <3>1, <3>4, <3>5, <3>6, TicksAssumption DEF Kept, MailsCounted
      <3> QED
        BY <2>2, <2>3, <3>3, <3>7 DEF Kept
    <2> QED
      BY <1>6, <2>2, <2>5, <2>6 DEF Send, Continue, TypeOK
  <1>7. CASE Cleanup(r)
    <2>1. PICK status : Finish(r, status) /\ (status = "completed" => pc[r] = "sent")
      BY <1>7 DEF Cleanup
    <2>2. RunsKept' /\ MailsKept' /\ MailsCounted'
      BY <1>1, <1>7, <2>1, FinishMails DEF Cleanup
    <2>3. FilesKept'
      BY <1>1, <1>7, <2>1, FinishLeftovers DEF Cleanup, Suffer
    <2> QED
      BY <2>2, <2>3 DEF Kept
  <1> QED
    BY <1>3, <1>4, <1>5, <1>6, <1>7 DEF Run

LEMMA CrashKeeps ==
    ASSUME TypeOK, Kept, Crash
    PROVE  Kept'
  <1>1. \A t \in Ticks : pc'[t] = IF pc[t] = "idle" THEN "idle" ELSE "done"
    BY DEF Crash
  <1>2. \A t \in Ticks : ~Running(t)'
    BY <1>1, StagesDistinct DEF Running
  <1>3. \A m \in Minutes : activeRuns'[m] = NoTick /\ completedRuns'[m] = NoTick
    BY DEF Crash
  <1>4. "crash" \in seen' /\ mailed \subseteq mailed' /\ UNCHANGED <<at, answer, by, workspaces>>
    BY DEF Crash, Suffer, Arrive
  <1>5. MailsKept'
    BY <1>1, <1>3, <1>4 DEF Kept, MailsKept, CompletedWasMailed
  <1> QED
    BY <1>1, <1>2, <1>3, <1>4, <1>5
    DEF Kept, RunsKept, MailsCounted, FilesKept, LeftoversNeedFault, TypeOK

LEMMA KeptStep ==
    ASSUME TypeOK, Kept, [Next]_vars
    PROVE  Kept'
  <1>1. CASE UNCHANGED vars
    BY <1>1 DEF vars, Kept, RunsKept, MailsKept, CompletedWasMailed, MailsCounted, FilesKept,
       LeftoversNeedFault, Running
  <1> QED
    BY <1>1, TickKeeps, RunKeeps, CrashKeeps DEF Next, Over

LEMMA KeptAlways == Spec => []Kept
  <1>1. Init => Kept
    BY StagesDistinct DEF Init, Kept, RunsKept, MailsKept, CompletedWasMailed, MailsCounted,
       FilesKept, LeftoversNeedFault, Running
  <1>2. TypeOK /\ Kept /\ [Next]_vars => Kept'
    BY KeptStep
  <1> QED
    BY <1>1, <1>2, TypeCorrect, PTL DEF Spec

\* No two runs for one minute overlap, and activeRuns names the one under way.
THEOREM RunsCorrect == Spec => []OneRunPerMinute
  <1>1. TypeOK /\ Kept => OneRunPerMinute
    BY TicksAssumption DEF TypeOK, Kept, RunsKept, OneRunPerMinute, Running
  <1> QED
    BY <1>1, KeptAlways, TypeCorrect, PTL

\* Who is told that the backup completed is told of a mail that arrived.
THEOREM MailsCorrect == Spec => []CompletedWasMailed
  <1>1. Kept => CompletedWasMailed
    BY DEF Kept, MailsKept
  <1> QED
    BY <1>1, KeptAlways, PTL

\* A backup is mailed twice only after a lost confirmation or a crash.
THEOREM DuplicatesExplained == Spec => []DuplicatesNeedDoubt
  <1>1. TypeOK /\ Kept => DuplicatesNeedDoubt
    BY DEF TypeOK, Kept, MailsCounted, DuplicatesNeedDoubt
  <1> QED
    BY <1>1, KeptAlways, TypeCorrect, PTL

\* A directory outlives its run only by one of the faults named.
THEOREM LeftoversExplained == Spec => []LeftoversNeedFault
  <1>1. Kept => LeftoversNeedFault
    BY DEF Kept, FilesKept
  <1> QED
    BY <1>1, KeptAlways, PTL

----------------------------------------------------------------------------
(* Ticks that await a run.                                                 *)

\* The minute of a tick that joined a run is taken.
Joined == \A t \in Ticks : pc[t] = "joined" => activeRuns[at[t]] # NoTick

LEMMA JoinedStep ==
    ASSUME TypeOK, RunsKept, Joined, [Next]_vars
    PROVE  Joined'
  <1>1. ASSUME NEW t \in Ticks, Skip(t) \/ AnswerFromCache(t)
        PROVE  Joined'
    BY <1>1 DEF Skip, AnswerFromCache, Answer, Joined, TypeOK
  <1>2. ASSUME NEW t \in Ticks, Join(t) PROVE Joined'
    BY <1>2 DEF Join, Joined, TypeOK
  <1>3. ASSUME NEW t \in Ticks, Start(t) PROVE Joined'
    BY <1>3, TicksAssumption DEF Start, Joined, TypeOK
  <1>4. ASSUME NEW r \in Ticks, NEW status, Finish(r, status), at' = at PROVE Joined'
    <2>1. /\ \A t \in Ticks : pc'[t] = "joined" => pc[t] = "joined" /\ at[t] # at[r]
          /\ \A m \in Minutes \ {at[r]} : activeRuns'[m] = activeRuns[m]
      BY <1>4 DEF Finish, TypeOK
    <2> QED
      BY <1>4, <2>1 DEF Joined, TypeOK
  <1>5. ASSUME NEW r \in Ticks, NEW place \in Stages, Continue(r, place), at' = at
        PROVE  Joined'
    BY <1>5, StagesDistinct DEF Continue, Joined, TypeOK
  <1>6. ASSUME NEW r \in Ticks, Run(r) PROVE Joined'
    <2>1. /\ at' = at
          /\ \/ \E status \in Answers : Finish(r, status)
             \/ \E place \in Stages : Continue(r, place)
      BY <1>6 DEF Run, MakeWorkspace, Dump, BuildArtifact, Send, Cleanup, Answers, Stages
    <2> QED
      BY <1>4, <1>5, <2>1
  <1>7. CASE Crash
    BY <1>7 DEF Crash, Joined
  <1>8. CASE UNCHANGED vars
    BY <1>8 DEF vars, Joined
  <1> QED
    BY <1>1, <1>2, <1>3, <1>6, <1>7, <1>8 DEF Next, Tick, Over

\* No tick awaits a run that is over: whatever fails, a run answers with its own
\* tick every other that joined it.
THEOREM AwaitedCorrect == Spec => []AwaitedRunsGoOn
  <1>1. Init => Joined
    BY DEF Init, Joined
  <1>2. TypeOK /\ Kept /\ Joined /\ [Next]_vars => Joined'
    BY JoinedStep DEF Kept
  <1>3. TypeOK /\ Kept /\ Joined => AwaitedRunsGoOn
    BY DEF TypeOK, Kept, RunsKept, Joined, AwaitedRunsGoOn
  <1> QED
    BY <1>1, <1>2, <1>3, KeptAlways, TypeCorrect, PTL DEF Spec
=============================================================================
