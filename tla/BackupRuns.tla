----------------------------- MODULE BackupRuns -----------------------------
(***************************************************************************)
(* The scheduled database backup of src/backup: ticks of the cron, the run *)
(* each of them starts, joins or is answered from, and what a run leaves   *)
(* behind, a mail in the recipient's mailbox and a workspace on disk.      *)
(*                                                                         *)
(* A run is identified by the tick that started it; its key, of the form   *)
(* year-month-day-hour-minute, by the minute the tick was triggered at.    *)
(* `seen` records the kinds of fault that have happened; no step reads it. *)
(* A database URL is configured: without one a tick throws at once.        *)
(***************************************************************************)
EXTENDS Naturals, FiniteSets

CONSTANTS
    Ticks,      \* calls of runBackupTick, each made at most once
    Minutes,    \* run keys
    Window,     \* those isWithinBackupWindow accepts
    NoTick,     \* no run
    Faults      \* the kinds of fault that may happen

FaultKinds == {"mkdtemp", "dump", "stat", "send", "answer", "cleanup", "crash"}

ASSUME TicksAssumption == NoTick \notin Ticks
ASSUME WindowAssumption == Window \subseteq Minutes
ASSUME FaultsAssumption == Faults \subseteq FaultKinds

VARIABLES
    activeRuns,     \* Minutes -> the run under way
    completedRuns,  \* Minutes -> the run that sent the mail
    at,             \* the minute each tick was triggered at
    pc,             \* the await each tick is at
    answer,         \* the status each tick was answered with
    by,             \* the run that answer is from
    mailbox,        \* Minutes -> mails that arrived
    mailed,         \* runs whose mail arrived
    workspaces,     \* runs whose directory is on disk
    seen            \* kinds of fault so far

vars == <<activeRuns, completedRuns, at, pc, answer, by, mailbox, mailed,
          workspaces, seen>>

\* "joined" awaits a run of another tick; the others are those of
\* performBackupRun, named for what is awaited.
Stages == {"mkdtemp", "dump", "stat", "send", "undump", "sent", "unsent"}
Places == Stages \cup {"idle", "joined", "done"}
Answers == {"none", "skipped", "completed", "failed", "rejected"}

TypeOK ==
    /\ activeRuns \in [Minutes -> Ticks \cup {NoTick}]
    /\ completedRuns \in [Minutes -> Ticks \cup {NoTick}]
    /\ at \in [Ticks -> Minutes]
    /\ pc \in [Ticks -> Places]
    /\ answer \in [Ticks -> Answers]
    /\ by \in [Ticks -> Ticks \cup {NoTick}]
    /\ mailbox \in [Minutes -> Nat]
    /\ mailed \subseteq Ticks
    /\ workspaces \subseteq Ticks
    /\ seen \subseteq Faults

Init ==
    /\ activeRuns = [m \in Minutes |-> NoTick]
    /\ completedRuns = [m \in Minutes |-> NoTick]
    /\ at \in [Ticks -> Minutes]
    /\ pc = [t \in Ticks |-> "idle"]
    /\ answer = [t \in Ticks |-> "none"]
    /\ by = [t \in Ticks |-> NoTick]
    /\ mailbox = [m \in Minutes |-> 0]
    /\ mailed = {}
    /\ workspaces = {}
    /\ seen = {}

Running(t) == pc[t] \in Stages

----------------------------------------------------------------------------
(* A tick: runBackupTick and runScheduledBackup.                           *)

Answer(t, status, run) ==
    /\ pc' = [pc EXCEPT ![t] = "done"]
    /\ answer' = [answer EXCEPT ![t] = status]
    /\ by' = [by EXCEPT ![t] = run]

\* Outside the window the tick is skipped.
Skip(t) ==
    /\ pc[t] = "idle" /\ at[t] \notin Window
    /\ Answer(t, "skipped", NoTick)
    /\ UNCHANGED <<activeRuns, completedRuns, at, mailbox, mailed, workspaces, seen>>

\* The run of the minute has completed: its result is returned again.
AnswerFromCache(t) ==
    /\ pc[t] = "idle" /\ at[t] \in Window
    /\ completedRuns[at[t]] # NoTick
    /\ Answer(t, "completed", completedRuns[at[t]])
    /\ UNCHANGED <<activeRuns, completedRuns, at, mailbox, mailed, workspaces, seen>>

\* The run of the minute is under way: its promise is returned.
Join(t) ==
    /\ pc[t] = "idle" /\ at[t] \in Window
    /\ completedRuns[at[t]] = NoTick /\ activeRuns[at[t]] # NoTick
    /\ pc' = [pc EXCEPT ![t] = "joined"]
    /\ UNCHANGED <<activeRuns, completedRuns, at, answer, by, mailbox, mailed,
                   workspaces, seen>>

\* Mutant of Start: only completed runs are looked up.
StartTwice(t) ==
    /\ pc[t] = "idle" /\ at[t] \in Window
    /\ completedRuns[at[t]] = NoTick
    /\ activeRuns' = [activeRuns EXCEPT ![at[t]] = t]
    /\ pc' = [pc EXCEPT ![t] = "mkdtemp"]
    /\ UNCHANGED <<completedRuns, at, answer, by, mailbox, mailed, workspaces, seen>>

\* Neither: the tick starts the run, up to the await of its directory.
Start(t) ==
    /\ pc[t] = "idle" /\ at[t] \in Window
    /\ completedRuns[at[t]] = NoTick /\ activeRuns[at[t]] = NoTick
    /\ activeRuns' = [activeRuns EXCEPT ![at[t]] = t]
    /\ pc' = [pc EXCEPT ![t] = "mkdtemp"]
    /\ UNCHANGED <<completedRuns, at, answer, by, mailbox, mailed, workspaces, seen>>

----------------------------------------------------------------------------
(* A run: performBackupRun.                                                *)

\* Mutant of Finish: the ticks that joined the run are not told.
FinishAlone(r, status) ==
    /\ Answer(r, status, r)
    /\ activeRuns' = [activeRuns EXCEPT ![at[r]] = NoTick]

\* The run settles: it leaves activeRuns and every tick awaiting it is answered.
Finish(r, status) ==
    LET told == {r} \cup {t \in Ticks : pc[t] = "joined" /\ at[t] = at[r]} IN
    /\ pc' = [t \in Ticks |-> IF t \in told THEN "done" ELSE pc[t]]
    /\ answer' = [t \in Ticks |-> IF t \in told THEN status ELSE answer[t]]
    /\ by' = [t \in Ticks |-> IF t \in told THEN r ELSE by[t]]
    /\ activeRuns' = [activeRuns EXCEPT ![at[r]] = NoTick]

Continue(r, place) ==
    /\ pc' = [pc EXCEPT ![r] = place]
    /\ UNCHANGED <<answer, by, activeRuns>>

\* A fault of this kind happens, if the instance has it.
Suffer(kind) == kind \in Faults /\ seen' = seen \cup {kind}

\* The directory of the run: without it the run rejects.
MakeWorkspace(r) ==
    /\ pc[r] = "mkdtemp"
    /\ \/ /\ workspaces' = workspaces \cup {r}
          /\ Continue(r, "dump")
          /\ UNCHANGED seen
       \/ /\ Suffer("mkdtemp")
          /\ Finish(r, "rejected")
          /\ UNCHANGED workspaces
    /\ UNCHANGED <<completedRuns, at, mailbox, mailed>>

\* createDatabaseBackup: pg_dump ends.
Dump(r) ==
    /\ pc[r] = "dump"
    /\ \/ Continue(r, "stat") /\ UNCHANGED seen
       \/ Suffer("dump") /\ Continue(r, "undump")
    /\ UNCHANGED <<completedRuns, at, mailbox, mailed, workspaces>>

\* buildArtifact: outside the try blocks, so an error rejects the run.
BuildArtifact(r) ==
    /\ pc[r] = "stat"
    /\ \/ Continue(r, "send") /\ UNCHANGED seen
       \/ Suffer("stat") /\ Finish(r, "rejected")
    /\ UNCHANGED <<completedRuns, at, mailbox, mailed, workspaces>>

Arrive(r) ==
    /\ mailbox' = [mailbox EXCEPT ![at[r]] = @ + 1]
    /\ mailed' = mailed \cup {r}

\* Mutant of Send: the run counts as completed although the send failed.
SendRecordedFirst(r) ==
    /\ pc[r] = "send"
    /\ completedRuns' = [completedRuns EXCEPT ![at[r]] = r]
    /\ \/ Arrive(r) /\ Continue(r, "sent") /\ UNCHANGED seen
       \/ Suffer("send") /\ Continue(r, "unsent") /\ UNCHANGED <<mailbox, mailed>>
       \/ Suffer("answer") /\ Arrive(r) /\ Continue(r, "unsent")
    /\ UNCHANGED <<at, workspaces>>

\* Mutant of Send: a completed run is not recorded.
SendForgets(r) ==
    /\ pc[r] = "send"
    /\ \/ Arrive(r) /\ Continue(r, "sent") /\ UNCHANGED seen
       \/ Suffer("send") /\ Continue(r, "unsent") /\ UNCHANGED <<mailbox, mailed>>
       \/ Suffer("answer") /\ Arrive(r) /\ Continue(r, "unsent")
    /\ UNCHANGED <<completedRuns, at, workspaces>>

\* sendBackupEmail: the mail arrives and is confirmed; or it does not arrive;
\* or it arrives and the confirmation does not.
Send(r) ==
    /\ pc[r] = "send"
    /\ \/ /\ Arrive(r)
          /\ completedRuns' = [completedRuns EXCEPT ![at[r]] = r]
          /\ Continue(r, "sent")
          /\ UNCHANGED seen
       \/ /\ Suffer("send")
          /\ Continue(r, "unsent")
          /\ UNCHANGED <<completedRuns, mailbox, mailed>>
       \/ /\ Suffer("answer")
          /\ Arrive(r)
          /\ Continue(r, "unsent")
          /\ UNCHANGED completedRuns
    /\ UNCHANGED <<at, workspaces>>

\* Mutant of Cleanup: only a completed run removes its directory.
CleanupIfSent(r) ==
    /\ pc[r] \in {"undump", "sent", "unsent"}
    /\ Finish(r, IF pc[r] = "sent" THEN "completed" ELSE "failed")
    /\ workspaces' = IF pc[r] = "sent" THEN workspaces \ {r} ELSE workspaces
    /\ UNCHANGED <<completedRuns, at, mailbox, mailed, seen>>

\* cleanupWorkspace, after which the run ends whether it worked or not.
Cleanup(r) ==
    /\ pc[r] \in {"undump", "sent", "unsent"}
    /\ Finish(r, IF pc[r] = "sent" THEN "completed" ELSE "failed")
    /\ \/ workspaces' = workspaces \ {r} /\ UNCHANGED seen
       \/ Suffer("cleanup") /\ UNCHANGED workspaces
    /\ UNCHANGED <<completedRuns, at, mailbox, mailed>>

\* The process dies and starts again: it knows of no run, and nobody answers
\* the ticks.  A mail on its way may still arrive.
Crash ==
    /\ Suffer("crash")
    /\ \/ UNCHANGED <<mailbox, mailed>>
       \/ \E r \in Ticks : pc[r] = "send" /\ Arrive(r)
    /\ activeRuns' = [m \in Minutes |-> NoTick]
    /\ completedRuns' = [m \in Minutes |-> NoTick]
    /\ pc' = [t \in Ticks |-> IF pc[t] = "idle" THEN "idle" ELSE "done"]
    /\ UNCHANGED <<at, answer, by, workspaces>>

----------------------------------------------------------------------------
Tick(t) == Skip(t) \/ AnswerFromCache(t) \/ Join(t) \/ Start(t)

Run(r) ==
    \/ MakeWorkspace(r) \/ Dump(r) \/ BuildArtifact(r) \/ Send(r) \/ Cleanup(r)

\* The ticks are over: nothing more happens.
Over == (\A t \in Ticks : pc[t] = "done") /\ UNCHANGED vars

Next ==
    \/ \E t \in Ticks : Tick(t) \/ Run(t)
    \/ Crash
    \/ Over

Spec == Init /\ [][Next]_vars

\* pg_dump, the mail server and the disk answer, well or badly; the code sets none of
\* them a timeout, so that this is assumed of the environment.
FairSpec == Spec /\ \A r \in Ticks : WF_vars(Run(r))

----------------------------------------------------------------------------
(* Properties.                                                             *)

\* activeRuns names, for every minute, the one run under way: no two overlap,
\* no run is forgotten before its cleanup, none stays after it.
OneRunPerMinute ==
    \A m \in Minutes :
        {r \in Ticks : Running(r) /\ at[r] = m} = {activeRuns[m]} \ {NoTick}

\* A tick that is told the backup completed is told of a run of its own minute
\* whose mail has arrived.
CompletedWasMailed ==
    \A t \in Ticks : answer[t] = "completed" =>
        by[t] \in mailed /\ at[by[t]] = at[t]

\* Two mails for one minute mean that a confirmation was lost or the process
\* died: no other fault, and no retry, sends a backup twice.
DuplicatesNeedDoubt ==
    (\E m \in Minutes : mailbox[m] > 1) => seen \cap {"answer", "crash"} # {}

\* A directory that outlives its run means that its removal failed, the process
\* died, or the finished dump could not be read.
LeftoversNeedFault ==
    (\E r \in workspaces : ~Running(r)) => seen \cap {"cleanup", "crash", "stat"} # {}

\* A tick that awaits a run is answered, or its process dies.
TicksAnswered == \A t \in Ticks : pc[t] = "joined" \/ Running(t) ~> pc[t] = "done"

\* What that rests on, as safety: a tick that awaits a run awaits the one of its
\* minute, which is still under way and so has it among those it will answer.
AwaitedRunsGoOn ==
    \A t \in Ticks : pc[t] = "joined" =>
        \E r \in Ticks : activeRuns[at[t]] = r /\ Running(r) /\ at[r] = at[t]
=============================================================================
