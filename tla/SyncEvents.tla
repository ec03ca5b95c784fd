----------------------------- MODULE SyncEvents -----------------------------
(***************************************************************************)
(* The sync engine with its watchers: the server-sent event stream of      *)
(* src/sync/sync.controller.ts on top of SyncJobs.  A stream sends the     *)
(* statuses of its account as it finds them, and only then subscribes to   *)
(* the updates (rxjs concat).  The read and the subscription are separate  *)
(* microtasks of one turn: what another chain that waited for the same     *)
(* load does between them is not sent.                                     *)
(***************************************************************************)
EXTENDS SyncJobs

CONSTANTS
    Streams,    \* the event streams clients open
    Watched     \* Streams -> Accounts: the account of the client

ASSUME WatchedAssumption == Watched \in [Streams -> Accounts]

VARIABLES
    stage,      \* "none", "load" (getSyncStatus), "gap" (read), "live" (subscribed)
    view        \* the statuses of the four jobs as last sent

streams == <<stage, view>>
engine == <<memory, row, plans, calls, clock, crashes>>
allVars == <<engine, streams>>

Snapshot(a) == [j \in Jobs |-> status[<<a, j>>]]

EventsInit ==
    /\ Init
    /\ stage = [s \in Streams |-> "none"]
    /\ view = [s \in Streams |-> [j \in Jobs |-> Idle]]

\* No turn of the event loop is at work between the read and the subscription
\* of a stream: requests, answers and timers have turns of their own.
Quiet == \A s \in Streams : stage[s] # "gap"

----------------------------------------------------------------------------
(* The engine among its streams.                                           *)

\* Mutant of Emitted: the correction of a completion not saved is not sent.
EmittedUpdates(a) ==
    Loaded(a) /\ \E j \in Jobs : Len(chain'[<<a, j>>]) > Len(chain[<<a, j>>])

\* updateSyncStatus ran for the account (its write is queued), or took back the
\* lastSyncedAt of a completion: both call syncStatusSubject.next.  A load of
\* the persisted statuses does not.
Emitted(a) ==
    Loaded(a) /\ \E j \in Jobs :
        \/ Len(chain'[<<a, j>>]) > Len(chain[<<a, j>>])
        \/ status'[<<a, j>>] # status[<<a, j>>]

\* Every subscribed stream of the account is sent the statuses of all four jobs.
Deliver ==
    view' = [s \in Streams |->
                IF stage[s] = "live" /\ Emitted(Watched[s])
                THEN [j \in Jobs |-> status'[<<Watched[s], j>>]] ELSE view[s]]

\* The chains that waited for a load with a stream come to their checks in the
\* turn of the stream; everything else needs a turn of its own.
EngineStep ==
    /\ \/ Quiet /\ Work
       \/ \E c \in Calls : Enter(c) \/ Busy(c)
    /\ Deliver
    /\ UNCHANGED stage

\* A progress update that is throttled: not written, but sent.
Report(c) ==
    /\ Quiet
    /\ pc[c] = "work"
    /\ view' = [s \in Streams |->
                   IF stage[s] = "live" /\ Watched[s] = Account(c)
                   THEN Snapshot(Account(c)) ELSE view[s]]
    /\ UNCHANGED <<engine, stage>>

CrashAll ==
    /\ Crash
    /\ stage' = [s \in Streams |-> "none"]
    /\ view' = [s \in Streams |-> [j \in Jobs |-> Idle]]

----------------------------------------------------------------------------
(* GET /sync/events.                                                       *)

\* The statuses are there: read and subscription follow at once.  Otherwise the
\* stream waits for their load, or starts it.
Open(s) ==
    /\ stage[s] = "none" /\ Quiet
    /\ IF Loaded(Watched[s])
       THEN /\ stage' = [stage EXCEPT ![s] = "live"]
            /\ view' = [view EXCEPT ![s] = Snapshot(Watched[s])]
       ELSE /\ stage' = [stage EXCEPT ![s] = "load"]
            /\ UNCHANGED view
    /\ BeginLoad(Watched[s])
    /\ UNCHANGED <<status, active, token, chain, settled, row, plans,
                   calls, clock, crashes>>

\* The awaited load is over: getSyncStatus returns the statuses.
Read(s) ==
    /\ stage[s] = "load" /\ Loaded(Watched[s])
    /\ stage' = [stage EXCEPT ![s] = "gap"]
    /\ view' = [view EXCEPT ![s] = Snapshot(Watched[s])]
    /\ UNCHANGED engine

\* The promise of the read has resolved: sent, completed, and concat goes on
\* to watchSyncStatus.
Subscribe(s) ==
    /\ stage[s] = "gap"
    /\ stage' = [stage EXCEPT ![s] = "live"]
    /\ UNCHANGED <<engine, view>>

\* The client goes away.
Close(s) ==
    /\ stage[s] # "none" /\ Quiet
    /\ stage' = [stage EXCEPT ![s] = "none"]
    /\ view' = [view EXCEPT ![s] = [j \in Jobs |-> Idle]]
    /\ UNCHANGED engine

----------------------------------------------------------------------------
EventsNext ==
    \/ EngineStep
    \/ \E c \in Calls : Report(c)
    \/ CrashAll
    \/ \E s \in Streams : Open(s) \/ Read(s) \/ Subscribe(s) \/ Close(s)

EventsSpec == EventsInit /\ [][EventsNext]_allVars

\* The streams advance with the engine; no client has to come or to go.
EventsFairSpec ==
    /\ EventsSpec /\ Fairness
    /\ \A s \in Streams : WF_allVars(Read(s)) /\ WF_allVars(Subscribe(s))

----------------------------------------------------------------------------
Shows(s, j) == view[s][j]
Actual(s, j) == status[<<Watched[s], j>>]
AtWork(s, j) == \E c \in Calls : Works(c, <<Watched[s], j>>)

\* A subscribed client may have missed the start of a job, if the job began
\* between its read and its subscription, but nothing else: whatever job it
\* sees otherwise than it is has a call at work on it, which is still to report.
StreamCurrent ==
    \A s \in Streams, j \in Jobs :
        stage[s] = "live" /\ Shows(s, j) # Actual(s, j) =>
            Actual(s, j).state = "running" /\ AtWork(s, j)

\* A client that stays is shown the end of every job at work, with the result
\* the process keeps, also when it missed the start and every write is lost.
StreamShowsEnd ==
    \A s \in Streams, j \in Jobs :
        stage[s] = "live" /\ AtWork(s, j) ~>
            \/ stage[s] # "live"
            \/ Shows(s, j) = Actual(s, j) /\ Shows(s, j).state # "running"

\* What that rests on, as safety: no job ends behind a client's back.  The step in
\* which the last call at work on it stops, by whatever outcome, is also the one in
\* which every client that stays is shown that outcome.
EndsAreShown ==
    [][\A s \in Streams, j \in Jobs :
          stage[s] = "live" /\ stage'[s] = "live" /\ AtWork(s, j) /\ ~AtWork(s, j)' =>
              Shows(s, j)' = Actual(s, j)' /\ Actual(s, j)'.state # "running"]_allVars
=============================================================================
