---------------------------- MODULE MonthlyUsage ----------------------------
(***************************************************************************)
(* The monthly usage sync of src/sync/sync.service.ts: one question per    *)
(* SIM, several at a time, behind a circuit breaker; one per batch of      *)
(* master SIMs; then the table monthly_data_usage, batch by batch.         *)
(*                                                                         *)
(* One account and one run at a time (LockMatchesRuns of SyncJobs), so no  *)
(* SIM is created or made a master meanwhile; an operator may reset SIMs.  *)
(* Retries and delays are in the answer: it comes or it does not.  Of the  *)
(* two numbers of a row the model keeps dataUsedMB.                        *)
(***************************************************************************)
EXTENDS Integers, Sequences, FiniteSets

CONSTANTS
    Normal,         \* the SIMs that are no masters, in the order of the query
    Masters,        \* the master SIMs
    Unasked,        \* numbers, of SIMs or of none, that the upstream may answer with
                    \* though it was asked about others
    Concurrency,    \* concurrency of fetchAllDetailPlans
    MasterBatch,    \* batchSize of fetchMasterSimUsage
    SaveBatch,      \* rows of a transaction
    MaxFailing,     \* MAX_CONSECUTIVE_FAILURES
    MaxMB,          \* bound: usage the upstream reports
    LastMonth,      \* bound: the calendar, from month 1
    MaxRuns,        \* bound: runs
    MaxResets       \* bound: resets by operators

Elements(seq) == {seq[i] : i \in DOMAIN seq}
Known == Elements(Normal) \cup Elements(Masters)
Asked == Len(Normal) + Len(Masters)

ASSUME SimsAssumption ==
    /\ Normal \in Seq(Known) /\ Masters \in Seq(Known)
    /\ Cardinality(Known) = Asked
ASSUME SizesAssumption ==
    {Concurrency, MasterBatch, SaveBatch, MaxFailing, LastMonth} \subseteq Nat \ {0}
ASSUME BoundsAssumption == MaxMB \in Nat /\ MaxRuns \in Nat /\ MaxResets \in Nat

VARIABLES
    monthly,    \* table monthly_data_usage: a function of the <<sim, month>> it holds
    today,      \* the month it is
    stage,      \* the part of the run it is in
    month,      \* currentMonth
    asked,      \* index of the next normal SIM
    failing,    \* consecutiveFailures
    next,       \* index of the next master SIM
    plans,      \* detailPlanMap: the usage of the SIMs that were answered
    totals,     \* masterUsageMap
    saved,      \* the entries saved so far
    report,     \* the result
    reset,      \* history: the SIMs reset since the run began
    runs, resets

run == <<stage, month, asked, failing, next, plans, totals, saved, report>>
vars == <<monthly, today, run, reset, runs, resets>>

Months == 1..LastMonth
Usage(S) == [S -> 0..MaxMB]
Stages == {"idle", "plans", "masters", "save", "done"}
NoReport == [success |-> 0, failed |-> 0, total |-> 0]

TypeOK ==
    /\ DOMAIN monthly \subseteq Known \X Months /\ monthly \in Usage(DOMAIN monthly)
    /\ today \in Months /\ month \in Months /\ stage \in Stages
    /\ asked \in Nat /\ next \in Nat /\ failing \in 0..MaxFailing
    /\ DOMAIN plans \subseteq Elements(Normal) /\ plans \in Usage(DOMAIN plans)
    /\ DOMAIN totals \subseteq Elements(Masters) \cup Unasked
    /\ totals \in Usage(DOMAIN totals)
    /\ saved \subseteq DOMAIN plans \cup DOMAIN totals
    /\ report \in [success : Nat, failed : Nat, total : Nat]
    /\ reset \subseteq Known /\ runs \in 0..MaxRuns /\ resets \in 0..MaxResets


Empty == [x \in {} |-> x]

\* Earlier runs have left some rows of this month.
Init ==
    /\ \E S \in SUBSET Known : monthly \in Usage(S \X {1})
    /\ today = 1
    /\ stage = "idle" /\ month = 1 /\ asked = 1 /\ failing = 0 /\ next = 1
    /\ plans = Empty /\ totals = Empty /\ saved = {} /\ report = NoReport
    /\ reset = {} /\ runs = 0 /\ resets = 0

----------------------------------------------------------------------------
(* syncMonthlyUsageInTenant.                                                *)

Begin ==
    /\ stage \in {"idle", "done"} /\ stage' = "plans" /\ month' = today
    /\ runs < MaxRuns /\ runs' = runs + 1
    /\ asked' = 1 /\ failing' = 0 /\ next' = 1
    /\ plans' = Empty /\ totals' = Empty /\ saved' = {} /\ report' = NoReport
    /\ reset' = {}
    /\ UNCHANGED <<monthly, today, resets>>

\* What follows position i of a list, at most n of it.
Batch(seq, i, n) == {seq[j] : j \in {k \in DOMAIN seq : i <= k /\ k < i + n}}

\* The map with what was answered added.
Answered(map, answer) ==
    [s \in DOMAIN map \cup DOMAIN answer |->
        IF s \in DOMAIN answer THEN answer[s] ELSE map[s]]

\* Mutant of Failing: a success does not take the failures back.
FailingEver(answer) == IF DOMAIN answer # {} THEN failing ELSE failing + 1

\* consecutiveFailures after a batch.
Failing(answer) == IF DOMAIN answer # {} THEN 0 ELSE failing + 1

\* The circuit breaker.
Tripped == failing >= MaxFailing

\* A batch of fetchAllDetailPlans: each SIM is answered or not.
FetchPlans ==
    /\ stage = "plans" /\ asked <= Len(Normal) /\ ~Tripped
    /\ \E S \in SUBSET Batch(Normal, asked, Concurrency) : \E answer \in Usage(S) :
          /\ plans' = Answered(plans, answer)
          /\ failing' = Failing(answer)
    /\ asked' = asked + Concurrency
    /\ UNCHANGED <<monthly, today, stage, month, next, totals, saved, report, reset,
                   runs, resets>>

\* All SIMs were asked about, or the breaker tripped.
LeavePlans ==
    /\ stage = "plans" /\ (asked > Len(Normal) \/ Tripped)
    /\ stage' = "masters"
    /\ UNCHANGED <<monthly, today, month, asked, failing, next, plans, totals, saved,
                   report, reset, runs, resets>>

\* A batch of fetchMasterSimUsage: none of it is answered if the question fails, and
\* an answer about another number is taken all the same.
FetchMasters ==
    /\ stage = "masters" /\ next <= Len(Masters)
    /\ \E S \in SUBSET (Batch(Masters, next, MasterBatch) \cup Unasked) :
       \E answer \in Usage(S) : totals' = Answered(totals, answer)
    /\ next' = next + MasterBatch
    /\ UNCHANGED <<monthly, today, stage, month, asked, failing, plans, saved, report, reset,
                   runs, resets>>

LeaveMasters ==
    /\ stage = "masters" /\ next > Len(Masters)
    /\ stage' = "save"
    /\ UNCHANGED <<monthly, today, month, asked, failing, next, plans, totals, saved,
                   report, reset, runs, resets>>

\* allEntries
Entries == Answered(plans, totals)

\* The order of the entries: normal SIMs as they were asked about, then what else
\* the upstream answered for the masters.
Before(s, other) ==
    /\ s \in DOMAIN plans
    /\ \E i \in DOMAIN Normal :
          s = Normal[i] /\ \A j \in 1..i : other = Normal[j] => other \notin DOMAIN plans

\* Mutant of RowMonth: the calendar is looked up at the write.
RowMonthNow == today

\* The month of the rows.
RowMonth == month

\* Mutant of AllSaved: the last, smaller batch is left out.
AllSavedShort == Cardinality(DOMAIN Entries \ saved) < SaveBatch

\* The loop over batches of entries is through.
AllSaved == DOMAIN Entries = saved

Throw == stage' = "idle"

\* A transaction of upserts: up to SaveBatch entries, fewer only at the end.  It is
\* refused if one of them is of no SIM (a foreign key), and the run fails.
Save ==
    /\ stage = "save" /\ ~AllSaved
    /\ \E S \in SUBSET (DOMAIN Entries \ saved) :
       LET rows == S \X {RowMonth} IN
          /\ S # {} /\ Cardinality(S) <= SaveBatch
          /\ Cardinality(S) < SaveBatch => S = DOMAIN Entries \ saved
          /\ \A s \in S, other \in DOMAIN Entries \ (saved \cup S) : ~Before(other, s)
          /\ IF S \subseteq Known
             THEN /\ monthly' = Answered(monthly, [r \in rows |-> Entries[r[1]]])
                  /\ saved' = saved \cup S
                  /\ UNCHANGED stage
             ELSE Throw /\ UNCHANGED <<monthly, saved>>
    /\ UNCHANGED <<today, month, asked, failing, next, plans, totals, report, reset,
                   runs, resets>>

\* The numbers of the result.
Finish ==
    /\ stage = "save" /\ AllSaved
    /\ stage' = "done"
    /\ report' = [success |-> Cardinality(DOMAIN Entries),
                  failed |-> Asked - Cardinality(DOMAIN Entries), total |-> Asked]
    /\ UNCHANGED <<monthly, today, month, asked, failing, next, plans, totals, saved,
                   reset, runs, resets>>

\* An await throws (the token, the database), or the process dies.
Abort ==
    /\ stage \notin {"idle", "done"} /\ Throw
    /\ UNCHANGED <<monthly, today, month, asked, failing, next, plans, totals, saved,
                   report, reset, runs, resets>>

Run == \/ Begin \/ FetchPlans \/ LeavePlans \/ FetchMasters \/ LeaveMasters
       \/ Save \/ Finish \/ Abort

----------------------------------------------------------------------------
\* An operator resets a SIM: its rows of all months go.
Reset ==
    /\ resets < MaxResets /\ resets' = resets + 1
    /\ \E s \in Known :
          /\ monthly' = [r \in {q \in DOMAIN monthly : q[1] # s} |-> monthly[r]]
          /\ reset' = reset \cup {s}
    /\ UNCHANGED <<today, run, runs>>

\* The calendar moves on.
MonthEnds ==
    /\ today < LastMonth /\ today' = today + 1
    /\ UNCHANGED <<monthly, run, reset, runs, resets>>

Next == Run \/ Reset \/ MonthEnds

Spec == Init /\ [][Next]_vars

----------------------------------------------------------------------------
(* Properties.                                                              *)

\* The result of a run counts every SIM once: as a success with its usage in the
\* table, unless it was reset meanwhile, or as failed; never more than there are,
\* though the upstream may answer with numbers nobody asked about.
ReportTrue ==
    stage = "done" =>
        /\ report.success + report.failed = Cardinality(Known) /\ report.failed >= 0
        /\ report.success = Cardinality(saved) /\ saved \subseteq Known
        /\ \A s \in saved \ reset :
              /\ <<s, month>> \in DOMAIN monthly
              /\ monthly[<<s, month>>] = Entries[s]

\* The last n batches of normal SIMs had no answer.
Silent(n) ==
    /\ asked > n * Concurrency
    /\ \A i \in DOMAIN Normal :
          asked - n * Concurrency <= i /\ i < asked => Normal[i] \notin DOMAIN plans

\* The circuit breaker stops the questions after MaxFailing batches without any
\* answer, and only then: SIMs are left out for no other reason, and no more are
\* asked about in vain.
BreakerJustified ==
    /\ stage \in {"masters", "save", "done"} => asked > Len(Normal) \/ Silent(MaxFailing)
    /\ ~Silent(MaxFailing + 1)

\* A run writes rows of the month it began in only, and of a SIM it has an answer
\* for: a failing upstream never overwrites what an earlier run has stored.
KeepsUnanswered ==
    [][Run => \A r \in (Known \X Months) :
         \/ r \notin DOMAIN monthly /\ r \notin DOMAIN monthly'
         \/ r \in DOMAIN monthly \cap DOMAIN monthly' /\ monthly[r] = monthly'[r]
         \/ r[2] = month /\ r[1] \in DOMAIN plans \cup DOMAIN totals]_vars
=============================================================================
