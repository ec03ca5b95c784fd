------------------------- MODULE MonthlyUsageProofs -------------------------
(***************************************************************************)
(* Proofs about MonthlyUsage, for any SIMs, batch sizes, breaker and       *)
(* answers: when the circuit breaker trips, what a run leaves alone, and   *)
(* that its numbers add up.                                                *)
(***************************************************************************)
EXTENDS MonthlyUsage, FunctionTheorems, FiniteSetTheorems, TLAPS

USE SimsAssumption, SizesAssumption, BoundsAssumption

----------------------------------------------------------------------------
(* The SIMs.                                                               *)

LEMMA UpTo ==
    ASSUME NEW n \in Nat
    PROVE  IsFiniteSet(1..n) /\ Cardinality(1..n) = n
  <1>1. n \in Int /\ 1 \in Int
    OBVIOUS
  <1>2. IsFiniteSet(1..n) /\ Cardinality(1..n) = IF 1 > n THEN 0 ELSE n - 1 + 1
    BY <1>1, FS_Interval
  <1>3. (IF 1 > n THEN 0 ELSE n - 1 + 1) = n
    OBVIOUS
  <1> QED
    BY <1>2, <1>3

LEMMA ElementsFinite ==
    ASSUME NEW T, NEW seq \in Seq(T)
    PROVE  /\ Len(seq) \in Nat /\ DOMAIN seq = 1..Len(seq)
           /\ IsFiniteSet(Elements(seq)) /\ Cardinality(Elements(seq)) \in Nat
           /\ Cardinality(Elements(seq)) <= Len(seq)
           /\ Cardinality(Elements(seq)) = Len(seq) =>
                 \A i, j \in DOMAIN seq : seq[i] = seq[j] => i = j
  <1>1. Len(seq) \in Nat /\ DOMAIN seq = 1..Len(seq)
    OBVIOUS
  <1>2. IsFiniteSet(1..Len(seq)) /\ Cardinality(1..Len(seq)) = Len(seq)
    BY <1>1, UpTo
  <1> DEFINE f == [i \in 1..Len(seq) |-> seq[i]]
  <1>3. f \in Surjection(1..Len(seq), Elements(seq))
    <2>1. \A i \in 1..Len(seq) : seq[i] \in Elements(seq)
      BY <1>1 DEF Elements
    <2>2. f \in [1..Len(seq) -> Elements(seq)]
      BY <2>1
    <2>3. \A t \in Elements(seq) : \E i \in 1..Len(seq) : f[i] = t
      BY <1>1 DEF Elements
    <2> HIDE DEF f
    <2> QED
      BY <2>2, <2>3, Fun_IsSurj
  <1>4. \A i \in 1..Len(seq) : f[i] = seq[i]
    OBVIOUS
  <1> HIDE DEF f
  <1>5. /\ IsFiniteSet(Elements(seq)) /\ Cardinality(Elements(seq)) <= Cardinality(1..Len(seq))
        /\ Cardinality(Elements(seq)) = Cardinality(1..Len(seq))
              => f \in Injection(1..Len(seq), Elements(seq))
    BY <1>2, <1>3, FS_Surjection
  <1>6. f \in Injection(1..Len(seq), Elements(seq))
           => \A i, j \in DOMAIN seq : seq[i] = seq[j] => i = j
    BY <1>1, <1>4 DEF Injection, IsInjective
  <1> QED
    BY <1>1, <1>2, <1>5, <1>6, FS_CardinalityType

\* No SIM is listed twice, since there are as many as are asked about.
LEMMA SimsDiffer ==
    /\ IsFiniteSet(Known) /\ Asked \in Nat /\ Cardinality(Known) = Asked
    /\ Len(Normal) \in Nat /\ DOMAIN Normal = 1..Len(Normal)
    /\ Len(Masters) \in Nat /\ DOMAIN Masters = 1..Len(Masters)
    /\ \A i, j \in DOMAIN Normal : Normal[i] = Normal[j] => i = j
  <1> DEFINE a == Cardinality(Elements(Normal))
             b == Cardinality(Elements(Masters))
             common == Cardinality(Elements(Normal) \cap Elements(Masters))
  <1>1. /\ Len(Normal) \in Nat /\ DOMAIN Normal = 1..Len(Normal)
        /\ IsFiniteSet(Elements(Normal)) /\ a \in Nat /\ a <= Len(Normal)
        /\ a = Len(Normal) => \A i, j \in DOMAIN Normal : Normal[i] = Normal[j] => i = j
    BY ElementsFinite
  <1>2. /\ Len(Masters) \in Nat /\ DOMAIN Masters = 1..Len(Masters)
        /\ IsFiniteSet(Elements(Masters)) /\ b \in Nat /\ b <= Len(Masters)
    BY ElementsFinite
  <1>3. IsFiniteSet(Known) /\ Cardinality(Known) = a + b - common
    BY <1>1, <1>2, FS_Union DEF Known
  <1>4. common \in Nat
    BY <1>1, FS_Subset, FS_CardinalityType
  <1>5. Cardinality(Known) = Len(Normal) + Len(Masters)
    BY DEF Asked
  <1> HIDE DEF a, b, common
  <1>6. a = Len(Normal)
    BY <1>1, <1>2, <1>3, <1>4, <1>5
  <1> QED
    BY <1>1, <1>2, <1>3, <1>5, <1>6 DEF Asked

----------------------------------------------------------------------------
(* Types, and the rows of the SIMs saved so far.                           *)

\* The rows of the SIMs that a run has saved are still what it saved, but for those
\* an operator reset.
SavedKept ==
    /\ saved \subseteq Known
    /\ stage \in {"plans", "masters"} => saved = {}
    /\ \A s \in saved \ reset :
          <<s, month>> \in DOMAIN monthly /\ monthly[<<s, month>>] = Entries[s]

Typed == TypeOK /\ SavedKept

LEMMA AnsweredType ==
    ASSUME NEW map, NEW answer, map \in Usage(DOMAIN map), answer \in Usage(DOMAIN answer)
    PROVE  /\ DOMAIN Answered(map, answer) = DOMAIN map \cup DOMAIN answer
           /\ Answered(map, answer) \in Usage(DOMAIN Answered(map, answer))
           /\ \A s \in DOMAIN answer : Answered(map, answer)[s] = answer[s]
           /\ \A s \in DOMAIN map \ DOMAIN answer : Answered(map, answer)[s] = map[s]
  BY DEF Answered, Usage

LEMMA EntriesType ==
    ASSUME TypeOK
    PROVE  /\ DOMAIN Entries = DOMAIN plans \cup DOMAIN totals
           /\ Entries \in [DOMAIN Entries -> 0..MaxMB]
  BY AnsweredType DEF Entries, TypeOK, Usage

LEMMA EmptyType == DOMAIN Empty = {} /\ Empty \in Usage({})
  BY DEF Empty, Usage

LEMMA TypedInit ==
    ASSUME Init
    PROVE  Typed
  <1>1. PICK S \in SUBSET Known : monthly \in Usage(S \X {1})
    BY DEF Init
  <1>2. DOMAIN monthly = S \X {1} /\ monthly \in Usage(DOMAIN monthly)
    BY <1>1 DEF Usage
  <1>3. 1 \in Months
    BY DEF Months
  <1>4. DOMAIN monthly \subseteq Known \X Months
    BY <1>2, <1>3
  <1>5. /\ today = 1 /\ stage = "idle" /\ month = 1 /\ asked = 1 /\ failing = 0 /\ next = 1
        /\ plans = Empty /\ totals = Empty /\ saved = {} /\ report = NoReport
        /\ reset = {} /\ runs = 0 /\ resets = 0
    BY DEF Init
  <1>6. NoReport \in [success : Nat, failed : Nat, total : Nat]
    BY DEF NoReport
  <1>7. 0 \in 0..MaxFailing /\ 0 \in 0..MaxRuns /\ 0 \in 0..MaxResets
    OBVIOUS
  <1> QED
    BY <1>2, <1>3, <1>4, <1>5, <1>6, <1>7, EmptyType DEF Typed, TypeOK, SavedKept, Stages

LEMMA BeginTyped ==
    ASSUME Typed, Begin
    PROVE  Typed'
  <1>1. /\ stage' = "plans" /\ month' = today /\ runs' = runs + 1 /\ runs < MaxRuns
        /\ asked' = 1 /\ failing' = 0 /\ next' = 1
        /\ plans' = Empty /\ totals' = Empty /\ saved' = {} /\ report' = NoReport
        /\ reset' = {} /\ UNCHANGED <<monthly, today, resets>>
    BY DEF Begin
  <1>2. NoReport \in [success : Nat, failed : Nat, total : Nat]
    BY DEF NoReport
  <1> QED
    BY <1>1, <1>2, EmptyType DEF Typed, TypeOK, SavedKept, Stages

LEMMA FetchPlansTyped ==
    ASSUME Typed, FetchPlans
    PROVE  Typed'
  <1>1. PICK S \in SUBSET Batch(Normal, asked, Concurrency) : \E answer \in Usage(S) :
           plans' = Answered(plans, answer) /\ failing' = Failing(answer)
    BY DEF FetchPlans
  <1>2. PICK answer \in Usage(S) : plans' = Answered(plans, answer) /\ failing' = Failing(answer)
    BY <1>1
  <1>3. S \subseteq Elements(Normal)
    BY DEF Batch, Elements
  <1>4. DOMAIN answer = S /\ answer \in Usage(DOMAIN answer)
    BY DEF Usage
  <1>5. DOMAIN plans' \subseteq Elements(Normal) /\ plans' \in Usage(DOMAIN plans')
    BY <1>2, <1>3, <1>4, AnsweredType DEF Typed, TypeOK
  <1>6. failing' \in 0..MaxFailing
    BY <1>2 DEF FetchPlans, Failing, Tripped, Typed, TypeOK
  <1>7. /\ stage = "plans" /\ asked' = asked + Concurrency
        /\ UNCHANGED <<monthly, today, stage, month, next, totals, saved, report, reset,
                       runs, resets>>
    BY DEF FetchPlans
  <1>8. asked' \in Nat /\ saved = {}
    BY <1>7 DEF Typed, TypeOK, SavedKept
  <1> QED
    BY <1>5, <1>6, <1>7, <1>8 DEF Typed, TypeOK, SavedKept

LEMMA FetchMastersTyped ==
    ASSUME Typed, FetchMasters
    PROVE  Typed'
  <1>1. PICK S \in SUBSET (Batch(Masters, next, MasterBatch) \cup Unasked) :
        \E answer \in Usage(S) : totals' = Answered(totals, answer)
    BY DEF FetchMasters
  <1>2. PICK answer \in Usage(S) : totals' = Answered(totals, answer)
    BY <1>1
  <1>3. S \subseteq Elements(Masters) \cup Unasked
    BY DEF Batch, Elements
  <1>4. DOMAIN answer = S /\ answer \in Usage(DOMAIN answer)
    BY DEF Usage
  <1>5. DOMAIN totals' \subseteq Elements(Masters) \cup Unasked /\ totals' \in Usage(DOMAIN totals')
    <2>1. /\ DOMAIN totals \subseteq Elements(Masters) \cup Unasked
          /\ totals \in Usage(DOMAIN totals)
      BY DEF Typed, TypeOK
    <2>2. DOMAIN totals' = DOMAIN totals \cup S /\ totals' \in Usage(DOMAIN totals')
      BY <1>2, <1>4, <2>1, AnsweredType
    <2> QED
      BY <1>3, <2>1, <2>2
  <1>6. /\ stage = "masters" /\ next' = next + MasterBatch
        /\ UNCHANGED <<monthly, today, stage, month, asked, failing, plans, saved, report,
                       reset, runs, resets>>
    BY DEF FetchMasters
  <1>7. next' \in Nat /\ saved = {}
    BY <1>6 DEF Typed, TypeOK, SavedKept
  <1> QED
    BY <1>5, <1>6, <1>7 DEF Typed, TypeOK, SavedKept

\* What a saved batch does to the table.
LEMMA SaveEffect ==
    ASSUME Typed, Save, stage' # "idle"
    PROVE  \E S \in SUBSET (DOMAIN Entries \ saved) :
              /\ S \subseteq Known /\ saved' = saved \cup S /\ stage' = "save"
              /\ DOMAIN monthly' = DOMAIN monthly \cup (S \X {month})
              /\ monthly' \in Usage(DOMAIN monthly')
              /\ \A s \in S : monthly'[<<s, month>>] = Entries[s]
              /\ \A r \in DOMAIN monthly \ (S \X {month}) : monthly'[r] = monthly[r]
  <1>1. stage = "save"
    BY DEF Save
  <1>2. PICK S \in SUBSET (DOMAIN Entries \ saved) :
           IF S \subseteq Known
           THEN /\ monthly' = Answered(monthly, [r \in S \X {RowMonth} |-> Entries[r[1]]])
                /\ saved' = saved \cup S
                /\ UNCHANGED stage
           ELSE Throw /\ UNCHANGED <<monthly, saved>>
    BY DEF Save
  <1>3. S \subseteq Known
    BY <1>2 DEF Throw
  <1> DEFINE answer == [r \in S \X {month} |-> Entries[r[1]]]
  <1>4. monthly' = Answered(monthly, answer) /\ saved' = saved \cup S /\ stage' = "save"
    BY <1>1, <1>2, <1>3 DEF RowMonth
  <1>5. DOMAIN answer = S \X {month} /\ answer \in Usage(DOMAIN answer)
    BY EntriesType DEF Typed, Usage
  <1>6. monthly \in Usage(DOMAIN monthly)
    BY DEF Typed, TypeOK
  <1>7. \A s \in S : <<s, month>> \in S \X {month} /\ answer[<<s, month>>] = Entries[s]
    OBVIOUS
  <1> HIDE DEF answer
  <1>8. /\ DOMAIN monthly' = DOMAIN monthly \cup (S \X {month})
        /\ monthly' \in Usage(DOMAIN monthly')
        /\ \A r \in S \X {month} : monthly'[r] = answer[r]
        /\ \A r \in DOMAIN monthly \ (S \X {month}) : monthly'[r] = monthly[r]
    <2>1. /\ DOMAIN Answered(monthly, answer) = DOMAIN monthly \cup DOMAIN answer
          /\ Answered(monthly, answer) \in Usage(DOMAIN Answered(monthly, answer))
          /\ \A r \in DOMAIN answer : Answered(monthly, answer)[r] = answer[r]
          /\ \A r \in DOMAIN monthly \ DOMAIN answer : Answered(monthly, answer)[r] = monthly[r]
      BY <1>5, <1>6, AnsweredType
    <2> QED
      BY <1>4, <1>5, <2>1
  <1>9. \A s \in S : monthly'[<<s, month>>] = Entries[s]
    BY <1>7, <1>8
  <1> WITNESS S \in SUBSET (DOMAIN Entries \ saved)
  <1> QED
    BY <1>3, <1>4, <1>8, <1>9

LEMMA SaveTyped ==
    ASSUME Typed, Save
    PROVE  Typed'
  <1>1. UNCHANGED <<today, month, asked, failing, next, plans, totals, report, reset,
                    runs, resets>> /\ stage = "save"
    BY DEF Save
  <1>2. Entries' = Entries
    BY <1>1 DEF Entries, Answered
  <1>3. CASE stage' = "idle"
    <2>1. UNCHANGED <<monthly, saved>>
      BY <1>1, <1>3 DEF Save
    <2> QED
      BY <1>1, <1>2, <1>3, <2>1 DEF Typed, TypeOK, SavedKept, Stages
  <1>4. CASE stage' # "idle"
    <2>1. PICK S \in SUBSET (DOMAIN Entries \ saved) :
              /\ S \subseteq Known /\ saved' = saved \cup S /\ stage' = "save"
              /\ DOMAIN monthly' = DOMAIN monthly \cup (S \X {month})
              /\ monthly' \in Usage(DOMAIN monthly')
              /\ \A s \in S : monthly'[<<s, month>>] = Entries[s]
              /\ \A r \in DOMAIN monthly \ (S \X {month}) : monthly'[r] = monthly[r]
      BY <1>4, SaveEffect
    <2>2. DOMAIN monthly' \subseteq Known \X Months
      BY <2>1 DEF Typed, TypeOK
    <2>3. saved' \subseteq DOMAIN plans \cup DOMAIN totals /\ saved' \subseteq Known
      BY <2>1, EntriesType DEF Typed, TypeOK, SavedKept
    <2>4. ASSUME NEW s \in saved' \ reset
          PROVE  <<s, month>> \in DOMAIN monthly' /\ monthly'[<<s, month>>] = Entries[s]
      <3>1. CASE s \in S
        BY <2>1, <3>1
      <3>2. CASE s \notin S
        <4>1. <<s, month>> \in DOMAIN monthly \ (S \X {month}) /\ monthly[<<s, month>>] = Entries[s]
          BY <2>1, <2>4, <3>2 DEF Typed, SavedKept
        <4> QED
          BY <2>1, <4>1
      <3> QED
        BY <3>1, <3>2
    <2> QED
      BY <1>1, <1>2, <2>1, <2>2, <2>3, <2>4 DEF Typed, TypeOK, SavedKept, Stages
  <1> QED
    BY <1>3, <1>4

LEMMA FinishTyped ==
    ASSUME Typed, Finish
    PROVE  /\ Typed'
           /\ report'.success = Cardinality(saved) /\ report'.failed = Asked - Cardinality(saved)
           /\ report'.failed >= 0 /\ report'.success \in Nat
  <1>1. /\ stage = "save" /\ stage' = "done" /\ DOMAIN Entries = saved
        /\ report' = [success |-> Cardinality(saved),
                      failed |-> Asked - Cardinality(saved), total |-> Asked]
        /\ UNCHANGED <<monthly, today, month, asked, failing, next, plans, totals, saved,
                       reset, runs, resets>>
    BY DEF Finish, AllSaved
  <1>2. saved \subseteq Known
    BY DEF Typed, SavedKept
  <1>3. /\ Cardinality(saved) \in Nat /\ Cardinality(saved) <= Asked
        /\ Asked \in Nat
    BY <1>2, SimsDiffer, FS_Subset, FS_CardinalityType
  <1>4. report' \in [success : Nat, failed : Nat, total : Nat]
    BY <1>1, <1>3
  <1>5. Entries' = Entries
    BY <1>1 DEF Entries, Answered
  <1>6. Typed'
    BY <1>1, <1>4, <1>5 DEF Typed, TypeOK, SavedKept, Stages
  <1> QED
    BY <1>1, <1>3, <1>6

LEMMA ResetTyped ==
    ASSUME Typed, Reset
    PROVE  Typed'
  <1>1. UNCHANGED <<today, run, runs>> /\ resets < MaxResets /\ resets' = resets + 1
    BY DEF Reset
  <1>2. PICK s \in Known :
           /\ monthly' = [r \in {q \in DOMAIN monthly : q[1] # s} |-> monthly[r]]
           /\ reset' = reset \cup {s}
    BY DEF Reset
  <1>3. DOMAIN monthly' \subseteq Known \X Months /\ monthly' \in Usage(DOMAIN monthly')
    BY <1>2 DEF Typed, TypeOK, Usage
  <1>4. Entries' = Entries
    BY <1>1 DEF run, Entries, Answered
  <1>5. ASSUME NEW t \in saved \ reset'
        PROVE  <<t, month>> \in DOMAIN monthly' /\ monthly'[<<t, month>>] = Entries[t]
    <2>1. t # s /\ <<t, month>> \in DOMAIN monthly /\ monthly[<<t, month>>] = Entries[t]
      BY <1>2, <1>5 DEF Typed, SavedKept
    <2> QED
      BY <1>2, <2>1
  <1> QED
    BY <1>1, <1>2, <1>3, <1>4, <1>5 DEF Typed, TypeOK, SavedKept, run

LEMMA TypedStep ==
    ASSUME Typed, [Next]_vars
    PROVE  Typed'
  <1>1. CASE Begin
    BY <1>1, BeginTyped
  <1>2. CASE FetchPlans
    BY <1>2, FetchPlansTyped
  <1>3. CASE LeavePlans \/ LeaveMasters \/ Abort
    <2>1. /\ UNCHANGED <<monthly, today, month, asked, failing, next, plans, totals, saved,
                         report, reset, runs, resets>>
          /\ stage' \in Stages
          /\ stage' \in {"plans", "masters"} => stage \in {"plans", "masters"}
      BY <1>3 DEF LeavePlans, LeaveMasters, Abort, Throw, Stages
    <2>2. Entries' = Entries
      BY <2>1 DEF Entries, Answered
    <2> QED
      BY <2>1, <2>2 DEF Typed, TypeOK, SavedKept
  <1>4. CASE FetchMasters
    BY <1>4, FetchMastersTyped
  <1>5. CASE Save
    BY <1>5, SaveTyped
  <1>6. CASE Finish
    BY <1>6, FinishTyped
  <1>7. CASE Reset
    BY <1>7, ResetTyped
  <1>8. CASE MonthEnds
    <2>1. UNCHANGED <<monthly, run, reset, runs, resets>> /\ today' \in Months
      BY <1>8 DEF MonthEnds, Months, Typed, TypeOK
    <2>2. Entries' = Entries
      BY <2>1 DEF run, Entries, Answered
    <2> QED
      BY <2>1, <2>2 DEF Typed, TypeOK, SavedKept, run
  <1>9. CASE UNCHANGED vars
    <2>1. Entries' = Entries
      BY <1>9 DEF vars, run, Entries, Answered
    <2> QED
      BY <1>9, <2>1 DEF vars, run, Typed, TypeOK, SavedKept
  <1> QED
    BY <1>1, <1>2, <1>3, <1>4, <1>5, <1>6, <1>7, <1>8, <1>9 DEF Next, Run

\* Every state has the declared types, for any SIMs and answers.
THEOREM TypeCorrect == Spec => []TypeOK
  <1>1. Spec => []Typed
    BY TypedInit, TypedStep, PTL DEF Spec
  <1> QED
    BY <1>1, PTL DEF Typed

----------------------------------------------------------------------------
(* The table.                                                              *)

\* A run writes rows of its month only, and of SIMs it has an answer for: what a
\* failing upstream leaves unanswered keeps what earlier runs have stored.
THEOREM UnansweredKept == Spec => KeepsUnanswered
  <1>1. ASSUME Typed, [Next]_vars, Run, NEW r \in Known \X Months
        PROVE  \/ r \notin DOMAIN monthly /\ r \notin DOMAIN monthly'
               \/ r \in DOMAIN monthly \cap DOMAIN monthly' /\ monthly[r] = monthly'[r]
               \/ r[2] = month /\ r[1] \in DOMAIN plans \cup DOMAIN totals
    <2>1. CASE Save
      <3>1. CASE stage' = "idle"
        <4>1. monthly' = monthly
          BY <2>1, <3>1 DEF Save
        <4> QED
          BY <4>1
      <3>2. CASE stage' # "idle"
        <4>1. PICK S \in SUBSET (DOMAIN Entries \ saved) :
                 /\ DOMAIN monthly' = DOMAIN monthly \cup (S \X {month})
                 /\ \A q \in DOMAIN monthly \ (S \X {month}) : monthly'[q] = monthly[q]
          BY <1>1, <2>1, <3>2, SaveEffect
        <4>2. S \subseteq DOMAIN plans \cup DOMAIN totals
          BY <1>1, <4>1, EntriesType DEF Typed
        <4>3. CASE r \in S \X {month}
          BY <4>2, <4>3
        <4>4. CASE r \notin S \X {month}
          BY <4>1, <4>4
        <4> QED
          BY <4>3, <4>4
      <3> QED
        BY <3>1, <3>2
    <2>2. CASE ~Save
      <3>1. monthly' = monthly
        BY <1>1, <2>2 DEF Run, Begin, FetchPlans, LeavePlans, FetchMasters, LeaveMasters,
                          Finish, Abort
      <3> QED
        BY <3>1
    <2> QED
      BY <2>1, <2>2
  <1>2. Spec => []Typed
    BY TypedInit, TypedStep, PTL DEF Spec
  <1>3. Typed /\ [Next]_vars =>
          [Run => \A r \in (Known \X Months) :
             \/ r \notin DOMAIN monthly /\ r \notin DOMAIN monthly'
             \/ r \in DOMAIN monthly \cap DOMAIN monthly' /\ monthly[r] = monthly'[r]
             \/ r[2] = month /\ r[1] \in DOMAIN plans \cup DOMAIN totals]_vars
    BY <1>1
  <1> QED
    BY <1>2, <1>3, PTL DEF Spec, KeepsUnanswered

----------------------------------------------------------------------------
(* The result.                                                             *)

\* The numbers of a finished run are those of the SIMs it saved and did not.
Reported ==
    stage = "done" =>
        /\ DOMAIN Entries = saved
        /\ report.success = Cardinality(saved)
        /\ report.failed = Asked - Cardinality(saved) /\ report.failed >= 0
        /\ report.success \in Nat

LEMMA ReportedStep ==
    ASSUME Typed, Reported, [Next]_vars
    PROVE  Reported'
  <1>1. CASE Finish
    <2>1. DOMAIN Entries = saved /\ saved' = saved /\ UNCHANGED <<plans, totals>>
      BY <1>1 DEF Finish, AllSaved
    <2>2. Entries' = Entries
      BY <2>1 DEF Entries, Answered
    <2> QED
      BY <1>1, <2>1, <2>2, FinishTyped DEF Reported
  <1>2. CASE Run /\ ~Finish
    BY <1>2 DEF Run, Begin, FetchPlans, LeavePlans, FetchMasters, LeaveMasters, Save, Abort,
                Throw, Reported
  <1>3. CASE Reset \/ MonthEnds \/ UNCHANGED vars
    <2>1. UNCHANGED run
      BY <1>3 DEF Reset, MonthEnds, vars
    <2>2. Entries' = Entries
      BY <2>1 DEF run, Entries, Answered
    <2> QED
      BY <2>1, <2>2 DEF run, Reported
  <1> QED
    BY <1>1, <1>2, <1>3 DEF Next

\* A finished run has counted every SIM once, as a success whose usage is in the
\* table or as failed, however the upstream answered.
THEOREM ReportCorrect == Spec => []ReportTrue
  <1>1. Init => Reported
    BY DEF Init, Reported
  <1>2. Spec => [](Typed /\ Reported)
    BY <1>1, TypedInit, TypedStep, ReportedStep, PTL DEF Spec
  <1>3. Typed /\ Reported => ReportTrue
    <2> SUFFICES ASSUME Typed, Reported, stage = "done" PROVE ReportTrue
      BY DEF ReportTrue
    <2>1. Cardinality(saved) \in Nat /\ Asked \in Nat
      BY SimsDiffer, FS_Subset, FS_CardinalityType DEF Typed, SavedKept
    <2>2. report.success + report.failed = Cardinality(Known)
      BY <2>1, SimsDiffer DEF Reported
    <2> QED
      BY <2>2 DEF Reported, ReportTrue, Typed, SavedKept
  <1> QED
    BY <1>2, <1>3, PTL

----------------------------------------------------------------------------
(* The circuit breaker.                                                    *)

\* The batches that failed in a row are the last ones, none of their SIMs has an
\* answer, and the batch before them has one, if there is any; SIMs are asked
\* about in turn.
LastFailed ==
    /\ asked > failing * Concurrency
    /\ \A i \in DOMAIN Normal : asked - failing * Concurrency <= i => Normal[i] \notin DOMAIN plans
    /\ \/ asked = failing * Concurrency + 1
       \/ \E i \in DOMAIN Normal :
             /\ asked - (failing * Concurrency + Concurrency) <= i
             /\ Normal[i] \in DOMAIN plans
    /\ stage \in {"masters", "save", "done"} => asked > Len(Normal) \/ Tripped

\* A batch is asked about.
LEMMA AskKeeps ==
    ASSUME Typed, LastFailed, FetchPlans
    PROVE  LastFailed'
  <1>1. PICK S \in SUBSET Batch(Normal, asked, Concurrency) : \E answer \in Usage(S) :
           plans' = Answered(plans, answer) /\ failing' = Failing(answer)
    BY DEF FetchPlans
  <1>2. PICK answer \in Usage(S) : plans' = Answered(plans, answer) /\ failing' = Failing(answer)
    BY <1>1
  <1>3. DOMAIN answer = S /\ answer \in Usage(DOMAIN answer)
    BY DEF Usage
  <1>4. DOMAIN plans' = DOMAIN plans \cup S
    BY <1>2, <1>3, AnsweredType DEF Typed, TypeOK
  <1>5. /\ asked' = asked + Concurrency /\ stage = "plans" /\ stage' = "plans"
        /\ asked \in Nat /\ failing \in Nat /\ Concurrency \in Nat \ {0}
    BY DEF FetchPlans, Typed, TypeOK
  <1>6. \A m, c \in Nat : m * c \in Nat /\ (m + 1) * c = m * c + c /\ 0 * c = 0
    OBVIOUS
  <1>7. failing * Concurrency \in Nat
    BY <1>5, <1>6
  <1>8. CASE S = {}
    <2>1. failing' = failing + 1 /\ DOMAIN plans' = DOMAIN plans
      BY <1>2, <1>3, <1>4, <1>8 DEF Failing
    <2>2. failing' * Concurrency = failing * Concurrency + Concurrency
      BY <1>5, <1>6, <2>1
    <2>3. /\ asked' > failing' * Concurrency
          /\ asked' - failing' * Concurrency = asked - failing * Concurrency
          /\ asked' - (failing' * Concurrency + Concurrency)
                = asked - (failing * Concurrency + Concurrency)
          /\ asked = failing * Concurrency + 1 => asked' = failing' * Concurrency + 1
      <3>1. \A a, b, c \in Nat : /\ a > b => a + c > b + c
                                 /\ (a + c) - (b + c) = a - b
                                 /\ (a + c) - ((b + c) + c) = a - (b + c)
                                 /\ a = b + 1 => a + c = (b + c) + 1
        OBVIOUS
      <3>2. asked > failing * Concurrency
        BY DEF LastFailed
      <3> DEFINE b == failing * Concurrency
      <3> HIDE DEF b
      <3>3. /\ asked + Concurrency > b + Concurrency
            /\ (asked + Concurrency) - (b + Concurrency) = asked - b
            /\ (asked + Concurrency) - ((b + Concurrency) + Concurrency) = asked - (b + Concurrency)
            /\ asked = b + 1 => asked + Concurrency = (b + Concurrency) + 1
        BY <1>5, <1>7, <3>1, <3>2 DEF b
      <3> QED
        BY <1>5, <2>2, <3>3 DEF b
    <2> QED
      BY <1>5, <2>1, <2>3 DEF LastFailed
  <1>9. CASE S # {}
    <2>1. failing' = 0 /\ failing' * Concurrency = 0
      BY <1>2, <1>3, <1>5, <1>6, <1>9 DEF Failing
    <2>2. \A s \in S : \E k \in DOMAIN Normal :
             s = Normal[k] /\ asked <= k /\ k < asked + Concurrency
      BY DEF Batch
    <2>3. ASSUME NEW i \in DOMAIN Normal, asked' - failing' * Concurrency <= i
          PROVE  Normal[i] \notin DOMAIN plans'
      <3>1. i \in Nat /\ asked + Concurrency <= i
        BY <1>5, <2>1, <2>3, SimsDiffer
      <3>2. Normal[i] \notin DOMAIN plans
        <4>1. asked - failing * Concurrency <= i
          BY <1>5, <1>7, <3>1
        <4> QED
          BY <4>1 DEF LastFailed
      <3>3. Normal[i] \notin S
        <4> SUFFICES ASSUME Normal[i] \in S PROVE FALSE
          OBVIOUS
        <4>1. PICK k \in DOMAIN Normal : Normal[i] = Normal[k] /\ k < asked + Concurrency
          BY <2>2
        <4>2. i = k
          BY <4>1, SimsDiffer
        <4> QED
          BY <1>5, <3>1, <4>1, <4>2
      <3> QED
        BY <1>4, <3>2, <3>3
    <2>4. \E i \in DOMAIN Normal :
             /\ asked' - (failing' * Concurrency + Concurrency) <= i
             /\ Normal[i] \in DOMAIN plans'
      <3>1. PICK s \in S : TRUE
        BY <1>9
      <3>2. PICK k \in DOMAIN Normal : s = Normal[k] /\ asked <= k
        BY <2>2
      <3>3. k \in Nat /\ asked' - (failing' * Concurrency + Concurrency) = asked
        BY <1>5, <2>1, SimsDiffer
      <3> QED
        BY <1>4, <3>2, <3>3
    <2>5. asked' > failing' * Concurrency
      BY <1>5, <2>1
    <2> QED
      BY <1>5, <2>3, <2>4, <2>5 DEF LastFailed
  <1> QED
    BY <1>8, <1>9

LEMMA LastFailedStep ==
    ASSUME Typed, LastFailed, [Next]_vars
    PROVE  LastFailed'
  <1>1. CASE Begin
    <2>1. asked' = 1 /\ failing' = 0 /\ DOMAIN plans' = {} /\ stage' = "plans"
      BY <1>1, EmptyType DEF Begin
    <2>2. failing' * Concurrency = 0
      BY <2>1
    <2> QED
      BY <2>1, <2>2 DEF LastFailed
  <1>2. CASE FetchPlans
    BY <1>2, AskKeeps
  <1>3. CASE LeavePlans \/ FetchMasters \/ LeaveMasters \/ Save \/ Finish \/ Abort
    <2>1. UNCHANGED <<asked, failing, plans>>
      BY <1>3 DEF LeavePlans, FetchMasters, LeaveMasters, Save, Finish, Abort
    <2>2. stage' \in {"masters", "save", "done"} =>
             stage \in {"masters", "save", "done"} \/ asked > Len(Normal) \/ Tripped
      BY <1>3 DEF LeavePlans, FetchMasters, LeaveMasters, Save, Finish, Abort, Throw
    <2> QED
      BY <2>1, <2>2 DEF LastFailed, Tripped
  <1>4. CASE Reset \/ MonthEnds \/ UNCHANGED vars
    BY <1>4 DEF Reset, MonthEnds, vars, run, LastFailed, Tripped
  <1> QED
    BY <1>1, <1>2, <1>3, <1>4 DEF Next, Run

\* The breaker stops the questions after MaxFailing batches in a row without an
\* answer and for no other reason, and no batch is asked about after that.
THEOREM BreakerCorrect == Spec => []BreakerJustified
  <1>1. Init => LastFailed
    <2> SUFFICES ASSUME Init PROVE LastFailed
      OBVIOUS
    <2>1. asked = 1 /\ failing = 0 /\ DOMAIN plans = {} /\ stage = "idle"
      BY EmptyType DEF Init
    <2>2. failing * Concurrency = 0
      BY <2>1
    <2> QED
      BY <2>1, <2>2 DEF LastFailed
  <1>2. Spec => [](Typed /\ LastFailed)
    BY <1>1, TypedInit, TypedStep, LastFailedStep, PTL DEF Spec
  <1>3. Typed /\ LastFailed => BreakerJustified
    <2> SUFFICES ASSUME Typed, LastFailed PROVE BreakerJustified
      OBVIOUS
    <2>1. /\ asked \in Nat /\ failing \in Nat /\ failing <= MaxFailing
          /\ MaxFailing \in Nat /\ Concurrency \in Nat \ {0}
      BY DEF Typed, TypeOK
    <2>2. /\ \A m, c \in Nat : m * c \in Nat /\ (m + 1) * c = m * c + c
          /\ \A m, n, c \in Nat : m <= n => m * c <= n * c
      OBVIOUS
    <2>3. /\ failing * Concurrency \in Nat /\ MaxFailing * Concurrency \in Nat
          /\ failing * Concurrency <= MaxFailing * Concurrency
          /\ (MaxFailing + 1) * Concurrency = MaxFailing * Concurrency + Concurrency
      BY <2>1, <2>2
    <2>4. Tripped => Silent(MaxFailing)
      <3> SUFFICES ASSUME Tripped PROVE Silent(MaxFailing)
        OBVIOUS
      <3>1. failing = MaxFailing
        BY <2>1 DEF Tripped
      <3> QED
        BY <3>1 DEF LastFailed, Silent
    <2>5. ~Silent(MaxFailing + 1)
      <3> SUFFICES ASSUME Silent(MaxFailing + 1) PROVE FALSE
        OBVIOUS
      <3>1. asked > MaxFailing * Concurrency + Concurrency
        BY <2>3 DEF Silent
      <3>2. asked # failing * Concurrency + 1
        BY <2>1, <2>3, <3>1
      <3>3. PICK i \in DOMAIN Normal :
               /\ asked - (failing * Concurrency + Concurrency) <= i
               /\ Normal[i] \in DOMAIN plans
        BY <3>2 DEF LastFailed
      <3>4. i \in Nat /\ asked - (MaxFailing + 1) * Concurrency <= i
        <4>1. i \in Nat
          BY SimsDiffer
        <4>2. \A a, x, y, c, k \in Nat :
                 x <= y /\ a - (x + c) <= k => a - (y + c) <= k
          OBVIOUS
        <4>3. asked - (MaxFailing * Concurrency + Concurrency) <= i
          BY <2>1, <2>3, <3>3, <4>1, <4>2
        <4> QED
          BY <2>3, <4>1, <4>3
      <3>5. i < asked
        <4>1. ~(asked - failing * Concurrency <= i)
          BY <3>3 DEF LastFailed
        <4> QED
          BY <2>1, <2>3, <3>4, <4>1
      <3> QED
        BY <3>3, <3>4, <3>5 DEF Silent
    <2> QED
      BY <2>4, <2>5 DEF LastFailed, BreakerJustified
  <1> QED
    BY <1>2, <1>3, PTL
=============================================================================
