----------------------------- MODULE AlertChecks ----------------------------
(***************************************************************************)
(* The alert rules of src/alerts/alerts.service.ts and the checks they     *)
(* leave: evaluations (at the end of a SIM sync, or for GET                *)
(* /alerts/triggered) find the SIMs a rule applies to and create their     *)
(* checks, while operators mark checks as reviewed, edit rules and move    *)
(* SIMs about.                                                             *)
(*                                                                         *)
(* Every query of an evaluation is an await: between two of them anybody   *)
(* may do anything.  A rule has a threshold and a scope; a field of the    *)
(* scope that is not set is not in its domain.  Of a check the model keeps *)
(* whether it is reviewed and whether triggeredAt is set.                  *)
(***************************************************************************)
EXTENDS Naturals

CONSTANTS
    Sims, Alerts,   \* ids
    Syncs,          \* evaluations at the end of a SIM sync: one per account
    Requests,       \* concurrent GET /alerts/triggered
    Fields,         \* the scope fields of a rule, "simCodeLabel" among them
    Rules,          \* the rules an alert may be given
    Profiles,       \* what a SIM may be like: usage, and the values it has of a field
    Legacy,         \* the checks without triggeredAt that may exist at the start
    MaxChanges      \* bound: changes made to SIMs, rules and checks

Evaluations == Syncs \cup Requests
Pairs == Sims \X Alerts
NoPair == <<>>

ASSUME EvaluationsAssumption == Syncs \cap Requests = {}
ASSUME RulesAssumption ==
    \A r \in Rules : r.threshold \in Nat /\ r.active \in BOOLEAN /\ DOMAIN r.scope \subseteq Fields
ASSUME ProfilesAssumption ==
    \A p \in Profiles : p.usedMB \in Nat /\ DOMAIN p.has = Fields
ASSUME LegacyAssumption == \A S \in Legacy : S \subseteq Pairs
ASSUME BoundsAssumption == MaxChanges \in Nat

VARIABLES
    sims,       \* table sims: the profile of each SIM
    alerts,     \* table alert_configs: a function of the alerts there are
    checks,     \* table alert_checks: a function of the pairs there are
    removed,    \* alerts that were deleted: an id is not given twice
    pc,         \* the query each evaluation is at
    targets,    \* the SIMs it is about
    active,     \* activeAlerts: the rules it read and has not come to yet
    found,      \* the SIMs of the current rule it has not come to yet
    current,    \* the pair it is at, with no SIM between two of them
    reviewing,  \* bulkCheckAlerts: the SIMs it read and the pairs to go
    changed,    \* history: SIMs, alerts and pairs changed since an evaluation began
    changes

tables == <<sims, alerts, checks, removed>>
evaluation == <<pc, targets, active, found, current>>
vars == <<tables, evaluation, reviewing, changed, changes>>

----------------------------------------------------------------------------
Check == [checked : BOOLEAN, triggered : BOOLEAN]
Places == {"idle", "rules", "sims", "find", "create", "stamp", "done"}
Idle == [stage |-> "idle", sims |-> [s \in {} |-> s], pairs |-> {}]

TypeOK ==
    /\ sims \in [Sims -> Profiles]
    /\ DOMAIN alerts \subseteq Alerts /\ alerts \in [DOMAIN alerts -> Rules]
    /\ DOMAIN checks \subseteq Sims \X (DOMAIN alerts) /\ checks \in [DOMAIN checks -> Check]
    /\ removed \subseteq Alerts \ DOMAIN alerts
    /\ pc \in [Evaluations -> Places]
    /\ targets \in [Evaluations -> SUBSET Sims]
    /\ \A e \in Evaluations :
          /\ DOMAIN active[e] \subseteq Alerts /\ active[e] \in [DOMAIN active[e] -> Rules]
          /\ found[e] \subseteq targets[e]
          /\ current[e] \in Pairs \cup {NoPair}
          /\ pc[e] \in {"create", "stamp"} => current[e] # NoPair
    /\ reviewing.stage \in {"idle", "alerts", "mark"}
    /\ reviewing.pairs \subseteq Pairs
    /\ changed \in [Evaluations -> SUBSET (Sims \cup Alerts \cup Pairs)]
    /\ changes \in 0..MaxChanges

Empty == [x \in {} |-> x]

Init ==
    /\ sims \in [Sims -> Profiles]
    /\ \E known \in SUBSET Alerts : alerts \in [known -> Rules]
    /\ removed = {}
    /\ \E old \in Legacy :
          checks = [p \in {q \in old : q[2] \in DOMAIN alerts} |-> [checked |-> FALSE, triggered |-> FALSE]]
    /\ pc = [e \in Evaluations |-> "idle"]
    /\ targets = [e \in Evaluations |-> {}]
    /\ active = [e \in Evaluations |-> Empty]
    /\ found = [e \in Evaluations |-> {}]
    /\ current = [e \in Evaluations |-> NoPair]
    /\ reviewing = Idle
    /\ changed = [e \in Evaluations |-> {}]
    /\ changes = 0

----------------------------------------------------------------------------
(* The rules.                                                               *)

\* Mutant of Matches: usage must exceed the threshold.
MatchesAbove(rule, sim) ==
    /\ sim.usedMB > rule.threshold
    /\ \A f \in DOMAIN rule.scope : rule.scope[f] \in sim.has[f]

\* buildSimWhereForAlert: the threshold is reached and every field of the scope
\* fits.
Matches(rule, sim) ==
    /\ sim.usedMB >= rule.threshold
    /\ \A f \in DOMAIN rule.scope : rule.scope[f] \in sim.has[f]

\* The rule as bulkCheckAlerts has it: one field fits, and the label of the SIM
\* code does not count.
MatchesLoosely(rule, sim) ==
    LET scope == DOMAIN rule.scope \ {"simCodeLabel"} IN
    /\ sim.usedMB >= rule.threshold
    /\ scope = {} \/ \E f \in scope : rule.scope[f] \in sim.has[f]

----------------------------------------------------------------------------
(* Evaluations: syncTriggeredAlertsBySimIds and findTriggered, whose        *)
(* filters only make it a smaller one.                                      *)

\* The evaluation is over and forgets what it read: completed, ...
Stop(e, place) ==
    /\ pc' = [pc EXCEPT ![e] = place]
    /\ active' = [active EXCEPT ![e] = Empty]
    /\ found' = [found EXCEPT ![e] = {}]
    /\ current' = [current EXCEPT ![e] = NoPair]

\* ... or by an exception, with which it promises nothing.
Throw(e) ==
    /\ Stop(e, "idle")
    /\ targets' = [targets EXCEPT ![e] = {}]
    /\ changed' = [changed EXCEPT ![e] = {}]

\* The loop goes on: a SIM of the rule, the next rule, or the end.
NextSim(e) ==
    \/ \E s \in found[e] :
          /\ pc' = [pc EXCEPT ![e] = "find"]
          /\ current' = [current EXCEPT ![e] = <<s, current[e][2]>>]
          /\ found' = [found EXCEPT ![e] = @ \ {s}]
          /\ UNCHANGED active
    \/ /\ found[e] = {} /\ DOMAIN active[e] # {}
       /\ pc' = [pc EXCEPT ![e] = "sims"]
       /\ UNCHANGED <<active, found, current>>
    \/ /\ found[e] = {} /\ DOMAIN active[e] = {}
       /\ Stop(e, "done")

\* An evaluation begins: for the SIMs a sync saved, or for a request for all.
Start(e) ==
    /\ pc[e] \in {"idle", "done"}
    /\ \E S \in SUBSET Sims \ {{}} :
          /\ e \in Requests => S = Sims
          /\ targets' = [targets EXCEPT ![e] = S]
    /\ pc' = [pc EXCEPT ![e] = "rules"]
    /\ changed' = [changed EXCEPT ![e] = {}]
    /\ UNCHANGED <<tables, active, found, current, reviewing, changes>>

\* Mutant of Live: inactive rules take part.
LiveAll(a) == a \in DOMAIN alerts

\* Only rules of status 1 take part.
Live(a) == a \in DOMAIN alerts /\ alerts[a].active

\* The active rules are read once.
LoadRules(e) ==
    /\ pc[e] = "rules"
    /\ LET live == {a \in Alerts : Live(a)} IN
       IF live = {} THEN Stop(e, "done")
       ELSE /\ pc' = [pc EXCEPT ![e] = "sims"]
            /\ active' = [active EXCEPT ![e] = [a \in live |-> alerts[a]]]
            /\ UNCHANGED <<found, current>>
    /\ UNCHANGED <<tables, targets, reviewing, changed, changes>>

\* The SIMs of one of the rules, as they are now.
QuerySims(e) ==
    /\ pc[e] = "sims"
    /\ \E a \in DOMAIN active[e] :
       LET matching == {s \in targets[e] : Matches(active[e][a], sims[s])}
           rest == [b \in DOMAIN active[e] \ {a} |-> active[e][b]]
       IN  \/ \E s \in matching :
                /\ pc' = [pc EXCEPT ![e] = "find"]
                /\ current' = [current EXCEPT ![e] = <<s, a>>]
                /\ found' = [found EXCEPT ![e] = matching \ {s}]
                /\ active' = [active EXCEPT ![e] = rest]
          \/ /\ matching = {} /\ DOMAIN rest # {}
             /\ active' = [active EXCEPT ![e] = rest]
             /\ UNCHANGED <<pc, found, current>>
          \/ /\ matching = {} /\ DOMAIN rest = {}
             /\ Stop(e, "done")
    /\ UNCHANGED <<tables, targets, reviewing, changed, changes>>

\* findUnique of ensureTriggeredAlert, and what follows from it.
Find(e) ==
    /\ pc[e] = "find"
    /\ LET p == current[e]
           legacy == p \in DOMAIN checks /\ ~checks[p].checked /\ ~checks[p].triggered
       IN  \/ /\ p \notin DOMAIN checks
             /\ pc' = [pc EXCEPT ![e] = "create"]
             /\ UNCHANGED <<active, found, current>>
          \/ /\ legacy
             /\ pc' = [pc EXCEPT ![e] = "stamp"]
             /\ UNCHANGED <<active, found, current>>
          \/ /\ p \in DOMAIN checks /\ ~legacy
             /\ NextSim(e)
    /\ UNCHANGED <<tables, targets, reviewing, changed, changes>>

\* The row an insert or upsert leaves.
With(p, check) == [q \in DOMAIN checks \cup {p} |-> IF q = p THEN check ELSE checks[q]]

\* Mutant of Create: an upsert instead of an insert.
CreateAnyway(e) ==
    /\ pc[e] = "create"
    /\ IF current[e][2] \in DOMAIN alerts
       THEN /\ checks' = With(current[e], [checked |-> FALSE, triggered |-> TRUE])
            /\ NextSim(e) /\ UNCHANGED <<targets, changed>>
       ELSE Throw(e) /\ UNCHANGED checks
    /\ UNCHANGED <<sims, alerts, removed, reviewing, changes>>

\* create: refused, and the evaluation with it, if somebody else was faster or
\* the alert is gone.
Create(e) ==
    /\ pc[e] = "create"
    /\ IF current[e] \notin DOMAIN checks /\ current[e][2] \in DOMAIN alerts
       THEN /\ checks' = With(current[e], [checked |-> FALSE, triggered |-> TRUE])
            /\ NextSim(e) /\ UNCHANGED <<targets, changed>>
       ELSE Throw(e) /\ UNCHANGED checks
    /\ UNCHANGED <<sims, alerts, removed, reviewing, changes>>

\* triggeredAt of a legacy row, if the row is still there.
Stamp(e) ==
    /\ pc[e] = "stamp"
    /\ IF current[e] \in DOMAIN checks
       THEN /\ checks' = [checks EXCEPT ![current[e]].triggered = TRUE]
            /\ NextSim(e) /\ UNCHANGED <<targets, changed>>
       ELSE Throw(e) /\ UNCHANGED checks
    /\ UNCHANGED <<sims, alerts, removed, reviewing, changes>>

\* A query fails, or the process dies.
Fail(e) ==
    /\ pc[e] \notin {"idle", "done"}
    /\ Throw(e)
    /\ UNCHANGED <<tables, reviewing, changes>>

Evaluate(e) ==
    LoadRules(e) \/ QuerySims(e) \/ Find(e) \/ Create(e) \/ Stamp(e) \/ Fail(e)

----------------------------------------------------------------------------
(* Everybody else.                                                          *)

\* A change to the SIMs, alerts or pairs in S.
Touch(S) ==
    /\ changes < MaxChanges /\ changes' = changes + 1
    /\ changed' = [e \in Evaluations |->
          IF pc[e] = "idle" THEN {} ELSE changed[e] \cup S]

\* The other services: usage, group, SIM code, rating plan of a SIM.
ChangeSim ==
    \E s \in Sims, profile \in Profiles :
       /\ profile # sims[s]
       /\ sims' = [sims EXCEPT ![s] = profile] /\ Touch({s})
       /\ UNCHANGED <<alerts, checks, removed, evaluation, reviewing>>

\* create.
CreateAlert ==
    \E a \in Alerts \ (DOMAIN alerts \cup removed), rule \in Rules :
       /\ alerts' = [b \in DOMAIN alerts \cup {a} |-> IF b = a THEN rule ELSE alerts[b]]
       /\ Touch({a})
       /\ UNCHANGED <<sims, checks, removed, evaluation, reviewing>>

\* update and bulkCheckStatus; and toggleActive, which inverts a status read
\* before its update and so may set either.
ChangeAlert ==
    \E a \in DOMAIN alerts, rule \in Rules :
       /\ rule # alerts[a]
       /\ alerts' = [alerts EXCEPT ![a] = rule] /\ Touch({a})
       /\ UNCHANGED <<sims, checks, removed, evaluation, reviewing>>

\* Mutant of RemoveAlert: the checks of the alert stay.
RemoveAlertOnly ==
    \E a \in DOMAIN alerts :
       /\ alerts' = [b \in DOMAIN alerts \ {a} |-> alerts[b]]
       /\ removed' = removed \cup {a} /\ Touch({a})
       /\ UNCHANGED <<sims, checks, evaluation, reviewing>>

\* remove: the checks of the alert go with it.
RemoveAlert ==
    \E a \in DOMAIN alerts :
       /\ alerts' = [b \in DOMAIN alerts \ {a} |-> alerts[b]]
       /\ checks' = [p \in {q \in DOMAIN checks : q[2] # a} |-> checks[p]]
       /\ removed' = removed \cup {a} /\ Touch({a})
       /\ UNCHANGED <<sims, evaluation, reviewing>>

\* The upsert of a review: a new row is triggered as well.
Reviewed(p, checked) ==
    With(p, [checked |-> checked,
             triggered |-> IF p \in DOMAIN checks THEN checks[p].triggered ELSE TRUE])

\* updateCheck, in either direction.
UpdateCheck ==
    \E p \in Sims \X (DOMAIN alerts), checked \in BOOLEAN :
       /\ checks' = Reviewed(p, checked) /\ Touch({p})
       /\ UNCHANGED <<sims, alerts, removed, evaluation, reviewing>>

\* bulkCheckAlerts reads the SIMs of a list of phone numbers, ...
ReviewSims ==
    /\ reviewing.stage = "idle" /\ Touch({})
    /\ \E S \in SUBSET Sims \ {{}} :
          reviewing' = [stage |-> "alerts", sims |-> [s \in S |-> sims[s]], pairs |-> {}]
    /\ UNCHANGED <<tables, evaluation>>

\* ... then the active rules, which give it the pairs to mark, ...
ReviewAlerts ==
    /\ reviewing.stage = "alerts"
    /\ LET pairs == {p \in (DOMAIN reviewing.sims) \X {a \in Alerts : Live(a)} :
                       MatchesLoosely(alerts[p[2]], reviewing.sims[p[1]])}
       IN reviewing' = IF pairs = {} THEN Idle
                       ELSE [Idle EXCEPT !.stage = "mark", !.pairs = pairs]
    /\ UNCHANGED <<tables, evaluation, changed, changes>>

\* ... and marks one after the other.  It fails at an alert that is gone.
MarkReviewed ==
    /\ reviewing.stage = "mark"
    /\ \E p \in reviewing.pairs :
          IF p[2] \in DOMAIN alerts
          THEN /\ checks' = Reviewed(p, TRUE)
               /\ reviewing' = IF reviewing.pairs = {p} THEN Idle
                               ELSE [reviewing EXCEPT !.pairs = @ \ {p}]
               /\ changed' = [e \in Evaluations |->
                    IF pc[e] = "idle" THEN {} ELSE changed[e] \cup {p}]
          ELSE reviewing' = Idle /\ UNCHANGED <<checks, changed>>
    /\ UNCHANGED <<sims, alerts, removed, evaluation, changes>>

----------------------------------------------------------------------------
Next ==
    \/ \E e \in Evaluations : Start(e) \/ Evaluate(e)
    \/ ChangeSim \/ CreateAlert \/ ChangeAlert \/ RemoveAlert
    \/ UpdateCheck \/ ReviewSims \/ ReviewAlerts \/ MarkReviewed

Spec == Init /\ [][Next]_vars

----------------------------------------------------------------------------
(* Properties.                                                              *)

\* What the feature's specification says a rule applies to: the threshold is
\* inclusive and every field of the scope counts.
Applies(a, s) ==
    /\ alerts[a].active
    /\ alerts[a].threshold <= sims[s].usedMB
    /\ \A f \in DOMAIN alerts[a].scope : alerts[a].scope[f] \in sims[s].has[f]

\* A completed evaluation has left a check for every pair it was about that the
\* rules call for, a triggered or a reviewed one, unless the SIM or the alert was
\* changed while it ran.
EvaluationComplete ==
    \A e \in Evaluations : pc[e] = "done" =>
       \A s \in targets[e], a \in DOMAIN alerts :
          Applies(a, s) /\ s \notin changed[e] /\ a \notin changed[e] =>
             /\ <<s, a>> \in DOMAIN checks
             /\ \/ <<s, a>> \in changed[e]
                \/ checks[<<s, a>>].checked \/ checks[<<s, a>>].triggered

\* An evaluation creates a check only where an active rule applies, unless the
\* SIM or the alert was changed while it ran.
EvaluationSound ==
    [][\A e \in Evaluations : Create(e) =>
         \A p \in DOMAIN checks' \ DOMAIN checks :
            p[1] \notin changed[e] /\ p[2] \notin changed[e] => Applies(p[2], p[1])]_vars

\* No evaluation undoes a review, drops a check or takes back a trigger, however
\* it interleaves with reviews and other evaluations and wherever it fails.
ReviewsStand ==
    [][\A e \in Evaluations : Evaluate(e) =>
         \A p \in DOMAIN checks :
            /\ p \in DOMAIN checks' /\ checks'[p].checked = checks[p].checked
            /\ checks[p].triggered => checks'[p].triggered]_vars

\* A check created by a bulk review is of a SIM that met the alert's condition.
BulkReviewSound ==
    [][MarkReviewed => \A p \in DOMAIN checks' \ DOMAIN checks : Applies(p[2], p[1])]_vars
=============================================================================
