---------------------------- MODULE MCAlertChecks ---------------------------
(* AlertChecks for TLC: SIMs with and without the label, and rules that are  *)
(* off or ask for it.                                                        *)
EXTENDS AlertChecks, TLC

CONSTANTS s1, s2, a1, a2, sync, get

Scope == {"simCodeLabel", "groupId"}

Plain == [usedMB |-> 1, has |-> [f \in Scope |-> {}]]
Labelled == [usedMB |-> 1, has |-> [f \in Scope |-> {"x"}]]
TwoProfiles == {Plain, Labelled}

Rule(field, on) ==
    [threshold |-> 1, scope |-> [f \in field |-> "x"], active |-> on]
TwoRules == {Rule({}, FALSE), Rule({"simCodeLabel"}, TRUE)}
LabelRules == {Rule({"simCodeLabel"}, TRUE), Rule(Scope, TRUE)}

AnyLegacy == {{}} \cup {{p} : p \in Pairs}
NoLegacy == {{}}

\* There is something to be found at the start, and a legacy row only where it is
\* stamped.
MCInit ==
    /\ Init
    /\ \E s \in Sims : sims[s] = Labelled
    /\ \E a \in DOMAIN alerts : alerts[a].active
    /\ \A p \in DOMAIN checks : sims[p[1]] = Labelled /\ DOMAIN alerts = {p[2]}

MCSpec == MCInit /\ [][Next]_vars

Same == Permutations(Sims) \cup Permutations(Alerts)
=============================================================================
