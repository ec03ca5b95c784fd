---------------------------- MODULE MCSimLabels -----------------------------
(* SimLabels for TLC. *)
EXTENDS SimLabels, TLC

CONSTANTS s1, s2, c1, c2, A, B, g1, o1, o2, phone, unknown

\* A phone number of one SIM, and one nobody has.
FoundIn == (phone :> {s1}) @@ (unknown :> {})

\* One code that one SIM has at least, one group with at most that SIM.
MCInit ==
    /\ Init
    /\ \E c \in Codes : Exists(c) /\ s1 \in Members(c)
    /\ \A g \in Groups : members[g] \subseteq {s1}

MCSpec == MCInit /\ [][Next]_vars

Same == Permutations(Codes) \cup Permutations(Operators) \cup Permutations(Names)
=============================================================================
