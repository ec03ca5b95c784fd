--------------------------- MODULE MCMonthlyUsage ---------------------------
(* MonthlyUsage for TLC: four SIMs, a master SIM and an unknown number.      *)
EXTENDS MonthlyUsage

CONSTANTS n1, n2, n3, n4, m1, x1

NormalSims == <<n1, n2, n3, n4>>
MasterSims == <<m1>>

\* The table is empty, or every SIM had used something when it was last asked about.
MCInit ==
    /\ Init
    /\ DOMAIN monthly \in {{}, Known \X {1}}
    /\ \A r \in DOMAIN monthly : monthly[r] = MaxMB

MCSpec == MCInit /\ [][Next]_vars
=============================================================================
