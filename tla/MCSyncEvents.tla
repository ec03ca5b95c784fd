---------------------------- MODULE MCSyncEvents ----------------------------
(* SyncEvents, and SyncJobs in it, on small instances.                     *)
EXTENDS SyncEvents, TLC

CONSTANTS a1, a2

FirstAccount == [s \in Streams |-> a1]
OneAccount == {<<a1>>}
BothAccounts == {<<a1, a2>>}
SimsOfFirst == {<<a1, "syncSims">>}

ManualSymmetry == Permutations(Manual)
=============================================================================
