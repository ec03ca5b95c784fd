---------------------------- MODULE AccountLock ----------------------------
(***************************************************************************)
(* What runInTenant promises about the accounts, without status, table or  *)
(* token: an account is held by one call chain at a time, a chain that     *)
(* holds one gives it back, and a new process starts with all of them      *)
(* free.  SyncJobs implements it: see Lock there.                          *)
(***************************************************************************)
CONSTANTS Accounts, Calls

VARIABLE holder     \* Accounts -> the calls inside runInTenant for the account

Init == holder = [a \in Accounts |-> {}]

Acquire(a, c) ==
    /\ holder[a] = {}
    /\ holder' = [holder EXCEPT ![a] = {c}]

Release(a, c) ==
    /\ holder[a] = {c}
    /\ holder' = [holder EXCEPT ![a] = {}]

\* The process ends, and with it every chain.
Restart == holder' = [a \in Accounts |-> {}]

Next ==
    \/ \E a \in Accounts, c \in Calls : Acquire(a, c) \/ Release(a, c)
    \/ Restart

Spec == Init /\ [][Next]_holder
=============================================================================
