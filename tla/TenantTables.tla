---------------------------- MODULE TenantTables ----------------------------
(***************************************************************************)
(* What the scoped database client promises about the rows of accounts,    *)
(* without logins, tokens, sessions and query arguments: every account has *)
(* a table of its own, and a step changes at most one, that of an account  *)
(* some request is at work in.  No row moves from one table to another.    *)
(* Accounts implements it: see Tables there.                               *)
(***************************************************************************)
CONSTANTS
    Accounts,
    Legacy          \* the account the rows from before there were accounts are in

VARIABLES
    tables,         \* Accounts -> the rows of the account
    atWork          \* the accounts of the requests under way

vars == <<tables, atWork>>

Init ==
    /\ \A a \in Accounts \ {Legacy} : tables[a] = {}
    /\ atWork = {}

Come(a) ==
    /\ atWork' = atWork \cup {a}
    /\ UNCHANGED tables

Go(a) ==
    /\ a \in atWork /\ atWork' = atWork \ {a}
    /\ UNCHANGED tables

\* Whatever becomes of the one table, the others are as they were.
Write(a) ==
    /\ a \in atWork
    /\ DOMAIN tables' = DOMAIN tables
    /\ \A b \in Accounts \ {a} : tables'[b] = tables[b]
    /\ UNCHANGED atWork

\* The process ends, and with it every request.
Restart ==
    /\ atWork' = {}
    /\ UNCHANGED tables

Next ==
    \/ \E a \in Accounts : Come(a) \/ Go(a) \/ Write(a)
    \/ Restart

Spec == Init /\ [][Next]_vars
=============================================================================
