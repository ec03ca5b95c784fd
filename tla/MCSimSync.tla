----------------------------- MODULE MCSimSync ------------------------------
(* SimSync for TLC. *)
EXTENDS SimSync, TLC

CONSTANTS s1, s2, o1

\* No SIM, two SIMs, and two with one of them on two pages.
AllListings == {<<>>, <<s1, s2>>, <<s1, s2, s1>>}

\* Two SIMs only.
Pair == {<<s1, s2>>}
=============================================================================
