--------------------------- MODULE UpstreamPages ----------------------------
(***************************************************************************)
(* The loops of src/sync/sync.service.ts that fetch a listing page by page *)
(* through withRetry: quickSearch (SIMs), the dropdown (rating plans and   *)
(* SIM groups) and memberOfGr (the members of a group, saved as they       *)
(* come).                                                                  *)
(*                                                                         *)
(* The upstream is modelled from how the loops use it: a listing, cut into *)
(* pages when it is asked, that may change between two questions.  It is   *)
(* sorted where the loop asks for that; memberOfGr does not, and each of   *)
(* its pages may hold any of the members.  What a page says of itself      *)
(* (content, last, totalElements) is true at the moment of the answer.  A  *)
(* delay is a step that may be late.                                       *)
(***************************************************************************)
EXTENDS Integers, FiniteSets

CONSTANTS
    Items,          \* a set of numbers: the order of the listing
    PageSize,       \* size
    MaxAttempts,    \* maxAttempts of withRetry
    MaxChanges      \* bound: changes of the upstream

Kinds == {"quickSearch", "dropdown", "memberOfGr"}

ASSUME ItemsAssumption == Items \subseteq Nat /\ IsFiniteSet(Items)
ASSUME SizesAssumption == PageSize \in Nat \ {0} /\ MaxAttempts \in Nat \ {0}
ASSUME BoundsAssumption == MaxChanges \in Nat

VARIABLES
    upstream,   \* the listing as it is now
    kind,       \* the loop that runs
    stage,      \* what it does
    page,       \* page
    attempt,    \* attempt of withRetry
    fetched,    \* the result so far ...
    count,      \* ... and its length, a repeated item counted again
    batch,      \* memberOfGr: the members of the page still to be saved
    more,       \* memberOfGr: the page was not the last
    members,    \* table sim_group_members
    stayed,     \* history: in the upstream ever since the loop began
    drops,      \* history: how many items left it since then
    refusals,   \* history: answers in a row that were refused
    changes

loop == <<kind, stage, page, attempt, fetched, count, batch, more>>
vars == <<upstream, loop, members, stayed, drops, refusals, changes>>

Stages == {"idle", "ask", "save", "done", "failed"}

TypeOK ==
    /\ upstream \subseteq Items /\ kind \in Kinds /\ stage \in Stages
    /\ page \in Nat /\ count \in Nat /\ attempt \in 1..MaxAttempts
    /\ fetched \subseteq Items /\ batch \subseteq Items /\ members \subseteq Items
    /\ more \in BOOLEAN
    /\ stage = "save" => kind = "memberOfGr" /\ (batch # {} \/ more)
    /\ stayed \subseteq upstream /\ drops \in 0..MaxChanges
    /\ refusals \in 0..MaxAttempts /\ changes \in 0..MaxChanges

Init ==
    /\ upstream \in SUBSET Items /\ members = {}
    /\ kind = "quickSearch" /\ stage = "idle" /\ page = 0 /\ attempt = 1
    /\ fetched = {} /\ count = 0 /\ batch = {} /\ more = FALSE
    /\ stayed = {} /\ drops = 0 /\ refusals = 0 /\ changes = 0

----------------------------------------------------------------------------
(* The upstream.                                                            *)

Rank(x) == Cardinality({y \in upstream : y <= x})
Total == Cardinality(upstream)

\* content of page p, sorted: the items PageSize * p + 1 to PageSize * (p + 1).
Content(p) == {x \in upstream : PageSize * p < Rank(x) /\ Rank(x) <= PageSize * (p + 1)}

\* content of page p where no order is asked for: as many items, and any of them,
\* whatever the other pages held.
Unsorted(p) == {S \in SUBSET upstream : Cardinality(S) = Cardinality(Content(p))}

\* last of page p.
IsLast(p) == Total <= PageSize * (p + 1)

Changes == changes < MaxChanges /\ changes' = changes + 1

Add ==
    /\ Changes
    /\ \E x \in Items \ upstream : upstream' = upstream \cup {x}
    /\ UNCHANGED <<loop, members, stayed, drops, refusals>>

Drop ==
    /\ Changes
    /\ \E x \in upstream : upstream' = upstream \ {x} /\ stayed' = stayed \ {x}
    /\ drops' = drops + 1
    /\ UNCHANGED <<loop, members, refusals>>

----------------------------------------------------------------------------
(* The loops.                                                               *)

Begin ==
    /\ stage \in {"idle", "done", "failed"}
    /\ kind' \in Kinds /\ stage' = "ask" /\ page' = 0 /\ attempt' = 1
    /\ fetched' = {} /\ count' = 0 /\ batch' = {} /\ more' = FALSE
    /\ stayed' = upstream /\ drops' = 0 /\ refusals' = 0
    /\ UNCHANGED <<upstream, members, changes>>

\* Mutant of Turn: the attempts are those of the whole loop.
TurnImpatient(leave) ==
    IF leave THEN stage' = "done" /\ UNCHANGED <<page, attempt>>
    ELSE stage' = "ask" /\ page' = page + 1 /\ UNCHANGED attempt

\* The loop leaves at `break`, or asks for the next page, from its first attempt.
Turn(leave) ==
    IF leave THEN stage' = "done" /\ UNCHANGED <<page, attempt>>
    ELSE stage' = "ask" /\ page' = page + 1 /\ attempt' = 1

\* Mutant of Enough: the total counts from the page before.
EnoughEarly(length) == length + PageSize >= Total

\* The second condition of fetchAllSimsQuickSearch: totalElements are there.
Enough(length) == length >= Total

Listed ==
    /\ fetched' = fetched \cup Content(page)
    /\ count' = count + Cardinality(Content(page))

\* A page of fetchAllSimsQuickSearch.
QuickSearchPage ==
    /\ kind = "quickSearch" /\ Listed
    /\ Turn(IsLast(page) \/ Enough(count'))
    /\ UNCHANGED <<batch, more, members>>

\* A page of fetchAllRatingPlans or fetchAllGroupSims: they stop at a page that
\* is full as well.
DropdownPage ==
    /\ kind = "dropdown" /\ Listed
    /\ Turn(IsLast(page) \/ count' >= PageSize * (page + 1))
    /\ UNCHANGED <<batch, more, members>>

\* A page of syncGroupMembers: its members are saved before the next one is
\* asked for.
MembersPage ==
    /\ kind = "memberOfGr"
    /\ \E content \in Unsorted(page) :
          IF content = {} THEN Turn(TRUE) /\ UNCHANGED <<batch, more>>
          ELSE /\ stage' = "save" /\ batch' = content /\ more' = ~IsLast(page)
               /\ UNCHANGED <<page, attempt>>
    /\ UNCHANGED <<fetched, count, members>>

\* The upstream answers.
Answer ==
    /\ stage = "ask" /\ (QuickSearchPage \/ DropdownPage \/ MembersPage)
    /\ refusals' = 0
    /\ UNCHANGED <<upstream, kind, stayed, drops, changes>>

\* Mutant of Retry: without end.
RetryForever(retryable) ==
    IF retryable THEN stage' = stage /\ attempt' = attempt
    ELSE stage' = "failed" /\ UNCHANGED attempt

\* The catch of withRetry.
Retry(retryable) ==
    IF retryable /\ attempt < MaxAttempts THEN stage' = stage /\ attempt' = attempt + 1
    ELSE stage' = "failed" /\ UNCHANGED attempt

\* It refuses, or does not answer in time.  No answer, 429 and 5xx are tried
\* again after a delay.
Refuse ==
    /\ stage = "ask"
    /\ \E retryable \in BOOLEAN :
          /\ Retry(retryable)
          /\ refusals' = IF retryable THEN (refusals + 1) % (MaxAttempts + 1) ELSE 0
    /\ UNCHANGED <<upstream, kind, page, fetched, count, batch, more, members, stayed,
                   drops, changes>>

\* The upsert of one member, in no particular order.
SaveMember ==
    /\ stage = "save"
    /\ \E x \in batch :
          /\ members' = members \cup {x} /\ batch' = batch \ {x}
          /\ IF batch' # {} THEN UNCHANGED <<stage, page, attempt>> ELSE Turn(~more)
    /\ UNCHANGED <<upstream, kind, fetched, count, more, stayed, drops, refusals, changes>>

\* The database refuses it: the loop throws.
SaveFails ==
    /\ stage = "save" /\ stage' = "failed"
    /\ UNCHANGED <<upstream, kind, page, attempt, fetched, count, batch, more, members,
                   stayed, drops, refusals, changes>>

Step == Answer \/ Refuse \/ SaveMember \/ SaveFails

Next == Begin \/ Step \/ Add \/ Drop

Spec == Init /\ [][Next]_vars

\* Every question is answered or times out, and so does every upsert.
FairSpec == Spec /\ WF_vars(Step)

----------------------------------------------------------------------------
(* Properties.                                                              *)

\* A quickSearch that is through lists every SIM that was in the upstream all the
\* time but one for each that left it, whose followers move up a place and may
\* slip through between two pages.  SIMs that are added cost nothing: they move
\* the others down, which lists some twice and never stops the loop too early.
\* A dropdown list lacks nothing but what comes after its first page, at which the
\* loop stops.  The table has every member of a group that one page held; of a
\* larger group, whose pages come in no order, it may lack any.
ListingComplete ==
    stage = "done" =>
        /\ kind = "quickSearch" => Cardinality(stayed \ fetched) <= drops
        /\ kind = "memberOfGr" /\ page = 0 => stayed \subseteq members
        /\ kind = "dropdown" =>
              \A x \in stayed \ fetched : Cardinality({y \in fetched : y < x}) = PageSize

\* A loop only gives up on a page that was refused for good, or as often in a row
\* as withRetry promises, however many refusals the pages before it took.
GivesUpLate ==
    [][stage = "ask" /\ stage' = "failed" => refusals' \in {0, MaxAttempts}]_vars

\* A loop ends, though the upstream may refuse and change under it.
LoopEnds == stage \in {"ask", "save"} ~> stage \in {"done", "failed"}

----------------------------------------------------------------------------
(* What that rests on, as safety.                                           *)

Running == stage \in {"ask", "save"}

\* What is left of a loop: pages, of which there are no more than items, and at a
\* page the attempts, and then the members to save.
PagesLeft == Cardinality(Items) - page
LeftAtPage ==
    IF stage = "ask" THEN Cardinality(Items) + 1 + MaxAttempts - attempt
    ELSE Cardinality(batch)

\* A loop asks for no page beyond all the items there are, whatever the upstream
\* said of its length from page to page.
PagesBounded == Running => page = 0 \/ PageSize * page < Cardinality(Items)

\* A loop never comes back to where it was: every answer, refusal and save ends it
\* or leaves it less to do.
LoopWindsDown ==
    [][Running /\ Running' =>
         \/ UNCHANGED loop
         \/ PagesLeft' \in 0 .. PagesLeft - 1
         \/ PagesLeft' = PagesLeft /\ LeftAtPage' \in 0 .. LeftAtPage - 1]_vars
=============================================================================
