------------------------- MODULE AlertChecksProofs --------------------------
(***************************************************************************)
(* Proofs about AlertChecks, for any SIMs, alerts, rules and number of     *)
(* evaluations at once: what a completed evaluation has left, what it may  *)
(* create, and that it undoes nothing.                                     *)
(***************************************************************************)
EXTENDS AlertChecks, TLAPS

\* The tables and the bulk review.
TablesTyped ==
    /\ sims \in [Sims -> Profiles]
    /\ DOMAIN alerts \subseteq Alerts /\ alerts \in [DOMAIN alerts -> Rules]
    /\ DOMAIN checks \subseteq Sims \X (DOMAIN alerts) /\ checks \in [DOMAIN checks -> Check]
    /\ removed \subseteq Alerts \ DOMAIN alerts
    /\ reviewing.stage \in {"idle", "alerts", "mark"}
    /\ DOMAIN reviewing.sims \subseteq Sims
    /\ reviewing.pairs \subseteq Pairs
    /\ reviewing = [stage |-> reviewing.stage, sims |-> reviewing.sims, pairs |-> reviewing.pairs]

Inside(e) == pc[e] \in {"find", "create", "stamp"}

\* The variables of an evaluation, and what it has forgotten.
Shaped(e) ==
    /\ pc[e] \in Places
    /\ targets[e] \subseteq Sims
    /\ DOMAIN active[e] \subseteq Alerts /\ active[e] \in [DOMAIN active[e] -> Rules]
    /\ found[e] \subseteq targets[e]
    /\ current[e] \in Pairs \cup {NoPair}
    /\ Inside(e) => current[e] \in Pairs
    /\ ~Inside(e) => found[e] = {}
    /\ pc[e] \in {"idle", "rules", "done"} => DOMAIN active[e] = {}
    /\ changed[e] \subseteq Sims \cup Alerts \cup Pairs

\* The rules it still holds are the ones there are, unless they changed since.
HoldsRules(e) ==
    \A a \in DOMAIN active[e] :
       a \notin changed[e] => Live(a) /\ active[e][a] = alerts[a]

\* The SIMs it still holds meet the current rule, unless something changed.
HoldsSims(e) ==
    Inside(e) =>
       \A s \in found[e] \cup {current[e][1]} :
          s \notin changed[e] /\ current[e][2] \notin changed[e] =>
             current[e][2] \in DOMAIN alerts /\ Applies(current[e][2], s)

Filed(e, s, a) ==
    /\ <<s, a>> \in DOMAIN checks
    /\ \/ <<s, a>> \in changed[e]
       \/ checks[<<s, a>>].checked \/ checks[<<s, a>>].triggered

\* The pair is still to come, or done.
Accounted(e, s, a) ==
    \/ pc[e] = "rules"
    \/ a \in DOMAIN active[e]
    \/ Inside(e) /\ current[e][2] = a /\ s \in found[e]
    \/ Inside(e) /\ current[e] = <<s, a>>
    \/ Filed(e, s, a)

LosesNone(e) ==
    pc[e] # "idle" =>
       \A s \in targets[e], a \in DOMAIN alerts :
          Applies(a, s) /\ s \notin changed[e] /\ a \notin changed[e] => Accounted(e, s, a)

Sound(e) == Shaped(e) /\ HoldsRules(e) /\ HoldsSims(e) /\ LosesNone(e)

\* A function on the evaluations.
IsFor(f) == f = [e \in Evaluations |-> f[e]]

Kept ==
    /\ changes \in 0..MaxChanges
    /\ pc \in [Evaluations -> Places]
    /\ targets \in [Evaluations -> SUBSET Sims]
    /\ changed \in [Evaluations -> SUBSET (Sims \cup Alerts \cup Pairs)]
    /\ IsFor(active) /\ IsFor(found) /\ IsFor(current)
    /\ TablesTyped
    /\ \A e \in Evaluations : Sound(e)

\* The variables of the evaluation e.
Own(e) == <<pc[e], targets[e], active[e], found[e], current[e], changed[e]>>

\* Checks are added, reviewed ones stay so and triggered ones too.
ChecksGrow ==
    \A p \in DOMAIN checks :
       /\ p \in DOMAIN checks' /\ checks'[p].checked = checks[p].checked
       /\ checks[p].triggered => checks'[p].triggered

----------------------------------------------------------------------------
(* What others do to an evaluation.                                        *)

LEMMA OtherKeeps ==
    ASSUME NEW e \in Evaluations, Sound(e), UNCHANGED <<sims, alerts, Own(e)>>, ChecksGrow
    PROVE  Sound(e)'
  <1>1. UNCHANGED <<pc[e], targets[e], active[e], found[e], current[e], changed[e]>>
    BY DEF Own
  <1>2. Shaped(e)'
    BY <1>1 DEF Sound, Shaped, Inside
  <1>3. HoldsRules(e)'
    BY <1>1 DEF Sound, HoldsRules, Live
  <1>4. HoldsSims(e)'
    BY <1>1 DEF Sound, HoldsSims, Inside, Applies
  <1>5. LosesNone(e)'
    BY <1>1 DEF Sound, LosesNone, Applies, Accounted, Filed, Inside, ChecksGrow
  <1> QED
    BY <1>2, <1>3, <1>4, <1>5 DEF Sound

\* SIMs, rules and checks change, and the history says which.
LEMMA ChangeKeeps ==
    ASSUME NEW e \in Evaluations, Sound(e), Kept,
           UNCHANGED evaluation, NEW S \in SUBSET (Sims \cup Alerts \cup Pairs),
           changed'[e] = IF pc[e] = "idle" THEN {} ELSE changed[e] \cup S,
           \A s \in Sims \ S : sims'[s] = sims[s],
           \A a \in Alerts \ S :
              /\ a \in DOMAIN alerts' <=> a \in DOMAIN alerts
              /\ a \in DOMAIN alerts => alerts'[a] = alerts[a],
           DOMAIN alerts' \subseteq Alerts,
           \A p \in DOMAIN checks : p[2] \in DOMAIN alerts' =>
              p \in DOMAIN checks' /\ (p \in S \/ checks'[p] = checks[p])
    PROVE  Sound(e)'
  <1>1. UNCHANGED <<pc[e], targets[e], active[e], found[e], current[e]>>
    BY DEF evaluation
  <1>2. Shaped(e)'
    BY <1>1 DEF Sound, Shaped, Inside
  <1>3. CASE pc[e] = "idle"
    BY <1>1, <1>2, <1>3 DEF Sound, Shaped, HoldsRules, HoldsSims, LosesNone, Inside
  <1>4. CASE pc[e] # "idle"
    <2>1. changed'[e] = changed[e] \cup S
      BY <1>4
    <2>2. \A s \in Sims, a \in Alerts :
             s \notin changed'[e] /\ a \notin changed'[e] =>
                /\ a \in DOMAIN alerts' <=> a \in DOMAIN alerts
                /\ a \in DOMAIN alerts => (Applies(a, s)' <=> Applies(a, s))
      BY <2>1 DEF Applies
    <2>3. HoldsRules(e)'
      BY <1>1, <2>1 DEF Sound, Shaped, HoldsRules, Live
    <2>4. HoldsSims(e)'
      <3> SUFFICES ASSUME Inside(e), NEW s \in found[e] \cup {current[e][1]},
                          s \notin changed'[e], current[e][2] \notin changed'[e]
                   PROVE  current[e][2] \in DOMAIN alerts' /\ Applies(current[e][2], s)'
        BY <1>1 DEF HoldsSims, Inside
      <3>1. s \in Sims /\ current[e][2] \in Alerts
        BY DEF Sound, Shaped, Pairs
      <3>2. current[e][2] \in DOMAIN alerts /\ Applies(current[e][2], s)
        BY <2>1 DEF Sound, HoldsSims
      <3> QED
        BY <1>1, <2>2, <3>1, <3>2 DEF Applies
    <2>5. LosesNone(e)'
      <3> SUFFICES ASSUME NEW s \in targets[e], NEW a \in DOMAIN alerts', Applies(a, s)',
                          s \notin changed'[e], a \notin changed'[e]
                   PROVE  Accounted(e, s, a)'
        BY <1>1 DEF LosesNone
      <3>1. s \in Sims /\ a \in Alerts
        BY DEF Sound, Shaped
      <3>2. a \in DOMAIN alerts /\ Applies(a, s)
        BY <2>2, <3>1
      <3>3. Accounted(e, s, a)
        BY <1>4, <2>1, <3>2 DEF Sound, LosesNone
      <3>4. Filed(e, s, a) => Filed(e, s, a)'
        BY <2>1, <3>1 DEF Filed
      <3> QED
        BY <1>1, <3>3, <3>4 DEF Accounted, Inside
    <2> QED
      BY <1>2, <2>3, <2>4, <2>5 DEF Sound
  <1> QED
    BY <1>3, <1>4
----------------------------------------------------------------------------
(* The steps of an evaluation.                                             *)

\* A step of e leaves the other evaluations and the rules alone.
Framed(e) ==
    /\ pc' \in [Evaluations -> Places]
    /\ targets' \in [Evaluations -> SUBSET Sims]
    /\ changed' \in [Evaluations -> SUBSET (Sims \cup Alerts \cup Pairs)]
    /\ IsFor(active') /\ IsFor(found') /\ IsFor(current')
    /\ \A o \in Evaluations \ {e} : UNCHANGED Own(o)
    /\ UNCHANGED <<sims, alerts, removed, reviewing, changes>>
    /\ ChecksGrow
    /\ DOMAIN checks' \subseteq Sims \X (DOMAIN alerts) /\ checks' \in [DOMAIN checks' -> Check]

LEMMA FramedKeeps ==
    ASSUME Kept, NEW e \in Evaluations, Framed(e), Sound(e)'
    PROVE  Kept'
  <1>1. \A o \in Evaluations \ {e} : Sound(o)'
    <2> SUFFICES ASSUME NEW o \in Evaluations \ {e} PROVE Sound(o)'
      OBVIOUS
    <2>1. Sound(o) /\ UNCHANGED <<sims, alerts, Own(o)>> /\ ChecksGrow
      BY DEF Kept, Framed
    <2> QED
      BY <2>1, OtherKeeps
  <1>2. TablesTyped'
    BY DEF Kept, Framed, TablesTyped
  <1>3. changes' \in 0..MaxChanges
    BY DEF Kept, Framed
  <1> QED
    BY <1>1, <1>2, <1>3 DEF Kept, Framed

\* Where an evaluation goes, with what it holds.
Goes(e, place, A, F, C) ==
    /\ pc' = [pc EXCEPT ![e] = place]
    /\ active' = [active EXCEPT ![e] = A]
    /\ found' = [found EXCEPT ![e] = F]
    /\ current' = [current EXCEPT ![e] = C]

LEMMA GoesOwn ==
    ASSUME Kept, NEW e \in Evaluations, NEW place \in Places, NEW A, NEW F, NEW C,
           Goes(e, place, A, F, C)
    PROVE  /\ pc' \in [Evaluations -> Places]
           /\ IsFor(active') /\ IsFor(found') /\ IsFor(current')
           /\ pc'[e] = place /\ active'[e] = A /\ found'[e] = F /\ current'[e] = C
           /\ \A o \in Evaluations \ {e} :
                 UNCHANGED <<pc[o], active[o], found[o], current[o]>>
  BY DEF Kept, Goes, IsFor

LEMMA GoesFramed ==
    ASSUME Kept, NEW e \in Evaluations, NEW place \in Places, NEW A, NEW F, NEW C,
           Goes(e, place, A, F, C),
           UNCHANGED <<tables, targets, reviewing, changed, changes>>
    PROVE  Framed(e)
  BY GoesOwn DEF Kept, tables, TablesTyped, Framed, Own, ChecksGrow

\* NextSim as one of three ways to go.
LEMMA NextSimGoes ==
    ASSUME Kept, NEW e \in Evaluations, NextSim(e)
    PROVE  \/ \E s \in found[e] :
                 Goes(e, "find", active[e], found[e] \ {s}, <<s, current[e][2]>>)
           \/ /\ found[e] = {} /\ DOMAIN active[e] # {}
              /\ Goes(e, "sims", active[e], found[e], current[e])
           \/ /\ found[e] = {} /\ DOMAIN active[e] = {}
              /\ Goes(e, "done", Empty, {}, NoPair)
  <1>1. IsFor(active) /\ IsFor(found) /\ IsFor(current)
    BY DEF Kept
  <1>2. /\ active = [active EXCEPT ![e] = active[e]] /\ found = [found EXCEPT ![e] = found[e]]
        /\ current = [current EXCEPT ![e] = current[e]]
    BY <1>1 DEF IsFor
  <1>3. CASE found[e] = {} /\ DOMAIN active[e] = {} /\ Stop(e, "done")
    BY <1>3 DEF Stop, Goes
  <1>4. CASE /\ found[e] = {} /\ DOMAIN active[e] # {}
             /\ pc' = [pc EXCEPT ![e] = "sims"] /\ UNCHANGED <<active, found, current>>
    BY <1>2, <1>4 DEF Goes
  <1>5. ASSUME NEW s \in found[e],
               /\ pc' = [pc EXCEPT ![e] = "find"]
               /\ current' = [current EXCEPT ![e] = <<s, current[e][2]>>]
               /\ found' = [found EXCEPT ![e] = @ \ {s}]
               /\ UNCHANGED active
        PROVE  Goes(e, "find", active[e], found[e] \ {s}, <<s, current[e][2]>>)
    <2>1. found' = [found EXCEPT ![e] = found[e] \ {s}]
      BY <1>1, <1>5 DEF IsFor
    <2> QED
      BY <1>2, <1>5, <2>1 DEF Goes
  <1> QED
    BY <1>3, <1>4, <1>5 DEF NextSim

LEMMA ThrowSound ==
    ASSUME Kept, NEW e \in Evaluations, Throw(e)
    PROVE  Goes(e, "idle", Empty, {}, NoPair) /\ Sound(e)'
  <1>1. Goes(e, "idle", Empty, {}, NoPair)
    BY DEF Throw, Stop, Goes
  <1>2. pc'[e] = "idle" /\ active'[e] = Empty /\ found'[e] = {} /\ current'[e] = NoPair
    BY <1>1, GoesOwn DEF Places
  <1>3. targets'[e] = {} /\ changed'[e] = {}
    BY DEF Throw, Kept
  <1>4. DOMAIN Empty = {} /\ Empty \in [{} -> Rules]
    BY DEF Empty
  <1> QED
    BY <1>1, <1>2, <1>3, <1>4
    DEF Sound, Shaped, HoldsRules, HoldsSims, LosesNone, Inside, Places

LEMMA ThrowFramed ==
    ASSUME Kept, NEW e \in Evaluations, Throw(e), UNCHANGED <<tables, reviewing, changes>>
    PROVE  Framed(e)
  <1>1. Goes(e, "idle", Empty, {}, NoPair) /\ "idle" \in Places
    BY ThrowSound DEF Places
  <1>2. /\ targets' \in [Evaluations -> SUBSET Sims]
        /\ changed' \in [Evaluations -> SUBSET (Sims \cup Alerts \cup Pairs)]
        /\ \A o \in Evaluations \ {e} : UNCHANGED <<targets[o], changed[o]>>
    BY DEF Throw, Kept
  <1> QED
    BY <1>1, <1>2, GoesOwn DEF Kept, tables, TablesTyped, Framed, Own, ChecksGrow

\* The pair the evaluation is at is filed, and it goes on.
LEMMA NextSimSound ==
    ASSUME Kept, NEW e \in Evaluations, Inside(e), NextSim(e), ChecksGrow,
           UNCHANGED <<sims, alerts, targets, changed>>,
           NEW p, p = current[e], Filed(e, p[1], p[2])'
    PROVE  Sound(e)'
  <1>1. Sound(e) /\ current[e] \in Sims \X Alerts /\ pc[e] # "idle" /\ pc[e] # "rules"
    BY DEF Kept, Sound, Shaped, Inside, Pairs
  <1>2. /\ \A s \in Sims, a \in Alerts : Filed(e, s, a) => Filed(e, s, a)'
        /\ \A s \in Sims, a \in Alerts : current[e] = <<s, a>> => Filed(e, s, a)'
    BY DEF Filed, ChecksGrow
  <1>3. ASSUME NEW s \in found[e],
               Goes(e, "find", active[e], found[e] \ {s}, <<s, current[e][2]>>)
        PROVE  Sound(e)'
    <2>1. /\ pc'[e] = "find" /\ active'[e] = active[e] /\ found'[e] = found[e] \ {s}
          /\ current'[e] = <<s, current[e][2]>>
      BY <1>3, GoesOwn DEF Places
    <2>2. s \in Sims /\ <<s, current[e][2]>> \in Pairs
      BY <1>1, <1>3 DEF Sound, Shaped, Pairs
    <2>3. Shaped(e)' /\ HoldsRules(e)'
      BY <1>1, <2>1, <2>2 DEF Sound, Shaped, HoldsRules, Inside, Places, Live
    <2>4. HoldsSims(e)'
      BY <1>1, <1>3, <2>1 DEF Sound, HoldsSims, Inside, Applies
    <2>5. LosesNone(e)'
      <3> SUFFICES ASSUME NEW t \in targets[e], NEW a \in DOMAIN alerts, Applies(a, t),
                          t \notin changed[e], a \notin changed[e]
                   PROVE  Accounted(e, t, a)'
        BY DEF LosesNone, Applies
      <3>1. Accounted(e, t, a) /\ t \in Sims /\ a \in Alerts
        BY <1>1 DEF Kept, TablesTyped, Sound, Shaped, LosesNone
      <3> QED
        BY <1>1, <1>2, <1>3, <2>1, <3>1 DEF Accounted, Inside
    <2> QED
      BY <2>3, <2>4, <2>5 DEF Sound
  <1>4. ASSUME found[e] = {}, NEW place \in {"sims", "done"}, NEW A, NEW C \in Pairs \cup {NoPair},
               Goes(e, place, A, {}, C),
               A = active[e] \/ (DOMAIN active[e] = {} /\ A = Empty),
               place = "done" => DOMAIN A = {}
        PROVE  Sound(e)'
    <2>1. /\ pc'[e] = place /\ active'[e] = A /\ found'[e] = {} /\ current'[e] = C
      BY <1>4, GoesOwn DEF Places
    <2>2. DOMAIN Empty = {} /\ Empty \in [{} -> Rules]
      BY DEF Empty
    <2>3. Shaped(e)' /\ HoldsRules(e)' /\ HoldsSims(e)'
      BY <1>1, <1>4, <2>1, <2>2
      DEF Sound, Shaped, HoldsRules, HoldsSims, Inside, Places, Live
    <2>4. LosesNone(e)'
      <3> SUFFICES ASSUME NEW t \in targets[e], NEW a \in DOMAIN alerts, Applies(a, t),
                          t \notin changed[e], a \notin changed[e]
                   PROVE  Accounted(e, t, a)'
        BY DEF LosesNone, Applies
      <3>1. Accounted(e, t, a) /\ t \in Sims /\ a \in Alerts
        BY <1>1 DEF Kept, TablesTyped, Sound, Shaped, LosesNone
      <3> QED
        BY <1>1, <1>2, <1>4, <2>1, <3>1 DEF Accounted, Inside
    <2> QED
      BY <2>3, <2>4 DEF Sound
  <1>5. DOMAIN Empty = {} /\ NoPair \in Pairs \cup {NoPair} /\ current[e] \in Pairs
    BY <1>1 DEF Empty, Pairs
  <1> QED
    BY <1>3, <1>4, <1>5, NextSimGoes
LEMMA StartStep ==
    ASSUME Kept, NEW e \in Evaluations, Start(e)
    PROVE  Kept'
  <1>1. PICK S \in SUBSET Sims : targets' = [targets EXCEPT ![e] = S]
    BY DEF Start
  <1>2. /\ pc' = [pc EXCEPT ![e] = "rules"] /\ changed' = [changed EXCEPT ![e] = {}]
        /\ UNCHANGED <<tables, active, found, current, reviewing, changes>>
        /\ pc[e] \in {"idle", "done"}
    BY DEF Start
  <1>3. /\ pc'[e] = "rules" /\ targets'[e] = S /\ changed'[e] = {}
        /\ \A o \in Evaluations \ {e} : UNCHANGED <<pc[o], targets[o], changed[o]>>
    BY <1>1, <1>2 DEF Kept
  <1>4. Framed(e)
    BY <1>1, <1>2, <1>3 DEF Kept, TablesTyped, tables, Framed, Own, ChecksGrow, Places
  <1>5. Sound(e)'
    BY <1>2, <1>3
    DEF Kept, Sound, Shaped, HoldsRules, HoldsSims, LosesNone, Accounted, Inside, Places
  <1> QED
    BY <1>4, <1>5, FramedKeeps

LEMMA LoadRulesStep ==
    ASSUME Kept, NEW e \in Evaluations, LoadRules(e)
    PROVE  Kept'
  <1> DEFINE live == {a \in Alerts : Live(a)}
             rules == [a \in live |-> alerts[a]]
  <1>1. pc[e] = "rules" /\ UNCHANGED <<tables, targets, reviewing, changed, changes>> /\ Sound(e)
    BY DEF LoadRules, Kept
  <1>2. \A s, a : a \in DOMAIN alerts /\ Applies(a, s) => a \in live
    BY DEF Kept, TablesTyped, Applies, Live
  <1>3. CASE live = {}
    <2>1. Goes(e, "done", Empty, {}, NoPair)
      BY <1>3 DEF LoadRules, Stop, Goes
    <2>2. pc'[e] = "done" /\ active'[e] = Empty /\ found'[e] = {} /\ current'[e] = NoPair
      BY <2>1, GoesOwn DEF Places
    <2>3. DOMAIN Empty = {} /\ Empty \in [{} -> Rules]
      BY DEF Empty
    <2>4. Sound(e)'
      BY <1>1, <1>2, <1>3, <2>2, <2>3
      DEF tables, Sound, Shaped, HoldsRules, HoldsSims, LosesNone, Inside, Places, Applies
    <2> QED
      BY <1>1, <2>1, <2>4, GoesFramed, FramedKeeps DEF Places
  <1>4. CASE live # {}
    <2>1. Goes(e, "sims", rules, found[e], current[e])
      <3>1. /\ pc' = [pc EXCEPT ![e] = "sims"] /\ active' = [active EXCEPT ![e] = rules]
            /\ UNCHANGED <<found, current>>
        BY <1>4 DEF LoadRules
      <3>2. found = [found EXCEPT ![e] = found[e]] /\ current = [current EXCEPT ![e] = current[e]]
        BY DEF Kept, IsFor
      <3> QED
        BY <3>1, <3>2 DEF Goes
    <2>2. /\ pc'[e] = "sims" /\ active'[e] = rules /\ found'[e] = found[e]
          /\ current'[e] = current[e]
      BY <2>1, GoesOwn DEF Places
    <2>3. /\ DOMAIN rules = live /\ live \subseteq DOMAIN alerts
          /\ \A a \in live : rules[a] = alerts[a] /\ Live(a)
      BY DEF Live
    <2>4. rules \in [DOMAIN rules -> Rules] /\ live \subseteq Alerts
      BY <2>3 DEF Kept, TablesTyped
    <2> HIDE DEF rules
    <2>5. Shaped(e)' /\ HoldsSims(e)'
      BY <1>1, <2>2, <2>3, <2>4 DEF Sound, Shaped, HoldsSims, Inside, Places
    <2>6. HoldsRules(e)'
      BY <1>1, <2>2, <2>3 DEF tables, HoldsRules, Live
    <2>7. LosesNone(e)'
      BY <1>1, <1>2, <2>2, <2>3 DEF tables, LosesNone, Accounted, Applies
    <2> QED
      BY <1>1, <2>1, <2>5, <2>6, <2>7, GoesFramed, FramedKeeps DEF Places, Sound
  <1> QED
    BY <1>3, <1>4

LEMMA QuerySimsStep ==
    ASSUME Kept, NEW e \in Evaluations, QuerySims(e)
    PROVE  Kept'
  <1> DEFINE matching(a) == {s \in targets[e] : Matches(active[e][a], sims[s])}
             rest(a) == [b \in DOMAIN active[e] \ {a} |-> active[e][b]]
  <1>1. pc[e] = "sims" /\ UNCHANGED <<tables, targets, reviewing, changed, changes>> /\ Sound(e)
    BY DEF QuerySims, Kept
  <1>2. IsFor(found) /\ IsFor(current) /\ found[e] = {}
    BY <1>1 DEF Kept, Sound, Shaped, Inside
  <1>3. PICK a \in DOMAIN active[e] :
           \/ \E s \in matching(a) :
                 Goes(e, "find", rest(a), matching(a) \ {s}, <<s, a>>)
           \/ matching(a) = {} /\ Goes(e, "sims", rest(a), found[e], current[e])
           \/ /\ matching(a) = {} /\ DOMAIN rest(a) = {}
              /\ Goes(e, "done", Empty, {}, NoPair)
    <2>1. PICK a \in DOMAIN active[e] :
           \/ \E s \in matching(a) :
                /\ pc' = [pc EXCEPT ![e] = "find"]
                /\ current' = [current EXCEPT ![e] = <<s, a>>]
                /\ found' = [found EXCEPT ![e] = matching(a) \ {s}]
                /\ active' = [active EXCEPT ![e] = rest(a)]
          \/ /\ matching(a) = {} /\ DOMAIN rest(a) # {}
             /\ active' = [active EXCEPT ![e] = rest(a)]
             /\ UNCHANGED <<pc, found, current>>
          \/ /\ matching(a) = {} /\ DOMAIN rest(a) = {}
             /\ Stop(e, "done")
      BY DEF QuerySims
    <2> HIDE DEF matching, rest
    <2>2. /\ found = [found EXCEPT ![e] = found[e]] /\ current = [current EXCEPT ![e] = current[e]]
          /\ pc = [pc EXCEPT ![e] = "sims"]
      BY <1>1, <1>2 DEF IsFor, Kept
    <2> QED
      BY <2>1, <2>2 DEF Goes, Stop
  <1>4. \A s \in targets[e] : s \notin changed[e] /\ a \notin changed[e] =>
           /\ a \in DOMAIN alerts
           /\ s \in matching(a) <=> Applies(a, s)
    BY <1>1 DEF Sound, Shaped, HoldsRules, Live, Matches, Applies, Kept, TablesTyped
  <1>5. DOMAIN rest(a) = DOMAIN active[e] \ {a} /\ rest(a) \in [DOMAIN rest(a) -> Rules]
        /\ (\A b \in DOMAIN rest(a) : rest(a)[b] = active[e][b])
        /\ matching(a) \subseteq targets[e] /\ a \in Alerts
    BY <1>1 DEF Sound, Shaped
  <1>6. \A s, b : Filed(e, s, b) => Filed(e, s, b)'
    BY <1>1 DEF Filed, tables
  <1> HIDE DEF matching, rest
  <1>7. ASSUME NEW place \in Places, NEW A, NEW F \in SUBSET matching(a),
               NEW C \in Pairs \cup {NoPair}, Goes(e, place, A, F, C),
               place \in {"find", "sims", "done"}, A = rest(a) \/ DOMAIN rest(a) = {},
               A = rest(a) \/ A = Empty, place # "done" => A = rest(a),
               place = "done" => A = Empty,
               IF place = "find" THEN C \in Pairs /\ matching(a) = F \cup {C[1]} /\ C[2] = a
               ELSE matching(a) = {}
        PROVE  Kept'
    <2>1. pc'[e] = place /\ active'[e] = A /\ found'[e] = F /\ current'[e] = C
      BY <1>7, GoesOwn
    <2>2. DOMAIN Empty = {} /\ Empty \in [{} -> Rules]
      BY DEF Empty
    <2>3. DOMAIN A = DOMAIN rest(a) /\ A \in [DOMAIN A -> Rules]
          /\ (\A b \in DOMAIN A : A[b] = active[e][b])
      BY <1>5, <1>7, <2>2
    <2>4. Shaped(e)'
      BY <1>1, <1>5, <1>7, <2>1, <2>2, <2>3 DEF Sound, Shaped, Inside, Places
    <2>5. HoldsRules(e)'
      BY <1>1, <1>5, <2>1, <2>3 DEF Sound, HoldsRules, tables, Live
    <2>6. HoldsSims(e)'
      BY <1>1, <1>4, <1>5, <1>7, <2>1 DEF HoldsSims, Inside, Applies, tables
    <2>7. LosesNone(e)'
      <3> SUFFICES ASSUME NEW t \in targets[e], NEW b \in DOMAIN alerts, Applies(b, t),
                          t \notin changed[e], b \notin changed[e]
                   PROVE  Accounted(e, t, b)'
        BY <1>1 DEF LosesNone, Applies, tables
      <3>1. Accounted(e, t, b)
        BY <1>1 DEF Sound, LosesNone
      <3>2. CASE b \in DOMAIN active[e] \ {a}
        BY <1>5, <2>1, <2>3, <3>2 DEF Accounted
      <3>3. CASE b = a
        <4>1. t \in matching(a) /\ place = "find"
          BY <1>4, <1>7, <3>3
        <4>2. t \in F \/ C = <<t, a>>
          BY <1>7, <4>1 DEF Pairs
        <4> QED
          BY <1>7, <2>1, <3>3, <4>1, <4>2 DEF Accounted, Inside
      <3>4. CASE Filed(e, t, b)
        BY <1>6, <3>4 DEF Accounted
      <3> QED
        BY <1>1, <3>1, <3>2, <3>3, <3>4 DEF Accounted, Inside
    <2>8. Framed(e)
      BY <1>1, <1>7, GoesFramed
    <2> QED
      BY <2>4, <2>5, <2>6, <2>7, <2>8, FramedKeeps DEF Sound
  <1>8. ASSUME NEW s \in matching(a), Goes(e, "find", rest(a), matching(a) \ {s}, <<s, a>>)
        PROVE  Kept'
    <2>1. <<s, a>> \in Pairs /\ matching(a) = (matching(a) \ {s}) \cup {<<s, a>>[1]}
      BY <1>1, <1>5 DEF Sound, Shaped, Pairs
    <2> QED
      BY <1>7, <1>8, <2>1 DEF Places
  <1>9. CASE matching(a) = {} /\ Goes(e, "sims", rest(a), found[e], current[e])
    <2>1. current[e] \in Pairs \cup {NoPair}
      BY <1>1 DEF Sound, Shaped
    <2> QED
      BY <1>2, <1>7, <1>9, <2>1 DEF Places
  <1>10. CASE matching(a) = {} /\ DOMAIN rest(a) = {} /\ Goes(e, "done", Empty, {}, NoPair)
    BY <1>7, <1>10 DEF Places
  <1> QED
    BY <1>3, <1>8, <1>9, <1>10
\* The pair the evaluation stays at, when it goes on from the query to the write.
LEMMA StaySound ==
    ASSUME Kept, NEW e \in Evaluations, Inside(e), NEW place \in {"create", "stamp"},
           pc' = [pc EXCEPT ![e] = place],
           UNCHANGED <<tables, targets, active, found, current, reviewing, changed, changes>>
    PROVE  Kept'
  <1>1. pc'[e] = place /\ \A o \in Evaluations \ {e} : pc'[o] = pc[o]
    BY DEF Kept
  <1>2. Framed(e)
    BY <1>1 DEF Kept, TablesTyped, tables, Framed, Own, ChecksGrow, Places
  <1>3. Sound(e)'
    BY <1>1 DEF Kept, Sound, Shaped, HoldsRules, HoldsSims, LosesNone, Accounted, Inside,
       Places, tables, Filed, Applies, Live
  <1> QED
    BY <1>2, <1>3, FramedKeeps

LEMMA NextSimFramed ==
    ASSUME Kept, NEW e \in Evaluations, NextSim(e),
           UNCHANGED <<sims, alerts, removed, targets, reviewing, changed, changes>>,
           ChecksGrow,
           DOMAIN checks' \subseteq Sims \X (DOMAIN alerts), checks' \in [DOMAIN checks' -> Check]
    PROVE  Framed(e)
  <1>1. \E place \in Places : \E A, F, C : Goes(e, place, A, F, C)
    BY NextSimGoes DEF Places
  <1>2. PICK place \in Places : \E A, F, C : Goes(e, place, A, F, C)
    BY <1>1
  <1>3. PICK A, F, C : Goes(e, place, A, F, C)
    BY <1>2
  <1> QED
    BY <1>3, GoesOwn DEF Kept, Framed, Own

LEMMA FindStep ==
    ASSUME Kept, NEW e \in Evaluations, Find(e)
    PROVE  Kept'
  <1> DEFINE p == current[e]
             legacy == p \in DOMAIN checks /\ ~checks[p].checked /\ ~checks[p].triggered
  <1>1. /\ pc[e] = "find" /\ UNCHANGED <<tables, targets, reviewing, changed, changes>>
        /\ Inside(e) /\ p \in Sims \X Alerts
    BY DEF Find, Inside, Kept, Sound, Shaped, Pairs
  <1>2. CASE pc' = [pc EXCEPT ![e] = "create"] /\ UNCHANGED <<active, found, current>>
    BY <1>1, <1>2, StaySound
  <1>3. CASE pc' = [pc EXCEPT ![e] = "stamp"] /\ UNCHANGED <<active, found, current>>
    BY <1>1, <1>3, StaySound
  <1>4. CASE p \in DOMAIN checks /\ ~legacy /\ NextSim(e)
    <2>1. PICK q : q = p
      OBVIOUS
    <2>2. q \in DOMAIN checks /\ q = <<q[1], q[2]>> /\ (checks[q].checked \/ checks[q].triggered)
      BY <1>1, <1>4, <2>1
    <2>3. Filed(e, q[1], q[2])'
      BY <1>1, <2>2 DEF Filed, tables
    <2>4. ChecksGrow /\ UNCHANGED <<sims, alerts, removed>>
      BY <1>1 DEF ChecksGrow, tables
    <2>5. Sound(e)'
      BY <1>1, <1>4, <2>1, <2>3, <2>4, NextSimSound
    <2>6. Framed(e)
      BY <1>1, <1>4, <2>4, NextSimFramed DEF Kept, TablesTyped, tables
    <2> QED
      BY <2>5, <2>6, FramedKeeps
  <1> QED
    BY <1>2, <1>3, <1>4 DEF Find

\* The write of the pair the evaluation is at.
LEMMA WriteStep ==
    ASSUME Kept, NEW e \in Evaluations, Inside(e),
           UNCHANGED <<sims, alerts, removed, reviewing, changes, targets, changed>>, NextSim(e),
           NEW p \in Pairs, p = current[e], p[2] \in DOMAIN alerts,
           p \in DOMAIN checks', DOMAIN checks' = DOMAIN checks \cup {p},
           checks' \in [DOMAIN checks' -> Check], checks'[p].triggered, ChecksGrow
    PROVE  Kept'
  <1>1. p = <<p[1], p[2]>> /\ p \in Sims \X (DOMAIN alerts)
    BY DEF Pairs
  <1>2. Filed(e, p[1], p[2])'
    BY <1>1 DEF Filed
  <1>3. DOMAIN checks' \subseteq Sims \X (DOMAIN alerts)
    BY <1>1 DEF Kept, TablesTyped
  <1>4. Sound(e)'
    BY <1>2, NextSimSound
  <1>5. Framed(e)
    BY <1>3, NextSimFramed
  <1> QED
    BY <1>4, <1>5, FramedKeeps

LEMMA CreateStep ==
    ASSUME Kept, NEW e \in Evaluations, Create(e)
    PROVE  Kept' /\ ChecksGrow
  <1> DEFINE p == current[e]
             new == [checked |-> FALSE, triggered |-> TRUE]
  <1>1. /\ pc[e] = "create" /\ UNCHANGED <<sims, alerts, removed, reviewing, changes>>
        /\ Inside(e) /\ p \in Pairs
    BY DEF Create, Inside, Kept, Sound, Shaped
  <1>2. CASE Throw(e) /\ UNCHANGED checks
    <2>1. UNCHANGED <<tables, reviewing, changes>>
      BY <1>1, <1>2 DEF tables
    <2> QED
      BY <1>2, <2>1, ThrowFramed, ThrowSound, FramedKeeps DEF ChecksGrow
  <1>3. CASE /\ p \notin DOMAIN checks /\ p[2] \in DOMAIN alerts /\ checks' = With(p, new)
             /\ NextSim(e) /\ UNCHANGED <<targets, changed>>
    <2>1. /\ DOMAIN checks' = DOMAIN checks \cup {p} /\ checks'[p] = new
          /\ \A q \in DOMAIN checks : checks'[q] = checks[q]
          /\ checks' \in [DOMAIN checks' -> Check]
      BY <1>3 DEF With, Check, Kept, TablesTyped
    <2>2. ChecksGrow
      BY <2>1 DEF ChecksGrow
    <2>3. checks'[p].triggered /\ p \in DOMAIN checks'
      BY <2>1
    <2>4. PICK q \in Pairs : q = p
      BY <1>1
    <2> QED
      BY <1>1, <1>3, <2>1, <2>2, <2>3, <2>4, WriteStep
  <1> QED
    BY <1>2, <1>3 DEF Create

LEMMA StampStep ==
    ASSUME Kept, NEW e \in Evaluations, Stamp(e)
    PROVE  Kept' /\ ChecksGrow
  <1> DEFINE p == current[e]
  <1>1. /\ pc[e] = "stamp" /\ UNCHANGED <<sims, alerts, removed, reviewing, changes>>
        /\ Inside(e) /\ p \in Pairs
    BY DEF Stamp, Inside, Kept, Sound, Shaped
  <1>2. CASE Throw(e) /\ UNCHANGED checks
    <2>1. UNCHANGED <<tables, reviewing, changes>>
      BY <1>1, <1>2 DEF tables
    <2> QED
      BY <1>2, <2>1, ThrowFramed, ThrowSound, FramedKeeps DEF ChecksGrow
  <1>3. CASE /\ p \in DOMAIN checks /\ checks' = [checks EXCEPT ![p].triggered = TRUE]
             /\ NextSim(e) /\ UNCHANGED <<targets, changed>>
    <2>1. checks \in [DOMAIN checks -> Check] /\ p[2] \in DOMAIN alerts
      BY <1>3 DEF Kept, TablesTyped
    <2>2. /\ DOMAIN checks' = DOMAIN checks \cup {p}
          /\ checks'[p] = [checks[p] EXCEPT !.triggered = TRUE]
          /\ \A q \in DOMAIN checks \ {p} : checks'[q] = checks[q]
      BY <1>3, <2>1
    <2>3. checks'[p] \in Check /\ checks'[p].triggered = TRUE
          /\ checks'[p].checked = checks[p].checked
      <3>1. checks[p] \in Check
        BY <1>3, <2>1
      <3> QED
        BY <2>2, <3>1 DEF Check
    <2>4. checks' \in [DOMAIN checks' -> Check]
      BY <1>3, <2>1, <2>2, <2>3
    <2>5. ChecksGrow
      BY <2>2, <2>3 DEF ChecksGrow
    <2>6. PICK q \in Pairs : q = p
      BY <1>1
    <2>7. checks'[q].triggered /\ q \in DOMAIN checks'
      BY <2>2, <2>3, <2>6
    <2> QED
      BY <1>1, <1>3, <2>1, <2>2, <2>4, <2>5, <2>6, <2>7, WriteStep
  <1> QED
    BY <1>2, <1>3 DEF Stamp
LEMMA EvaluateStep ==
    ASSUME Kept, NEW e \in Evaluations, Evaluate(e)
    PROVE  Kept' /\ ChecksGrow
  <1>1. CASE Create(e) \/ Stamp(e)
    BY <1>1, CreateStep, StampStep
  <1>2. CASE LoadRules(e) \/ QuerySims(e) \/ Find(e) \/ Fail(e)
    <2>1. UNCHANGED tables
      BY <1>2 DEF LoadRules, QuerySims, Find, Fail
    <2>2. CASE Fail(e)
      <3>1. Throw(e) /\ UNCHANGED <<tables, reviewing, changes>>
        BY <2>2 DEF Fail
      <3> QED
        BY <2>1, <3>1, ThrowFramed, ThrowSound, FramedKeeps DEF ChecksGrow, tables
    <2> QED
      BY <1>2, <2>1, <2>2, LoadRulesStep, QuerySimsStep, FindStep DEF ChecksGrow, tables
  <1> QED
    BY <1>1, <1>2 DEF Evaluate

----------------------------------------------------------------------------
(* The steps of everybody else.                                            *)

\* A step of others that tells the history what it changed.
Told(S) ==
    /\ changed' = [e \in Evaluations |-> IF pc[e] = "idle" THEN {} ELSE changed[e] \cup S]
    /\ changes' \in 0..MaxChanges
    /\ UNCHANGED evaluation
    /\ \A s \in Sims \ S : sims'[s] = sims[s]
    /\ \A a \in Alerts \ S :
          /\ a \in DOMAIN alerts' <=> a \in DOMAIN alerts
          /\ a \in DOMAIN alerts => alerts'[a] = alerts[a]
    /\ \A p \in DOMAIN checks : p[2] \in DOMAIN alerts' =>
          p \in DOMAIN checks' /\ (p \in S \/ checks'[p] = checks[p])

LEMMA ToldKeeps ==
    ASSUME Kept, NEW S \in SUBSET (Sims \cup Alerts \cup Pairs), Told(S), TablesTyped'
    PROVE  Kept'
  <1>1. \A e \in Evaluations : Sound(e)'
    <2> SUFFICES ASSUME NEW e \in Evaluations PROVE Sound(e)'
      OBVIOUS
    <2>1. Sound(e) /\ changed'[e] = IF pc[e] = "idle" THEN {} ELSE changed[e] \cup S
      BY DEF Kept, Told
    <2>2. DOMAIN alerts' \subseteq Alerts
      BY DEF TablesTyped
    <2> QED
      BY <2>1, <2>2, ChangeKeeps DEF Told
  <1>2. changed' \in [Evaluations -> SUBSET (Sims \cup Alerts \cup Pairs)]
    BY DEF Kept, Told
  <1>3. changes' \in 0..MaxChanges /\ UNCHANGED <<pc, targets, active, found, current>>
    BY DEF Told, evaluation
  <1> QED
    BY <1>1, <1>2, <1>3 DEF Kept

LEMMA TouchTells ==
    ASSUME Kept, NEW S, Touch(S)
    PROVE  /\ changed' = [e \in Evaluations |-> IF pc[e] = "idle" THEN {} ELSE changed[e] \cup S]
           /\ changes' \in 0..MaxChanges
  BY BoundsAssumption DEF Kept, Touch

LEMMA SimAndAlertSteps ==
    ASSUME Kept, ChangeSim \/ CreateAlert \/ ChangeAlert \/ RemoveAlert
    PROVE  Kept'
  <1>1. CASE ChangeSim
    <2>1. PICK s \in Sims, profile \in Profiles :
             /\ sims' = [sims EXCEPT ![s] = profile] /\ Touch({s})
             /\ UNCHANGED <<alerts, checks, removed, evaluation, reviewing>>
      BY <1>1 DEF ChangeSim
    <2>2. Told({s})
      BY <2>1, TouchTells DEF Told, Kept, TablesTyped
    <2>3. TablesTyped'
      BY <2>1 DEF Kept, TablesTyped
    <2> QED
      BY <2>2, <2>3, ToldKeeps
  <1>2. CASE CreateAlert
    <2>1. PICK a \in Alerts \ (DOMAIN alerts \cup removed), rule \in Rules :
             /\ alerts' = [b \in DOMAIN alerts \cup {a} |-> IF b = a THEN rule ELSE alerts[b]]
             /\ Touch({a})
             /\ UNCHANGED <<sims, checks, removed, evaluation, reviewing>>
      BY <1>2 DEF CreateAlert
    <2>2. /\ DOMAIN alerts' = DOMAIN alerts \cup {a}
          /\ \A b \in DOMAIN alerts : alerts'[b] = alerts[b]
          /\ alerts' \in [DOMAIN alerts' -> Rules]
      BY <2>1 DEF Kept, TablesTyped
    <2>3. Told({a})
      BY <2>1, <2>2, TouchTells DEF Told
    <2>4. TablesTyped'
      BY <2>1, <2>2 DEF Kept, TablesTyped
    <2> QED
      BY <2>3, <2>4, ToldKeeps
  <1>3. CASE ChangeAlert
    <2>1. PICK a \in DOMAIN alerts, rule \in Rules :
             /\ alerts' = [alerts EXCEPT ![a] = rule] /\ Touch({a})
             /\ UNCHANGED <<sims, checks, removed, evaluation, reviewing>>
      BY <1>3 DEF ChangeAlert
    <2>2. /\ a \in Alerts /\ DOMAIN alerts' = DOMAIN alerts
          /\ \A b \in DOMAIN alerts \ {a} : alerts'[b] = alerts[b]
          /\ alerts' \in [DOMAIN alerts' -> Rules]
      BY <2>1 DEF Kept, TablesTyped
    <2>3. Told({a})
      BY <2>1, <2>2, TouchTells DEF Told
    <2>4. TablesTyped'
      BY <2>1, <2>2 DEF Kept, TablesTyped
    <2> QED
      BY <2>2, <2>3, <2>4, ToldKeeps
  <1>4. CASE RemoveAlert
    <2>1. PICK a \in DOMAIN alerts :
             /\ alerts' = [b \in DOMAIN alerts \ {a} |-> alerts[b]]
             /\ checks' = [p \in {q \in DOMAIN checks : q[2] # a} |-> checks[p]]
             /\ removed' = removed \cup {a} /\ Touch({a})
             /\ UNCHANGED <<sims, evaluation, reviewing>>
      BY <1>4 DEF RemoveAlert
    <2>2. /\ a \in Alerts /\ DOMAIN alerts' = DOMAIN alerts \ {a}
          /\ \A b \in DOMAIN alerts' : alerts'[b] = alerts[b]
          /\ alerts' \in [DOMAIN alerts' -> Rules]
      BY <2>1 DEF Kept, TablesTyped
    <2>3. /\ DOMAIN checks' = {q \in DOMAIN checks : q[2] # a}
          /\ \A p \in DOMAIN checks' : checks'[p] = checks[p]
          /\ checks' \in [DOMAIN checks' -> Check]
      BY <2>1 DEF Kept, TablesTyped
    <2>4. DOMAIN checks' \subseteq Sims \X (DOMAIN alerts')
      BY <2>2, <2>3 DEF Kept, TablesTyped
    <2>5. Told({a})
      BY <2>1, <2>2, <2>3, TouchTells DEF Told
    <2>6. TablesTyped'
      BY <2>1, <2>2, <2>3, <2>4 DEF Kept, TablesTyped
    <2> QED
      BY <2>2, <2>5, <2>6, ToldKeeps
  <1> QED
    BY <1>1, <1>2, <1>3, <1>4

LEMMA ReviewedTyped ==
    ASSUME Kept, NEW p \in Pairs, p[2] \in DOMAIN alerts, NEW checked \in BOOLEAN,
           checks' = Reviewed(p, checked), UNCHANGED alerts
    PROVE  /\ DOMAIN checks' \subseteq Sims \X (DOMAIN alerts')
           /\ checks' \in [DOMAIN checks' -> Check]
           /\ \A q \in DOMAIN checks : q \in DOMAIN checks' /\ (q = p \/ checks'[q] = checks[q])
  <1> DEFINE row == [checked |-> checked,
                     triggered |-> IF p \in DOMAIN checks THEN checks[p].triggered ELSE TRUE]
  <1>1. p \in DOMAIN checks => checks[p].triggered \in BOOLEAN
    BY DEF Kept, TablesTyped, Check
  <1>2. row \in Check
    BY <1>1 DEF Check
  <1>3. checks' = With(p, row)
    BY DEF Reviewed
  <1> HIDE DEF row
  <1>4. p \in Sims \X (DOMAIN alerts)
    BY DEF Pairs
  <1> QED
    BY <1>2, <1>3, <1>4 DEF With, Kept, TablesTyped

LEMMA ReviewSteps ==
    ASSUME Kept, UpdateCheck \/ ReviewSims \/ ReviewAlerts \/ MarkReviewed
    PROVE  Kept'
  <1>1. CASE UpdateCheck
    <2>1. PICK p \in Sims \X (DOMAIN alerts), checked \in BOOLEAN :
             /\ checks' = Reviewed(p, checked) /\ Touch({p})
             /\ UNCHANGED <<sims, alerts, removed, evaluation, reviewing>>
      BY <1>1 DEF UpdateCheck
    <2>2. p \in Pairs /\ p[2] \in DOMAIN alerts
      BY DEF Kept, TablesTyped, Pairs
    <2>3. Told({p})
      BY <2>1, <2>2, TouchTells, ReviewedTyped DEF Told
    <2>4. TablesTyped'
      BY <2>1, <2>2, ReviewedTyped DEF Kept, TablesTyped
    <2> QED
      BY <2>2, <2>3, <2>4, ToldKeeps
  <1>2. CASE ReviewSims
    <2>1. PICK S \in SUBSET Sims \ {{}} :
             reviewing' = [stage |-> "alerts", sims |-> [s \in S |-> sims[s]], pairs |-> {}]
      BY <1>2 DEF ReviewSims
    <2>2. Touch({}) /\ UNCHANGED <<tables, evaluation>>
      BY <1>2 DEF ReviewSims
    <2>3. Told({})
      BY <2>2, TouchTells DEF Told, tables
    <2>4. TablesTyped'
      BY <2>1, <2>2 DEF Kept, TablesTyped, tables
    <2> QED
      BY <2>3, <2>4, ToldKeeps
  <1>3. CASE ReviewAlerts
    <2> DEFINE pairs == {p \in (DOMAIN reviewing.sims) \X {a \in Alerts : Live(a)} :
                           MatchesLoosely(alerts[p[2]], reviewing.sims[p[1]])}
    <2>1. /\ reviewing' = IF pairs = {} THEN Idle
                          ELSE [Idle EXCEPT !.stage = "mark", !.pairs = pairs]
          /\ UNCHANGED <<tables, evaluation, changed, changes>>
      BY <1>3 DEF ReviewAlerts
    <2>2. pairs \subseteq Pairs
      BY DEF Pairs, Kept, TablesTyped
    <2> HIDE DEF pairs
    <2>3. TablesTyped'
      BY <2>1, <2>2 DEF Kept, TablesTyped, tables, Idle
    <2>4. \A e \in Evaluations : Sound(e)'
      BY <2>1, OtherKeeps DEF Kept, Own, evaluation, tables, ChecksGrow
    <2> QED
      BY <2>1, <2>3, <2>4 DEF Kept, evaluation
  <1>4. CASE MarkReviewed
    <2>1. PICK p \in reviewing.pairs :
             IF p[2] \in DOMAIN alerts
             THEN /\ checks' = Reviewed(p, TRUE)
                  /\ reviewing' = IF reviewing.pairs = {p} THEN Idle
                                  ELSE [reviewing EXCEPT !.pairs = @ \ {p}]
                  /\ changed' = [e \in Evaluations |->
                       IF pc[e] = "idle" THEN {} ELSE changed[e] \cup {p}]
             ELSE reviewing' = Idle /\ UNCHANGED <<checks, changed>>
      BY <1>4 DEF MarkReviewed
    <2>2. UNCHANGED <<sims, alerts, removed, evaluation, changes>> /\ p \in Pairs
          /\ reviewing.stage = "mark"
      BY <1>4 DEF MarkReviewed, Kept, TablesTyped
    <2>3. CASE p[2] \in DOMAIN alerts
      <3>1. checks' = Reviewed(p, TRUE)
        BY <2>1, <2>3
      <3>2. Told({p})
        BY <2>1, <2>2, <2>3, <3>1, ReviewedTyped DEF Told, Kept
      <3>3. /\ reviewing'.stage \in {"idle", "mark"} /\ DOMAIN reviewing'.sims \subseteq Sims
            /\ reviewing'.pairs \subseteq Pairs
            /\ reviewing' = [stage |-> reviewing'.stage, sims |-> reviewing'.sims,
                             pairs |-> reviewing'.pairs]
        <4>1. CASE reviewing' = Idle
          BY <4>1 DEF Idle
        <4>2. CASE reviewing' = [reviewing EXCEPT !.pairs = @ \ {p}]
          BY <2>2, <4>2 DEF Kept, TablesTyped
        <4> QED
          BY <2>1, <2>3, <4>1, <4>2
      <3>4. TablesTyped'
        BY <2>2, <2>3, <3>1, <3>3, ReviewedTyped DEF Kept, TablesTyped
      <3> QED
        BY <2>2, <3>2, <3>4, ToldKeeps
    <2>4. CASE p[2] \notin DOMAIN alerts
      <3>1. reviewing' = Idle /\ UNCHANGED <<checks, changed>>
        BY <2>1, <2>4
      <3>2. TablesTyped'
        BY <2>2, <3>1 DEF Kept, TablesTyped, Idle
      <3>3. \A e \in Evaluations : Sound(e)'
        BY <2>2, <3>1, OtherKeeps DEF Kept, Own, evaluation, ChecksGrow
      <3> QED
        BY <2>2, <3>1, <3>2, <3>3 DEF Kept, evaluation
    <2> QED
      BY <2>3, <2>4
  <1> QED
    BY <1>1, <1>2, <1>3, <1>4
----------------------------------------------------------------------------
LEMMA Initial == Init => Kept
  <1> SUFFICES ASSUME Init PROVE Kept
    OBVIOUS
  <1>1. PICK known \in SUBSET Alerts : alerts \in [known -> Rules]
    BY DEF Init
  <1>2. PICK old \in Legacy :
           checks = [p \in {q \in old : q[2] \in DOMAIN alerts} |->
                       [checked |-> FALSE, triggered |-> FALSE]]
    BY DEF Init
  <1>3. old \subseteq Pairs
    BY LegacyAssumption
  <1>4. DOMAIN checks \subseteq Sims \X (DOMAIN alerts) /\ checks \in [DOMAIN checks -> Check]
    BY <1>2, <1>3 DEF Pairs, Check
  <1>5. TablesTyped
    BY <1>1, <1>4 DEF Init, TablesTyped, Idle
  <1>6. DOMAIN Empty = {} /\ Empty \in [{} -> Rules]
    BY DEF Empty
  <1>7. \A e \in Evaluations : Sound(e)
    BY <1>6 DEF Init, Sound, Shaped, HoldsRules, HoldsSims, LosesNone, Inside, Places
  <1>8. IsFor(active) /\ IsFor(found) /\ IsFor(current)
    BY DEF Init, IsFor
  <1> QED
    BY <1>5, <1>7, <1>8, BoundsAssumption DEF Init, Kept, Places

LEMMA Inductive ==
    ASSUME Kept, [Next]_vars
    PROVE  Kept'
  <1>1. CASE UNCHANGED vars
    <2>1. UNCHANGED <<sims, alerts, checks, removed, pc, targets, active, found, current,
                      reviewing, changed, changes>>
      BY <1>1 DEF vars, tables, evaluation
    <2>2. \A e \in Evaluations : Sound(e)'
      BY <2>1, OtherKeeps DEF Kept, Own, ChecksGrow
    <2> QED
      BY <2>1, <2>2 DEF Kept, TablesTyped
  <1>2. ASSUME NEW e \in Evaluations, Start(e) \/ Evaluate(e) PROVE Kept'
    BY <1>2, StartStep, EvaluateStep
  <1>3. CASE \/ ChangeSim \/ CreateAlert \/ ChangeAlert \/ RemoveAlert
             \/ UpdateCheck \/ ReviewSims \/ ReviewAlerts \/ MarkReviewed
    BY <1>3, SimAndAlertSteps, ReviewSteps
  <1> QED
    BY <1>1, <1>2, <1>3 DEF Next

\* The types, for any number of evaluations, and with them that a check is always
\* of an alert that is there (remove of alerts.service.ts).
THEOREM TypeCorrect == Spec => []TypeOK
  <1>1. Kept => TypeOK
    <2> SUFFICES ASSUME Kept PROVE TypeOK
      OBVIOUS
    <2>1. ASSUME NEW e \in Evaluations
          PROVE  /\ DOMAIN active[e] \subseteq Alerts /\ active[e] \in [DOMAIN active[e] -> Rules]
                 /\ found[e] \subseteq targets[e]
                 /\ current[e] \in Pairs \cup {NoPair}
      BY DEF Kept, Sound, Shaped
    <2>2. NoPair \notin Pairs
      BY DEF Pairs, NoPair
    <2>3. ASSUME NEW e \in Evaluations, pc[e] \in {"create", "stamp"}
          PROVE  current[e] # NoPair
      BY <2>2, <2>3 DEF Kept, Sound, Shaped, Inside
    <2> HIDE DEF Pairs, NoPair
    <2> QED
      BY <2>1, <2>3 DEF Kept, TablesTyped, TypeOK
  <1> QED
    BY <1>1, Initial, Inductive, PTL DEF Spec

\* No evaluation that completes has passed over a pair the rules call for
\* (syncTriggeredAlertsBySimIds and ensureTriggeredAlert).
THEOREM CompleteCorrect == Spec => []EvaluationComplete
  <1>1. Kept => EvaluationComplete
    <2> SUFFICES ASSUME Kept, NEW e \in Evaluations, pc[e] = "done",
                        NEW s \in targets[e], NEW a \in DOMAIN alerts,
                        Applies(a, s), s \notin changed[e], a \notin changed[e]
                 PROVE  Filed(e, s, a)
      BY DEF EvaluationComplete, Filed
    <2>1. Accounted(e, s, a) /\ DOMAIN active[e] = {} /\ ~Inside(e)
      BY DEF Kept, Sound, Shaped, LosesNone, Inside
    <2> QED
      BY <2>1 DEF Accounted
  <1> QED
    BY <1>1, Initial, Inductive, PTL DEF Spec

\* What an evaluation creates an active rule called for.
THEOREM SoundCorrect == Spec => EvaluationSound
  <1> DEFINE Step == \A e \in Evaluations : Create(e) =>
                        \A p \in DOMAIN checks' \ DOMAIN checks :
                           p[1] \notin changed[e] /\ p[2] \notin changed[e] => Applies(p[2], p[1])
  <1>1. Kept /\ [Next]_vars => [Step]_vars
    <2> SUFFICES ASSUME Kept, NEW e \in Evaluations, Create(e),
                        NEW p \in DOMAIN checks' \ DOMAIN checks,
                        p[1] \notin changed[e], p[2] \notin changed[e]
                 PROVE  Applies(p[2], p[1])
      OBVIOUS
    <2>1. p = current[e] /\ Inside(e)
      BY DEF Create, With, Inside
    <2> QED
      BY <2>1 DEF Kept, Sound, HoldsSims
  <1> QED
    BY <1>1, Initial, Inductive, PTL DEF Spec, EvaluationSound

\* No evaluation undoes what a review or another evaluation has left.
THEOREM ReviewsCorrect == Spec => ReviewsStand
  <1> DEFINE Step == \A e \in Evaluations : Evaluate(e) =>
                        \A p \in DOMAIN checks :
                           /\ p \in DOMAIN checks' /\ checks'[p].checked = checks[p].checked
                           /\ checks[p].triggered => checks'[p].triggered
  <1>1. Kept /\ [Next]_vars => [Step]_vars
    BY EvaluateStep DEF ChecksGrow
  <1> QED
    BY <1>1, Initial, Inductive, PTL DEF Spec, ReviewsStand
=============================================================================
