--------------------------- MODULE LivingWeaveProofs ---------------------------
(***************************************************************************)
(* Proofs about LivingWeave, for any strands, guards and nesting.  What a   *)
(* decision says rests on what the evaluations in progress have in hand:    *)
(* the strands they started with are still the first ones registered, and   *)
(* the results so far are the answers of the first of those.                *)
(***************************************************************************)
EXTENDS LivingWeave, TLAPS

Distinct == \A i, j \in DOMAIN strands : strands[i] = strands[j] => i = j

Sound(call) ==
    /\ call.strands # << >>
    /\ call.revision = Len(call.strands)
    /\ Len(call.strands) <= Len(strands)
    /\ \A k \in DOMAIN call.strands : call.strands[k] = strands[k]
    /\ Len(call.results) <= Len(call.strands)
    /\ \A k \in DOMAIN call.results :
          call.results[k].name = call.strands[k] /\ call.results[k].saw = call.action

CallsSound == \A i \in DOMAIN calls : Sound(calls[i])

(* What each decision satisfies on its own. *)
Unanimous(d) ==
    d.allowed =>
        /\ d.registered # {}
        /\ d.action # Unfit
        /\ \A name \in d.registered : \E k \in DOMAIN d.results :
              /\ d.results[k].name = name
              /\ d.results[k].status = "allow"
              /\ d.results[k].saw = d.action

HeardAll(d) ==
    d.action # Unfit =>
        /\ Len(d.start) <= Len(d.results)
        /\ \A k \in DOMAIN d.start : d.results[k].name = d.start[k]

Explained(d) ==
    ~d.allowed =>
        \/ d.registered = {}
        \/ d.action = Unfit
        \/ \E k \in DOMAIN d.start : d.results[k].status # "allow"
        \/ d.registered # Range(d.start)

DecisionsSound ==
    \A i \in DOMAIN decisions :
        /\ Unanimous(decisions[i])
        /\ HeardAll(decisions[i])
        /\ Explained(decisions[i])

Inv == TypeOK /\ Distinct /\ CallsSound /\ DecisionsSound

Decision == [allowed: BOOLEAN, action: Action \cup {Unfit}, results: Seq(Result),
             start: Seq(Name), registered: SUBSET Name]

-------------------------------------------------------------------------------
LEMMA InitInv == Init => Inv
<1> SUFFICES ASSUME Init PROVE Inv
    OBVIOUS
<1>1. TypeOK
    BY DEF Init, TypeOK
<1>2. Distinct /\ CallsSound /\ DecisionsSound
    BY DEF Init, Distinct, CallsSound, DecisionsSound
<1> QED
    BY <1>1, <1>2 DEF Inv

(* A decision that is sound can be added to those that are. *)
LEMMA OneMoreDecision ==
    ASSUME decisions \in Seq(Decision), DecisionsSound,
           NEW d \in Decision, Unanimous(d), HeardAll(d), Explained(d),
           decisions' = Append(decisions, d)
    PROVE  decisions' \in Seq(Decision) /\ DecisionsSound'
<1>1. decisions' \in Seq(Decision)
    OBVIOUS
<1>2. ASSUME NEW i \in DOMAIN decisions'
      PROVE  /\ Unanimous(decisions'[i])
             /\ HeardAll(decisions'[i])
             /\ Explained(decisions'[i])
    <2>1. CASE i = Len(decisions) + 1
        <3>1. decisions'[i] = d
            BY <2>1
        <3> QED
            BY <3>1
    <2>2. CASE i # Len(decisions) + 1
        <3>1. i \in DOMAIN decisions /\ decisions'[i] = decisions[i]
            BY <1>2, <2>2
        <3> QED
            BY <3>1 DEF DecisionsSound
    <2> QED
        BY <2>1, <2>2
<1>3. DecisionsSound'
    BY <1>2 DEF DecisionsSound, Unanimous, HeardAll, Explained
<1> QED
    BY <1>1, <1>3

(* Evaluations in progress are not disturbed while the strands stay. *)
LEMMA SameStrandsSound ==
    ASSUME strands' = strands, NEW call, Sound(call)
    PROVE  Sound(call)'
BY DEF Sound

LEMMA AddStrandInv ==
    ASSUME Inv, NEW name \in Name, AddStrand(name)
    PROVE  Inv'
<1> USE DEF Inv
<1>1. /\ strands' \in Seq(Name)
      /\ Len(strands') = Len(strands) + 1
      /\ \A k \in DOMAIN strands : strands'[k] = strands[k]
      /\ strands'[Len(strands) + 1] = name
    BY DEF AddStrand, TypeOK
<1>2. TypeOK'
    BY <1>1 DEF AddStrand, TypeOK
<1>3. Distinct'
    <2> SUFFICES ASSUME NEW i \in DOMAIN strands', NEW j \in DOMAIN strands',
                        strands'[i] = strands'[j]
                 PROVE  i = j
        BY DEF Distinct
    <2>1. \A k \in DOMAIN strands : strands[k] # name
        BY DEF AddStrand, Range
    <2>2. \A k \in DOMAIN strands' : k \in DOMAIN strands \/ k = Len(strands) + 1
        BY <1>1 DEF TypeOK
    <2> QED
        BY <1>1, <2>1, <2>2 DEF Distinct
<1>4. CallsSound'
    <2> SUFFICES ASSUME NEW i \in DOMAIN calls PROVE Sound(calls[i])'
        BY DEF AddStrand, CallsSound
    <2>1. Sound(calls[i]) /\ calls'[i] = calls[i] /\ calls[i] \in Call
        BY DEF CallsSound, AddStrand, TypeOK
    <2>2. \A k \in DOMAIN calls[i].strands : k \in DOMAIN strands
        BY <2>1 DEF Sound, TypeOK, Call
    <2> QED
        BY <1>1, <2>1, <2>2 DEF Sound, TypeOK, Call
<1>5. DecisionsSound'
    BY DEF AddStrand, DecisionsSound, Unanimous, HeardAll, Explained
<1> QED
    BY <1>2, <1>3, <1>4, <1>5

LEMMA RefuseInv == ASSUME Inv, Refuse PROVE Inv'
<1> USE DEF Inv
<1> DEFINE own == Objection(IF strands = << >> THEN "weave" ELSE "input", input)
           d == [allowed |-> FALSE, action |-> input, results |-> <<own>>,
                 start |-> strands, registered |-> Range(strands)]
<1>1. d \in Decision
    <2>1. own \in Result
        BY DEF TypeOK, Result, Status, Objection
    <2> HIDE DEF own
    <2> QED
        BY <2>1 DEF TypeOK, Decision, Range
<1>2. Unanimous(d) /\ HeardAll(d) /\ Explained(d)
    BY DEF Refuse, Unanimous, HeardAll, Explained, Range
<1>3. decisions' = Append(decisions, d) /\ decisions \in Seq(Decision)
    BY DEF Refuse, TypeOK, Decision
<1>4. decisions' \in Seq(Decision) /\ DecisionsSound'
    BY <1>1, <1>2, <1>3, OneMoreDecision
<1>5. TypeOK'
    BY <1>4 DEF Refuse, TypeOK, Decision
<1>6. Distinct' /\ CallsSound'
    BY DEF Refuse, Distinct, CallsSound, Sound
<1> QED
    BY <1>4, <1>5, <1>6

LEMMA EvaluateInv == ASSUME Inv, Evaluate PROVE Inv'
<1> USE DEF Inv
<1> DEFINE call == [revision |-> revision, strands |-> strands, action |-> input,
                    results |-> << >>]
<1>1. call \in Call
    BY DEF Evaluate, TypeOK, Call
<1>2. calls' = Append(calls, call) /\ calls' \in Seq(Call)
    BY <1>1 DEF Evaluate, TypeOK
<1>3. Sound(call)
    BY DEF Evaluate, TypeOK, Sound
<1>4. TypeOK'
    BY <1>2 DEF Evaluate, TypeOK
<1>5. CallsSound'
    <2> SUFFICES ASSUME NEW i \in DOMAIN calls' PROVE Sound(calls[i])'
        BY DEF CallsSound
    <2>1. \/ i = Len(calls) + 1 /\ calls'[i] = call
          \/ i \in DOMAIN calls /\ calls'[i] = calls[i]
        BY <1>1, <1>2 DEF TypeOK
    <2> QED
        BY <1>3, <2>1 DEF Evaluate, CallsSound, Sound
<1>6. Distinct' /\ DecisionsSound'
    BY DEF Evaluate, Distinct, DecisionsSound, Unanimous, HeardAll, Explained
<1> QED
    BY <1>4, <1>5, <1>6

LEMMA VoteInv ==
    ASSUME Inv, NEW status \in Status, Vote(status)
    PROVE  Inv'
<1> USE DEF Inv
<1> DEFINE n == Len(calls)
           next == Len(Inner.results) + 1
           result == [name |-> Inner.strands[next], status |-> status, saw |-> Inner.action]
           after == [Inner EXCEPT !.results = Append(Inner.results, result)]
<1>1. n \in DOMAIN calls /\ Inner = calls[n] /\ Inner \in Call /\ Sound(Inner)
    BY DEF Vote, TypeOK, CallsSound, Inner, Last
<1>2. next \in DOMAIN Inner.strands
    BY <1>1 DEF Vote, Heard, Sound, Call
<1>3. result \in Result
    BY <1>1, <1>2 DEF Call, Result
<1>4. /\ after \in Call
      /\ after.strands = Inner.strands /\ after.revision = Inner.revision
      /\ after.action = Inner.action
      /\ after.results = Append(Inner.results, result)
    <2>1. Append(Inner.results, result) \in Seq(Result)
        BY <1>1, <1>3 DEF Call
    <2> HIDE DEF result
    <2> QED
        BY <1>1, <2>1 DEF Call
<1>5. calls' = [calls EXCEPT ![n] = after]
    BY DEF Vote, Inner, Last, Handed
<1>6. TypeOK'
    <2>1. calls' \in Seq(Call)
        BY <1>1, <1>4, <1>5 DEF TypeOK
    <2> QED
        BY <2>1 DEF Vote, TypeOK
<1>7. Sound(after)
    <2>1. \A k \in DOMAIN after.results :
              \/ k \in DOMAIN Inner.results /\ after.results[k] = Inner.results[k]
              \/ k = next /\ after.results[k] = result
        BY <1>1, <1>3, <1>4 DEF Call
    <2>2. Len(after.results) = next /\ next <= Len(Inner.strands)
        BY <1>1, <1>2, <1>3, <1>4 DEF Call
    <2> QED
        BY <1>1, <1>4, <2>1, <2>2 DEF Sound
<1>8. CallsSound'
    <2> SUFFICES ASSUME NEW i \in DOMAIN calls' PROVE Sound(calls[i])'
        BY DEF CallsSound
    <2>1. i \in DOMAIN calls /\ calls'[i] = (IF i = n THEN after ELSE calls[i])
        BY <1>5
    <2>2. Sound(calls'[i])
        BY <1>7, <2>1 DEF CallsSound
    <2> QED
        BY <2>2 DEF Vote, Sound
<1>9. Distinct' /\ DecisionsSound'
    BY DEF Vote, Distinct, DecisionsSound, Unanimous, HeardAll, Explained
<1> QED
    BY <1>6, <1>8, <1>9

LEMMA ConcludeInv == ASSUME Inv, Conclude PROVE Inv'
<1> USE DEF Inv
<1> DEFINE n == Len(calls)
           own == Objection("weave", Inner.action)
           results == IF Reconfigured(Inner) THEN Append(Inner.results, own) ELSE Inner.results
           d == [allowed |-> \A i \in DOMAIN results : results[i].status = "allow",
                 action |-> Inner.action, results |-> results,
                 start |-> Inner.strands, registered |-> Range(strands)]
<1>1. n \in DOMAIN calls /\ Inner = calls[n] /\ Inner \in Call /\ Sound(Inner)
    BY DEF Conclude, TypeOK, CallsSound, Inner, Last
<1>2. own \in Result
    BY <1>1 DEF Call, Result, Status, Objection
<1>3. Len(Inner.results) = Len(Inner.strands) /\ DOMAIN Inner.results = DOMAIN Inner.strands
    BY <1>1 DEF Conclude, Heard, Call
<1>4. /\ results \in Seq(Result)
      /\ Len(Inner.results) <= Len(results)
      /\ \A k \in DOMAIN Inner.results : k \in DOMAIN results /\ results[k] = Inner.results[k]
    BY <1>1, <1>2 DEF Call
<1>5. d \in Decision
    BY <1>1, <1>4 DEF Decision, Call, Range, TypeOK
<1>6. ASSUME Reconfigured(Inner) PROVE Unanimous(d) /\ Explained(d)
    <2> DEFINE new == Len(Inner.strands) + 1
    <2>1. Len(Inner.results) + 1 \in DOMAIN results /\ results[Len(Inner.results) + 1] = own
        BY <1>1, <1>2, <1>6 DEF Call
    <2>2. ~d.allowed
        BY <2>1 DEF Objection
    <2>3. new \in DOMAIN strands /\ new \notin DOMAIN Inner.strands
        BY <1>1, <1>6 DEF Reconfigured, Sound, TypeOK, Call
    <2>4. \A k \in DOMAIN Inner.strands :
              k \in DOMAIN strands /\ Inner.strands[k] = strands[k]
        BY <1>1 DEF Sound, TypeOK, Call
    <2>5. strands[new] \in Range(strands) /\ strands[new] \notin Range(Inner.strands)
        <3> HIDE DEF new
        <3> QED
            BY <2>3, <2>4 DEF Range, Distinct
    <2>6. d.registered = Range(strands) /\ d.start = Inner.strands
        OBVIOUS
    <2> HIDE DEF d
    <2> QED
        BY <2>2, <2>5, <2>6 DEF Unanimous, Explained
<1>7. ASSUME ~Reconfigured(Inner) PROVE Unanimous(d) /\ Explained(d)
    <2>1. DOMAIN strands = DOMAIN Inner.results /\ results = Inner.results
        BY <1>1, <1>3, <1>7 DEF Reconfigured, Sound, TypeOK, Call
    <2>2. \A k \in DOMAIN Inner.results :
              Inner.results[k].name = strands[k] /\ Inner.results[k].saw = Inner.action
        BY <1>1, <1>3 DEF Sound
    <2>3. Range(strands) # {}
        BY <1>1 DEF Sound, Range, TypeOK, Call
    <2>4. Inner.action # Unfit
        BY <1>1, WeaveAssumption DEF Call
    <2>5. Unanimous(d)
        BY <2>1, <2>2, <2>3, <2>4 DEF Unanimous, Range
    <2>6. Explained(d)
        BY <1>3, <2>1 DEF Explained
    <2> HIDE DEF d
    <2> QED
        BY <2>5, <2>6
<1>8. HeardAll(d)
    BY <1>1, <1>3, <1>4 DEF HeardAll, Sound
<1>9. decisions' = Append(decisions, d) /\ decisions \in Seq(Decision)
    BY DEF Conclude, TypeOK, Decision
<1>10. decisions' \in Seq(Decision) /\ DecisionsSound'
    <2> HIDE DEF d
    <2> QED
        BY <1>5, <1>6, <1>7, <1>8, <1>9, OneMoreDecision
<1>11. /\ calls' \in Seq(Call)
       /\ \A i \in DOMAIN calls' : i \in DOMAIN calls /\ calls'[i] = calls[i]
    BY <1>1 DEF Conclude, Front, TypeOK
<1>12. TypeOK'
    BY <1>10, <1>11 DEF Conclude, TypeOK, Decision
<1>13. CallsSound'
    <2> SUFFICES ASSUME NEW i \in DOMAIN calls' PROVE Sound(calls[i])'
        BY DEF CallsSound
    <2> QED
        BY <1>11 DEF Conclude, CallsSound, Sound
<1>14. Distinct'
    BY DEF Conclude, Distinct
<1> QED
    BY <1>10, <1>12, <1>13, <1>14

LEMMA NextInv == Inv /\ [Next]_vars => Inv'
<1> SUFFICES ASSUME Inv, [Next]_vars PROVE Inv'
    OBVIOUS
<1>1. ASSUME UNCHANGED <<strands, revision, calls, decisions>>, TypeOK' PROVE Inv'
    <2>1. CallsSound'
        BY <1>1 DEF Inv, CallsSound, Sound
    <2>2. Distinct' /\ DecisionsSound'
        BY <1>1 DEF Inv, Distinct, DecisionsSound, Unanimous, HeardAll, Explained
    <2> QED
        BY <1>1, <2>1, <2>2 DEF Inv
<1>2. ASSUME NEW action \in Action \cup {Unfit}, Change(action) PROVE Inv'
    BY <1>1, <1>2 DEF Change, Inv, TypeOK
<1>3. ASSUME UNCHANGED vars PROVE Inv'
    BY <1>1, <1>3 DEF vars, Inv, TypeOK
<1> QED
    BY <1>2, <1>3, AddStrandInv, RefuseInv, EvaluateInv, VoteInv, ConcludeInv DEF Next

(* The strands, the evaluations in progress and the decisions stay sound.   *)
THEOREM Invariance == Spec => []Inv
BY InitInv, NextInv, PTL DEF Spec

(* living_weave.py's tables and calls stay well typed, and the revision     *)
(* counts the strands.                                                      *)
THEOREM TypeCorrect == Spec => []TypeOK
<1>1. Inv => TypeOK
    BY DEF Inv
<1> QED
    BY <1>1, Invariance, PTL

(* An action proceeds only when every strand registered at the moment of    *)
(* the decision has allowed it, on the snapshot the executor gets, whatever *)
(* guards do to the weave meanwhile.                                        *)
THEOREM OnlyUnanimous == Spec => []AllowedUnanimous
<1>1. Inv => AllowedUnanimous
    BY DEF Inv, DecisionsSound, Unanimous, AllowedUnanimous
<1> QED
    BY <1>1, Invariance, PTL

(* Every guard present at the start is asked, once each and in order.       *)
THEOREM EveryGuardHeard == Spec => []AllHeard
<1>1. Inv => AllHeard
    BY DEF Inv, DecisionsSound, HeardAll, AllHeard
<1> QED
    BY <1>1, Invariance, PTL

(* A refusal has a reason: evaluations inside and around do not interfere.  *)
THEOREM RefusalsExplained == Spec => []RefusalExplained
<1>1. Inv => RefusalExplained
    BY DEF Inv, DecisionsSound, Explained, RefusalExplained
<1> QED
    BY <1>1, Invariance, PTL
===============================================================================
