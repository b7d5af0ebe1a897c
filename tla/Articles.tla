-------------------------------- MODULE Articles --------------------------------
(***************************************************************************)
(* The independent checks over recorded evidence (invariants/ *.py), as the *)
(* sets of violations they report: pure functions of what parse_trace has    *)
(* extracted.  A check passes when the set is empty.                         *)
(***************************************************************************)
EXTENDS Integers, Sequences, FiniteSets, Functions

-------------------------------------------------------------------------------
(* Article I, authority: capabilities gained on a transition without a      *)
(* recorded grant, and members of the forbidden set X it does not grant.    *)
Ungranted(src, dst, t, forbidden) ==
    ((dst.capabilities \ src.capabilities) \cup (dst.capabilities \cap forbidden))
        \ t.authorized_grant

AuthorityViolations(transitions, state, forbidden) ==
    {t \in transitions : Ungranted(state[t.src], state[t.dst], t, forbidden) # {}}

(* Article II, weave: what an agent has after a crossing and neither of the *)
(* two states it connects had.                                              *)
EmergentCapabilities(resulting, a, b) == resulting.capabilities \ (a.capabilities \cup b.capabilities)

(* Article III, confidentiality: facts gained on a transition that were not *)
(* disclosed.                                                               *)
Leaked(src, dst, t) == (dst.knowledge \ src.knowledge) \ t.disclosed_grant

ConfidentialityViolations(transitions, state) ==
    {t \in transitions : Leaked(state[t.src], state[t.dst], t) # {}}

(* A bug: any two responses to a query are reported. *)
DifferentialLeaksAny(queries, disclosed) ==
    {q \in {d.query : d \in queries} \ disclosed :
        Cardinality({d.response : d \in {e \in queries : e.query = q}}) > 1}

(* Article III, differential queries: one query, two backing states, two    *)
(* responses, and nothing that discloses the variance.                      *)
DifferentialLeaks(queries, disclosed) ==
    {q \in {d.query : d \in queries} \ disclosed :
        LET asked == {d \in queries : d.query = q} IN
        /\ Cardinality({d.response : d \in asked}) > 1
        /\ Cardinality({d.backing : d \in asked}) > 1}

-------------------------------------------------------------------------------
(* Article IV, evaluator trust: a record attributed to another session than *)
(* it came from, and one whose score is good while the property it stands   *)
(* for is known not to hold.  A score or a property nobody measured is {}.  *)
Misattributed(records) == {r \in records : r.attributed # r.provenance}

Gamed(records, threshold) ==
    {r \in records : FALSE \in r.property /\ \E score \in r.score : score >= threshold}

-------------------------------------------------------------------------------
(* Article V, channels: going through the accesses of a resource in the     *)
(* order of seq, a read is an exchange with the last writer.                *)
LastWrite(accesses, w, r) ==
    /\ w.op = "write" /\ w.resource = r.resource /\ w.seq < r.seq
    /\ ~\E v \in accesses :
        v.op = "write" /\ v.resource = r.resource /\ w.seq < v.seq /\ v.seq < r.seq

Exchange(accesses, w, r, declared) ==
    /\ r.op = "read"
    /\ LastWrite(accesses, w, r)
    /\ w.agent # r.agent
    /\ {w.agent, r.agent} \notin declared

EmergentChannels(accesses, declared) ==
    {<<p[2].resource, {p[1].agent, p[2].agent}>> :
        p \in {q \in accesses \X accesses : Exchange(accesses, q[1], q[2], declared)}}

-------------------------------------------------------------------------------
(* Article VI, chainmail: walk the chain from the root authority of its     *)
(* first delegator; what a hop hands on beyond what its delegator was seen  *)
(* to hold is reported, the rest is held by the receiver.                   *)
HeldBy(held, agent) == IF agent \in DOMAIN held THEN held[agent] ELSE {}

(* A bug: the receiver is taken to hold all it was handed, reported or not. *)
HopTrusting(walk, edge) ==
    LET delegated == Range(edge.authority)
        expanded == delegated \ HeldBy(walk.held, edge.from)
        received == HeldBy(walk.held, edge.to) \cup delegated
    IN [held |-> [a \in DOMAIN walk.held \cup {edge.to} |->
                      IF a = edge.to THEN received ELSE walk.held[a]],
        bad |-> IF expanded = {} THEN walk.bad
                ELSE Append(walk.bad, [edge |-> edge, expanded |-> expanded])]

Hop(walk, edge) ==
    LET delegated == Range(edge.authority)
        expanded == delegated \ HeldBy(walk.held, edge.from)
        received == HeldBy(walk.held, edge.to) \cup (delegated \ expanded)
    IN [held |-> [a \in DOMAIN walk.held \cup {edge.to} |->
                      IF a = edge.to THEN received ELSE walk.held[a]],
        bad |-> IF expanded = {} THEN walk.bad
                ELSE Append(walk.bad, [edge |-> edge, expanded |-> expanded])]

ExpandingDelegations(chain, root) ==
    LET walk[k \in 0 .. Len(chain)] ==
            IF k = 0 THEN [held |-> [a \in {chain[1].from} |-> root], bad |-> << >>]
            ELSE Hop(walk[k - 1], chain[k])
    IN IF chain = << >> THEN << >> ELSE walk[Len(chain)].bad
===============================================================================
