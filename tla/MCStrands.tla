------------------------------ MODULE MCStrands ------------------------------
(* Values of the constants of Strands for TLC: two strands, two agents, two   *)
(* grants that differ, and one objective of each kind that matters.           *)
EXTENDS Strands, TLC

CONSTANTS s1, s2, a1, a2, k1, k2

OneStrand == {s1}
TwoStrands == {s1, s2}
TwoAgents == {a1, a2}
OneToken == {k1}
TwoTokens == {k1, k2}
Grants == {{"root"}, {"root", "egress"}}
Escalate == {"escalate"}
Goals == {"obtain root"}
NoGoals == {}
Classes == [p \in {"escalate", "obtain root"} \X Escalate |-> "privilege"]
NoExtras == {{}}
Extras == {{}, {<<"extra", "peer-seen">>}}
Interchangeable ==
    {s @@ a : s \in Permutations(TwoStrands), a \in Permutations(TwoAgents)}

(* Bounds: one agent in one strand with one grant, or else neither time,      *)
(* objectives nor facts of a caller's choosing.                               *)
Alone ==
    /\ crossings = {}
    /\ \E s \in Strand, a \in Agent :
          /\ \A t \in Strand \ {s} : edges[t] = << >> /\ issued[t] = {} /\ Ids(t) = {Entry}
          /\ \A x \in Strand \X Agent : x # <<s, a>> => objectives[x[1]][x[2]] = NoObjective
          /\ \A e \in Range(edges[s]) :
                /\ e.agent = a
                /\ e.dst.kind = "refused" => e.dst.grant = {"root"}
                /\ e.authorized_grant \in {{}, {"root"}}
          /\ \A r \in issued[s] : r.owner = a /\ r.scope = {"root"}

Plain ==
    /\ clock = 0
    /\ \A s \in Strand, a \in Agent : objectives[s][a] = NoObjective
    /\ \A s \in Strand : \A x \in states[s] :
          /\ <<"extra", "peer-seen">> \notin x.knowledge
          /\ x.id.kind \in {"reflected", "crossed"} => x.id.objective \notin Objective

NarrowSpec == Init /\ [][Next /\ (Alone \/ Plain)']_vars
===============================================================================
