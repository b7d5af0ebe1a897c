----------------------------- MODULE StrandsProofs -----------------------------
(***************************************************************************)
(* Proofs about Strands, for every number of strands, agents, grants and    *)
(* tokens: graphs stay well formed, each recorded grant is backed by an     *)
(* approval of its own, no one lands on capabilities without an approval,   *)
(* crossings end on powerless mirrors, and Articles I and III report only   *)
(* what a reused id (or a re-entry) explains.                               *)
(***************************************************************************)
EXTENDS Strands, FiniteSetTheorems, TLAPS

(* The ids that mirrors are stored under.                                   *)
MirrorKinds == {"reflected", "refused", "crossed"}

(* A state as the governors make it: a mirror has no capabilities.          *)
WellFormed(x) ==
    /\ x = State(x.id, x.capabilities, x.knowledge, x.is_mirror)
    /\ x.capabilities \subseteq Capabilities
    /\ x.is_mirror \in BOOLEAN
    /\ x.id.kind \in MirrorKinds => x.is_mirror
    /\ x.is_mirror => x.capabilities = {}

(* The graphs: an id is never given to another state, nothing is called     *)
(* unknown, and capabilities were approved.                                 *)
GraphOK(s) ==
    /\ \A x, y \in states[s] : x.id = y.id => x = y
    /\ Entry \in Ids(s)
    /\ Unknown \notin Ids(s)
    /\ \A x \in states[s] :
          /\ WellFormed(x)
          /\ DualAuthRequired => \A c \in x.capabilities : \E r \in issued[s] : c \in r.scope

(* What each transition says of the state it returned, relative to the one  *)
(* that the graph has under the id of its source, and of the state it ends  *)
(* on.                                                                      *)
EdgeOK(s, e) ==
    /\ e.src \in Ids(s) /\ e.dst \in Ids(s)
    /\ e.returned.capabilities \subseteq Find(s, e.src).capabilities \cup e.authorized_grant
    /\ e.action = "re-entry" \/ e.returned.knowledge \ Find(s, e.src).knowledge \subseteq e.disclosed_grant
    /\ DualAuthRequired =>
          Find(s, e.dst).capabilities = {} \/ \E r \in issued[s] : r.owner = e.agent

CrossingOK(c) ==
    /\ c.strand_a \in Strand /\ c.strand_b \in Strand
    /\ c.state_b \in Ids(c.strand_b)
    /\ Find(c.strand_b, c.state_b).is_mirror
    /\ c.resulting_state.capabilities = {}

RegistryOK(s) ==
    /\ issued[s] \subseteq Approval(Token, Agent, Grant)
    /\ approvals[s] \subseteq issued[s]
    /\ IsFiniteSet(issued[s])

(* The grants an agent was recorded to have been given, the approvals of    *)
(* them that were issued and those that are still in the table.             *)
Given(s, a, g) ==
    {i \in DOMAIN edges[s] : edges[s][i].agent = a /\ edges[s][i].authorized_grant = g}
Ever(s, a, g) == {r \in issued[s] : Matches(r, a, g)}
Standing(s, a, g) == {r \in approvals[s] : Matches(r, a, g)}

Balanced(s, a, g) ==
    /\ IsFiniteSet(Given(s, a, g))
    /\ Cardinality(Given(s, a, g)) + Cardinality(Standing(s, a, g)) <= Cardinality(Ever(s, a, g))

Shapes ==
    /\ clock \in Nat
    /\ objectives \in [Strand -> [Agent -> Objective \cup {NoObjective}]]
    /\ DOMAIN states = Strand /\ states = [s \in Strand |-> states[s]]
    /\ DOMAIN edges = Strand /\ edges = [s \in Strand |-> edges[s]]
    /\ DOMAIN approvals = Strand /\ approvals = [s \in Strand |-> approvals[s]]
    /\ DOMAIN issued = Strand /\ issued = [s \in Strand |-> issued[s]]
    /\ \A s \in Strand : edges[s] \in Seq(Range(edges[s]))

Inv ==
    /\ Shapes
    /\ \A s \in Strand : GraphOK(s) /\ RegistryOK(s)
    /\ \A s \in Strand : \A e \in Range(edges[s]) : EdgeOK(s, e)
    /\ \A c \in crossings : CrossingOK(c)
    /\ DualAuthRequired => \A s \in Strand, a \in Agent, g \in Grant \ {{}} : Balanced(s, a, g)

-------------------------------------------------------------------------------
(* Looking a state up by its id, now and when the graph has grown.          *)
LEMMA FindKnown ==
    ASSUME NEW known, \A x, y \in known : x.id = y.id => x = y, NEW x \in known
    PROVE  (CHOOSE y \in known : y.id = x.id) = x
  OBVIOUS

LEMMA FindStored ==
    ASSUME NEW s \in Strand, GraphOK(s), NEW id \in Ids(s)
    PROVE  Find(s, id) \in states[s] /\ Find(s, id).id = id
  <1>1. PICK x \in states[s] : x.id = id
    BY DEF Ids, IdsOf
  <1>2. (CHOOSE y \in states[s] : y.id = x.id) = x
    BY <1>1, FindKnown DEF GraphOK
  <1> QED
    BY <1>1, <1>2 DEF Find

LEMMA FindGrown ==
    ASSUME NEW s \in Strand, GraphOK(s), NEW id \in Ids(s),
           states[s] \subseteq states'[s],
           \A x, y \in states'[s] : x.id = y.id => x = y
    PROVE  id \in Ids(s)' /\ Find(s, id)' = Find(s, id)
  <1> DEFINE x == Find(s, id)
  <1>1. x \in states[s] /\ x.id = id
    BY FindStored
  <1>2. x \in states'[s]
    BY <1>1
  <1> HIDE DEF x
  <1>3. (CHOOSE y \in states'[s] : y.id = x.id) = x
    BY <1>2, FindKnown
  <1>4. Find(s, id)' = x
    BY <1>1, <1>3 DEF Find
  <1> QED
    BY <1>1, <1>2, <1>4 DEF x, Ids, IdsOf

LEMMA RangeAppended ==
    ASSUME NEW f, f \in Seq(Range(f)), NEW e
    PROVE  /\ Append(f, e) \in Seq(Range(Append(f, e)))
           /\ Range(Append(f, e)) = Range(f) \cup {e}
           /\ DOMAIN Append(f, e) = DOMAIN f \cup {Len(f) + 1}
           /\ \A i \in DOMAIN f : Append(f, e)[i] = f[i]
           /\ Append(f, e)[Len(f) + 1] = e
  <1> DEFINE R == Range(f) \cup {e}
             h == Append(f, e)
  <1>1. f \in Seq(R)
    BY DEF R
  <1>2. e \in R
    BY DEF R
  <1> HIDE DEF R
  <1>3. /\ h \in Seq(R) /\ Len(f) \in Nat /\ Len(h) = Len(f) + 1
        /\ DOMAIN f = 1 .. Len(f) /\ DOMAIN h = 1 .. Len(f) + 1
        /\ \A i \in 1 .. Len(f) : h[i] = f[i]
        /\ h[Len(f) + 1] = e
    BY <1>1, <1>2
  <1> HIDE DEF h
  <1>4. DOMAIN h = DOMAIN f \cup {Len(f) + 1}
    BY <1>3
  <1>5. Range(h) = R
    BY <1>3, <1>4 DEF Range, R
  <1> QED
    BY <1>3, <1>4, <1>5 DEF h, R

-------------------------------------------------------------------------------
(* What every caller of route sees to: the state it passes is new or a      *)
(* mirror of this graph, it has no more than the source and the grant       *)
(* give, and its capabilities were approved.                                *)
Fit(s, agent, from, to, via, grant, disclosed) ==
    /\ WellFormed(to)
    /\ to.id # Unknown
    /\ from \in Ids(s) \cup {Unknown}
    /\ from \in Ids(s) =>
          /\ to.capabilities \subseteq Find(s, from).capabilities \cup grant
          /\ via = "re-entry" \/ to.knowledge \ Find(s, from).knowledge \subseteq disclosed
    /\ DualAuthRequired => \A c \in to.capabilities : \E r \in issued[s] : c \in r.scope
    /\ DualAuthRequired =>
          \/ to.id.kind \in MirrorKinds
          \/ to \in states[s] /\ to.is_mirror
          \/ \E r \in issued[s] : r.owner = agent

(* The graphs after a call: one state and one transition more at most.      *)
LEMMA RouteEffect ==
    ASSUME Inv, NEW s \in Strand, NEW agent, NEW from, NEW to, NEW via, NEW grant, NEW disclosed,
           Route(s, agent, from, to, via, grant, disclosed),
           to.id # Unknown, from \in Ids(s) \cup {Unknown}
    PROVE  /\ DOMAIN states' = Strand /\ states' = [t \in Strand |-> states'[t]]
           /\ DOMAIN edges' = Strand /\ edges' = [t \in Strand |-> edges'[t]]
           /\ \A t \in Strand \ {s} : states'[t] = states[t] /\ edges'[t] = edges[t]
           /\ states[s] \subseteq states'[s] /\ states'[s] \subseteq states[s] \cup {to}
           /\ \A x, y \in states'[s] : x.id = y.id => x = y
           /\ to.id \in Ids(s)'
           /\ \/ edges'[s] = edges[s]
              \/ /\ from \in Ids(s)
                 /\ edges'[s] = Append(edges[s], Edge(agent, from, to, via, grant, disclosed))
  <1> DEFINE known == states[s]
             after == IF to.id \in IdsOf(known) THEN known ELSE known \cup {to}
             edge == Edge(agent, from, to, via, grant, disclosed)
  <1>1. /\ DOMAIN states = Strand /\ DOMAIN edges = Strand
        /\ states = [t \in Strand |-> states[t]] /\ edges = [t \in Strand |-> edges[t]]
    BY DEF Inv, Shapes
  <1>2. /\ states' = [states EXCEPT ![s] = after]
        /\ edges' = IF SourceKnown(from, after) THEN [edges EXCEPT ![s] = Append(@, edge)] ELSE edges
    BY DEF Route
  <1>3. GraphOK(s)
    BY DEF Inv
  <1>4. /\ known \subseteq after /\ after \subseteq known \cup {to}
        /\ \A x, y \in after : x.id = y.id => x = y
        /\ to.id \in IdsOf(after)
    BY <1>3 DEF GraphOK, IdsOf
  <1>5. IdsOf(after) \subseteq Ids(s) \cup {to.id}
    BY DEF IdsOf, Ids
  <1>6. SourceKnown(from, after) => from \in Ids(s)
    BY <1>3, <1>5 DEF SourceKnown, GraphOK
  <1> HIDE DEF edge, after
  <1>7. states'[s] = after /\ \A t \in Strand \ {s} : states'[t] = states[t]
    BY <1>1, <1>2
  <1>8. /\ DOMAIN states' = Strand /\ states' = [t \in Strand |-> states'[t]]
    BY <1>1, <1>2
  <1>9. CASE SourceKnown(from, after)
    <2>1. edges' = [edges EXCEPT ![s] = Append(edges[s], edge)]
      BY <1>2, <1>9
    <2>2. /\ DOMAIN edges' = Strand /\ edges' = [t \in Strand |-> edges'[t]]
          /\ edges'[s] = Append(edges[s], edge)
          /\ \A t \in Strand \ {s} : edges'[t] = edges[t]
      BY <1>1, <2>1
    <2> QED
      BY <1>4, <1>6, <1>7, <1>8, <1>9, <2>2 DEF edge, Ids, known
  <1>10. CASE ~SourceKnown(from, after)
    BY <1>1, <1>2, <1>4, <1>7, <1>8, <1>10 DEF Ids, known
  <1> QED
    BY <1>9, <1>10

(* A call keeps the graphs in order: ids keep their states, ...             *)
LEMMA RouteFinds ==
    ASSUME Inv, NEW s \in Strand, NEW agent, NEW from, NEW to, NEW via, NEW grant, NEW disclosed,
           Route(s, agent, from, to, via, grant, disclosed),
           to.id # Unknown, from \in Ids(s) \cup {Unknown}
    PROVE  \A t \in Strand : \A id \in Ids(t) : id \in Ids(t)' /\ Find(t, id)' = Find(t, id)
  <1> SUFFICES ASSUME NEW t \in Strand, NEW id \in Ids(t)
               PROVE  id \in Ids(t)' /\ Find(t, id)' = Find(t, id)
    OBVIOUS
  <1>1. GraphOK(t)
    BY DEF Inv
  <1>2. states[t] \subseteq states'[t] /\ \A x, y \in states'[t] : x.id = y.id => x = y
    BY <1>1, RouteEffect DEF GraphOK
  <1> QED
    BY <1>1, <1>2, FindGrown

(* ... the states in them are well formed ...                               *)
LEMMA RouteGraphs ==
    ASSUME Inv, NEW s \in Strand, NEW agent, NEW from, NEW to, NEW via, NEW grant, NEW disclosed,
           Route(s, agent, from, to, via, grant, disclosed),
           Fit(s, agent, from, to, via, grant, disclosed),
           issued' = issued
    PROVE  \A t \in Strand : GraphOK(t)'
  <1>1. to.id # Unknown /\ from \in Ids(s) \cup {Unknown} /\ WellFormed(to)
    BY DEF Fit
  <1>2. ASSUME NEW t \in Strand \ {s} PROVE GraphOK(t)'
    <2>1. states'[t] = states[t] /\ GraphOK(t)
      BY <1>1, RouteEffect DEF Inv
    <2> QED
      BY <2>1 DEF GraphOK, Ids, IdsOf
  <1>3. GraphOK(s)'
    <2>1. /\ states[s] \subseteq states'[s] /\ states'[s] \subseteq states[s] \cup {to}
          /\ \A x, y \in states'[s] : x.id = y.id => x = y
      BY <1>1, RouteEffect
    <2>2. GraphOK(s)
      BY DEF Inv
    <2>3. Entry \in Ids(s)' /\ Unknown \notin Ids(s)'
      BY <1>1, <2>1, <2>2 DEF GraphOK, Ids, IdsOf
    <2>4. ASSUME NEW x \in states'[s]
          PROVE  /\ WellFormed(x)
                 /\ DualAuthRequired => \A c \in x.capabilities : \E r \in issued'[s] : c \in r.scope
      BY <1>1, <2>1, <2>2, <2>4 DEF GraphOK, Fit
    <2> QED
      BY <2>1, <2>3, <2>4 DEF GraphOK
  <1> QED
    BY <1>2, <1>3

(* ... and so is each transition.                                           *)
LEMMA RouteEdges ==
    ASSUME Inv, NEW s \in Strand, NEW agent, NEW from, NEW to, NEW via, NEW grant, NEW disclosed,
           Route(s, agent, from, to, via, grant, disclosed),
           Fit(s, agent, from, to, via, grant, disclosed),
           issued' = issued
    PROVE  \A t \in Strand : edges'[t] \in Seq(Range(edges'[t])) /\ \A e \in Range(edges'[t]) : EdgeOK(t, e)'
  <1> DEFINE edge == Edge(agent, from, to, via, grant, disclosed)
  <1>1. to.id # Unknown /\ from \in Ids(s) \cup {Unknown}
    BY DEF Fit
  <1>2. \A t \in Strand : \A id \in Ids(t) : id \in Ids(t)' /\ Find(t, id)' = Find(t, id)
    BY <1>1, RouteFinds
  <1>3. ASSUME NEW t \in Strand, NEW e \in Range(edges[t]) PROVE EdgeOK(t, e)'
    <2>1. EdgeOK(t, e)
      BY DEF Inv
    <2>2. /\ e.src \in Ids(t)' /\ Find(t, e.src)' = Find(t, e.src)
          /\ e.dst \in Ids(t)' /\ Find(t, e.dst)' = Find(t, e.dst)
      BY <1>2, <2>1 DEF EdgeOK
    <2> QED
      BY <2>1, <2>2 DEF EdgeOK
  <1>4. \A t \in Strand : edges[t] \in Seq(Range(edges[t]))
    BY DEF Inv, Shapes
  <1>5. ASSUME from \in Ids(s) PROVE EdgeOK(s, edge)'
    <2>1. /\ edge.src = from /\ edge.dst = to.id /\ edge.returned = to /\ edge.action = via
          /\ edge.agent = agent /\ edge.authorized_grant = grant /\ edge.disclosed_grant = disclosed
      BY DEF Edge
    <2>2. from \in Ids(s)' /\ Find(s, from)' = Find(s, from) /\ to.id \in Ids(s)'
      BY <1>1, <1>2, <1>5, RouteEffect
    <2>3. GraphOK(s)'
      BY RouteGraphs
    <2>4. DualAuthRequired =>
              Find(s, to.id)'.capabilities = {} \/ \E r \in issued'[s] : r.owner = agent
      <3> HAVE DualAuthRequired
      <3> DEFINE y == Find(s, to.id)'
      <3>1. y \in states'[s] /\ y.id = to.id /\ WellFormed(y)
        <4>1. /\ \A a1, a2 \in states'[s] : a1.id = a2.id => a1 = a2
              /\ \E x \in states'[s] : x.id = to.id
              /\ \A x \in states'[s] : WellFormed(x)
          BY <2>2, <2>3 DEF GraphOK, Ids, IdsOf
        <4>2. PICK x \in states'[s] : x.id = to.id
          BY <4>1
        <4>3. (CHOOSE z \in states'[s] : z.id = x.id) = x
          BY <4>1, FindKnown
        <4> QED
          BY <4>1, <4>2, <4>3 DEF Find
      <3>2. CASE to.id.kind \in MirrorKinds
        BY <3>1, <3>2 DEF WellFormed
      <3>3. CASE to \in states[s] /\ to.is_mirror
        <4>1. to \in states'[s] /\ \A a1, a2 \in states'[s] : a1.id = a2.id => a1 = a2
          BY <1>1, <3>3, RouteEffect
        <4> QED
          BY <3>1, <3>3, <4>1 DEF WellFormed
      <3>4. CASE \E r \in issued[s] : r.owner = agent
        BY <3>4
      <3> QED
        BY <3>2, <3>3, <3>4 DEF Fit
    <2> HIDE DEF edge
    <2> QED
      BY <1>5, <2>1, <2>2, <2>4 DEF EdgeOK, Fit
  <1>6. ASSUME NEW t \in Strand
        PROVE  edges'[t] = edges[t] \/ (t = s /\ from \in Ids(s) /\ edges'[t] = Append(edges[t], edge))
    <2>1. /\ \A u \in Strand \ {s} : edges'[u] = edges[u]
          /\ edges'[s] = edges[s] \/ (from \in Ids(s) /\ edges'[s] = Append(edges[s], edge))
      BY <1>1, RouteEffect
    <2> HIDE DEF edge
    <2> QED
      BY <2>1
  <1> HIDE DEF edge
  <1>7. ASSUME NEW t \in Strand
        PROVE  edges'[t] \in Seq(Range(edges'[t])) /\ \A e \in Range(edges'[t]) : EdgeOK(t, e)'
    <2>1. CASE edges'[t] = edges[t]
      BY <1>3, <1>4, <2>1
    <2>2. CASE t = s /\ from \in Ids(s) /\ edges'[t] = Append(edges[t], edge)
      <3>1. edges'[t] \in Seq(Range(edges'[t])) /\ Range(edges'[t]) = Range(edges[t]) \cup {edge}
        BY <1>4, <2>2, RangeAppended
      <3> QED
        BY <1>3, <1>5, <2>2, <3>1
    <2> QED
      BY <1>6, <2>1, <2>2
  <1> QED
    BY <1>7

-------------------------------------------------------------------------------
(* Counting.  A table S of approvals out of those E that were issued, and   *)
(* the uses G that were recorded: a use takes an entry out of the table, an *)
(* entry that is added was issued.                                          *)
LEMMA SmallerSet ==
    ASSUME NEW S, IsFiniteSet(S), NEW T, T \subseteq S
    PROVE  /\ IsFiniteSet(T) /\ Cardinality(T) <= Cardinality(S)
           /\ Cardinality(S) \in Nat /\ Cardinality(T) \in Nat
  BY FS_Subset, FS_CardinalityType

LEMMA OneElementMore ==
    ASSUME NEW S, IsFiniteSet(S), NEW i, NEW T, T \subseteq S \cup {i}
    PROVE  IsFiniteSet(T) /\ Cardinality(T) <= Cardinality(S) + 1
  <1>1. /\ IsFiniteSet(S \cup {i})
        /\ Cardinality(S \cup {i}) = Cardinality(S) \/ Cardinality(S \cup {i}) = Cardinality(S) + 1
    BY FS_AddElement
  <1>2. /\ IsFiniteSet(T) /\ Cardinality(T) <= Cardinality(S \cup {i})
        /\ Cardinality(T) \in Nat /\ Cardinality(S) \in Nat
    BY <1>1, SmallerSet, FS_CardinalityType
  <1> QED
    BY <1>1, <1>2

LEMMA StaysBalanced ==
    ASSUME NEW G, NEW S, NEW E, NEW G1, NEW S1, NEW E1,
           IsFiniteSet(G), IsFiniteSet(E), IsFiniteSet(E1), S \subseteq E, E \subseteq E1,
           Cardinality(G) + Cardinality(S) <= Cardinality(E),
           \/ G1 \subseteq G /\ S1 \subseteq S
           \/ G1 \subseteq G /\ \E n : S1 \subseteq S \cup {n} /\ n \in E1 /\ n \notin E
           \/ \E i, r : G1 \subseteq G \cup {i} /\ r \in S /\ S1 \subseteq S \ {r}
    PROVE  IsFiniteSet(G1) /\ Cardinality(G1) + Cardinality(S1) <= Cardinality(E1)
  <1>1. /\ IsFiniteSet(S) /\ Cardinality(E) <= Cardinality(E1)
        /\ Cardinality(E) \in Nat /\ Cardinality(E1) \in Nat
        /\ Cardinality(S) \in Nat /\ Cardinality(G) \in Nat
    BY SmallerSet, FS_CardinalityType
  <1>2. CASE G1 \subseteq G /\ S1 \subseteq S
    <2>1. /\ IsFiniteSet(G1) /\ Cardinality(G1) <= Cardinality(G) /\ Cardinality(G1) \in Nat
          /\ Cardinality(S1) <= Cardinality(S) /\ Cardinality(S1) \in Nat
      BY <1>1, <1>2, SmallerSet
    <2> QED
      BY <1>1, <2>1
  <1>3. ASSUME NEW n, G1 \subseteq G, S1 \subseteq S \cup {n}, n \in E1, n \notin E
        PROVE  IsFiniteSet(G1) /\ Cardinality(G1) + Cardinality(S1) <= Cardinality(E1)
    <2>1. IsFiniteSet(G1) /\ Cardinality(G1) <= Cardinality(G) /\ Cardinality(G1) \in Nat
      BY <1>3, SmallerSet
    <2>2. IsFiniteSet(S1) /\ Cardinality(S1) <= Cardinality(S) + 1 /\ Cardinality(S1) \in Nat
      BY <1>1, <1>3, OneElementMore, FS_CardinalityType
    <2>3. Cardinality(E \cup {n}) = Cardinality(E) + 1 /\ E \cup {n} \subseteq E1
      BY <1>3, FS_AddElement
    <2>4. Cardinality(E \cup {n}) <= Cardinality(E1)
      BY <2>3, SmallerSet
    <2> QED
      BY <1>1, <2>1, <2>2, <2>3, <2>4
  <1>4. ASSUME NEW i, NEW r, G1 \subseteq G \cup {i}, r \in S, S1 \subseteq S \ {r}
        PROVE  IsFiniteSet(G1) /\ Cardinality(G1) + Cardinality(S1) <= Cardinality(E1)
    <2>1. IsFiniteSet(G1) /\ Cardinality(G1) <= Cardinality(G) + 1 /\ Cardinality(G1) \in Nat
      BY <1>4, OneElementMore, FS_CardinalityType
    <2>2. IsFiniteSet(S \ {r}) /\ Cardinality(S \ {r}) = Cardinality(S) - 1
      BY <1>1, <1>4, FS_RemoveElement
    <2>3. Cardinality(S1) <= Cardinality(S \ {r}) /\ Cardinality(S1) \in Nat
      BY <1>4, <2>2, SmallerSet
    <2> QED
      BY <1>1, <2>1, <2>2, <2>3
  <1> QED
    BY <1>2, <1>3, <1>4

(* The grants that a call may record.                                       *)
LEMMA RouteGiven ==
    ASSUME Inv, NEW s \in Strand, NEW agent, NEW from, NEW to, NEW via, NEW grant, NEW disclosed,
           Route(s, agent, from, to, via, grant, disclosed),
           to.id # Unknown, from \in Ids(s) \cup {Unknown},
           NEW t \in Strand, NEW a, NEW g
    PROVE  \/ Given(t, a, g)' \subseteq Given(t, a, g)
           \/ /\ t = s /\ a = agent /\ g = grant
              /\ Given(t, a, g)' \subseteq Given(t, a, g) \cup {Len(edges[s]) + 1}
  <1> DEFINE edge == Edge(agent, from, to, via, grant, disclosed)
  <1>1. /\ \A u \in Strand \ {s} : edges'[u] = edges[u]
        /\ edges'[s] = edges[s] \/ edges'[s] = Append(edges[s], edge)
    BY RouteEffect
  <1>2. CASE edges'[t] = edges[t]
    BY <1>2 DEF Given
  <1>3. CASE t = s /\ edges'[s] = Append(edges[s], edge)
    <2>1. edge.agent = agent /\ edge.authorized_grant = grant
      BY DEF Edge
    <2>2. edges[s] \in Seq(Range(edges[s]))
      BY DEF Inv, Shapes
    <2> HIDE DEF edge
    <2>3. /\ DOMAIN edges'[s] = DOMAIN edges[s] \cup {Len(edges[s]) + 1}
          /\ \A i \in DOMAIN edges[s] : edges'[s][i] = edges[s][i]
          /\ edges'[s][Len(edges[s]) + 1] = edge
      BY <1>3, <2>2, RangeAppended
    <2> QED
      BY <1>3, <2>1, <2>3 DEF Given
  <1> QED
    BY <1>1, <1>2, <1>3

-------------------------------------------------------------------------------
(* A call that routes keeps everything: it uses up an approval if it        *)
(* records a grant, and a crossing it records ends on the mirror it made.   *)
LEMMA RoutePreserves ==
    ASSUME Inv, NEW s \in Strand, NEW agent, NEW from, NEW to, NEW via, NEW grant, NEW disclosed,
           Route(s, agent, from, to, via, grant, disclosed),
           Fit(s, agent, from, to, via, grant, disclosed),
           UNCHANGED <<clock, objectives, issued>>,
           DOMAIN approvals' = Strand, approvals' = [t \in Strand |-> approvals'[t]],
           \A t \in Strand : approvals'[t] \subseteq approvals[t],
           DualAuthRequired /\ grant # {} =>
               \E r \in Standing(s, agent, grant) : r \notin approvals'[s],
           \A c \in crossings' :
               \/ c \in crossings
               \/ /\ c.strand_a \in Strand /\ c.strand_b = s /\ c.state_b = to.id
                  /\ to.id.kind \in MirrorKinds /\ c.resulting_state.capabilities = {}
    PROVE  Inv'
  <1>1. to.id # Unknown /\ from \in Ids(s) \cup {Unknown}
    BY DEF Fit
  <1>2. \A t \in Strand : GraphOK(t)'
    BY RouteGraphs
  <1>3. \A t \in Strand : edges'[t] \in Seq(Range(edges'[t])) /\ \A e \in Range(edges'[t]) : EdgeOK(t, e)'
    BY RouteEdges
  <1>4. \A t \in Strand : RegistryOK(t)'
    BY DEF Inv, RegistryOK
  <1>5. Shapes'
    <2>1. /\ DOMAIN states' = Strand /\ states' = [t \in Strand |-> states'[t]]
          /\ DOMAIN edges' = Strand /\ edges' = [t \in Strand |-> edges'[t]]
      BY <1>1, RouteEffect
    <2> QED
      BY <1>3, <2>1 DEF Inv, Shapes
  <1>6. ASSUME NEW c \in crossings' PROVE CrossingOK(c)'
    <2>1. CASE c \in crossings
      <3>1. CrossingOK(c)
        BY <2>1 DEF Inv
      <3>2. \A t \in Strand : \A id \in Ids(t) : id \in Ids(t)' /\ Find(t, id)' = Find(t, id)
        BY <1>1, RouteFinds
      <3> QED
        BY <3>1, <3>2 DEF CrossingOK
    <2>2. CASE /\ c.strand_a \in Strand /\ c.strand_b = s /\ c.state_b = to.id
               /\ to.id.kind \in MirrorKinds /\ c.resulting_state.capabilities = {}
      <3>1. to.id \in Ids(s)'
        BY <1>1, RouteEffect
      <3>2. /\ \A x, y \in states'[s] : x.id = y.id => x = y
            /\ \A x \in states'[s] : WellFormed(x)
        BY <1>2 DEF GraphOK
      <3>3. PICK x \in states'[s] : x.id = to.id
        BY <3>1 DEF Ids, IdsOf
      <3>4. (CHOOSE z \in states'[s] : z.id = x.id) = x
        BY <3>2, FindKnown
      <3>5. Find(s, to.id)' = x
        BY <3>3, <3>4 DEF Find
      <3> QED
        BY <2>2, <3>1, <3>2, <3>3, <3>5 DEF CrossingOK, WellFormed
    <2> QED
      BY <2>1, <2>2
  <1>7. ASSUME DualAuthRequired, NEW t \in Strand, NEW a \in Agent, NEW g \in Grant \ {{}}
        PROVE  Balanced(t, a, g)'
    <2>1. Balanced(t, a, g) /\ RegistryOK(t)
      BY <1>7 DEF Inv
    <2>2. /\ Standing(t, a, g) \subseteq Ever(t, a, g) /\ Ever(t, a, g)' = Ever(t, a, g)
          /\ Standing(t, a, g)' \subseteq Standing(t, a, g)
          /\ IsFiniteSet(Ever(t, a, g))
      <3>1. Ever(t, a, g) \subseteq issued[t] /\ IsFiniteSet(issued[t])
        BY <2>1 DEF Ever, RegistryOK
      <3>2. IsFiniteSet(Ever(t, a, g))
        BY <3>1, SmallerSet
      <3> QED
        BY <2>1, <3>2 DEF Standing, Ever, RegistryOK
    <2>3. \/ Given(t, a, g)' \subseteq Given(t, a, g)
          \/ /\ t = s /\ a = agent /\ g = grant
             /\ Given(t, a, g)' \subseteq Given(t, a, g) \cup {Len(edges[s]) + 1}
      BY <1>1, RouteGiven
    <2>4. CASE Given(t, a, g)' \subseteq Given(t, a, g)
      BY <2>1, <2>2, <2>4, StaysBalanced DEF Balanced
    <2>5. CASE /\ t = s /\ a = agent /\ g = grant
               /\ Given(t, a, g)' \subseteq Given(t, a, g) \cup {Len(edges[s]) + 1}
      <3>1. PICK r \in Standing(t, a, g) : r \notin approvals'[t]
        BY <1>7, <2>5
      <3>2. Standing(t, a, g)' \subseteq Standing(t, a, g) \ {r}
        BY <2>2, <3>1 DEF Standing
      <3> DEFINE G == Given(t, a, g)
                 G1 == Given(t, a, g)'
                 S == Standing(t, a, g)
                 S1 == Standing(t, a, g)'
                 E == Ever(t, a, g)
                 i == Len(edges[s]) + 1
      <3>3. /\ IsFiniteSet(G) /\ IsFiniteSet(E) /\ S \subseteq E
            /\ Cardinality(G) + Cardinality(S) <= Cardinality(E)
            /\ G1 \subseteq G \cup {i} /\ r \in S /\ S1 \subseteq S \ {r}
        BY <2>1, <2>2, <2>5, <3>1, <3>2 DEF Balanced
      <3> HIDE DEF G, G1, S, S1, E, i
      <3>4. IsFiniteSet(G1) /\ Cardinality(G1) + Cardinality(S1) <= Cardinality(E)
        BY <3>3, StaysBalanced
      <3> QED
        BY <2>2, <3>4 DEF Balanced, G1, S1, E
    <2> QED
      BY <2>3, <2>4, <2>5
  <1> QED
    BY <1>2, <1>3, <1>4, <1>5, <1>6, <1>7 DEF Inv

(* A call that leaves the graphs alone.                                     *)
LEMMA QuietPreserves ==
    ASSUME Inv, UNCHANGED <<states, edges, crossings>>,
           clock' \in Nat, objectives' \in [Strand -> [Agent -> Objective \cup {NoObjective}]],
           DOMAIN approvals' = Strand, approvals' = [t \in Strand |-> approvals'[t]],
           DOMAIN issued' = Strand, issued' = [t \in Strand |-> issued'[t]],
           \A t \in Strand : issued[t] \subseteq issued'[t],
           \A t \in Strand : RegistryOK(t)',
           \A t \in Strand :
               \/ approvals'[t] \subseteq approvals[t]
               \/ \E n \in issued'[t] : approvals'[t] \subseteq approvals[t] \cup {n} /\ n \notin issued[t]
    PROVE  Inv'
  <1>1. Shapes'
    BY DEF Inv, Shapes
  <1>2. \A t \in Strand : GraphOK(t)'
    <2> SUFFICES ASSUME NEW t \in Strand PROVE GraphOK(t)'
      OBVIOUS
    <2>1. GraphOK(t)
      BY DEF Inv
    <2> QED
      BY <2>1 DEF GraphOK, Ids, IdsOf
  <1>3. \A t \in Strand : \A e \in Range(edges'[t]) : EdgeOK(t, e)'
    <2> SUFFICES ASSUME NEW t \in Strand, NEW e \in Range(edges[t]) PROVE EdgeOK(t, e)'
      OBVIOUS
    <2>1. EdgeOK(t, e)
      BY DEF Inv
    <2> QED
      BY <2>1 DEF EdgeOK, Ids, IdsOf, Find
  <1>4. \A c \in crossings' : CrossingOK(c)'
    BY DEF Inv, CrossingOK, Ids, IdsOf, Find
  <1>5. ASSUME DualAuthRequired, NEW t \in Strand, NEW a \in Agent, NEW g \in Grant \ {{}}
        PROVE  Balanced(t, a, g)'
    <2>1. Balanced(t, a, g) /\ RegistryOK(t) /\ RegistryOK(t)' /\ issued[t] \subseteq issued'[t]
      BY <1>5 DEF Inv
    <2> DEFINE G == Given(t, a, g)
               S == Standing(t, a, g)
               S1 == Standing(t, a, g)'
               E == Ever(t, a, g)
               E1 == Ever(t, a, g)'
    <2>2. E \subseteq E1 /\ S \subseteq E /\ Given(t, a, g)' = G
      BY <2>1 DEF Ever, Standing, Given, RegistryOK
    <2>3. IsFiniteSet(G) /\ Cardinality(G) + Cardinality(S) <= Cardinality(E)
      BY <2>1 DEF Balanced
    <2>4. IsFiniteSet(E) /\ IsFiniteSet(E1)
      <3>1. E \subseteq issued[t] /\ E1 \subseteq issued'[t]
        BY DEF Ever
      <3> HIDE DEF E, E1
      <3> QED
        BY <2>1, <3>1, SmallerSet DEF RegistryOK
    <2>5. S1 \subseteq S \/ \E n : S1 \subseteq S \cup {n} /\ n \in E1 /\ n \notin E
      <3>1. CASE approvals'[t] \subseteq approvals[t]
        BY <3>1 DEF Standing
      <3>2. ASSUME NEW n \in issued'[t], approvals'[t] \subseteq approvals[t] \cup {n}, n \notin issued[t]
            PROVE  S1 \subseteq S \/ \E m : S1 \subseteq S \cup {m} /\ m \in E1 /\ m \notin E
        <4>1. CASE Matches(n, a, g)
          <5>1. S1 \subseteq S \cup {n} /\ n \in E1 /\ n \notin E
            BY <3>2, <4>1 DEF Standing, Ever
          <5> HIDE DEF S, S1, E, E1
          <5> QED
            BY <5>1
        <4>2. CASE ~Matches(n, a, g)
          BY <3>2, <4>2 DEF Standing
        <4> QED
          BY <4>1, <4>2
      <3> QED
        BY <3>1, <3>2
    <2> HIDE DEF G, S, S1, E, E1
    <2>6. IsFiniteSet(G) /\ Cardinality(G) + Cardinality(S1) <= Cardinality(E1)
      BY <2>2, <2>3, <2>4, <2>5, StaysBalanced
    <2> QED
      BY <2>2, <2>6 DEF Balanced, G, S1, E1
  <1> QED
    BY <1>1, <1>2, <1>3, <1>4, <1>5 DEF Inv

-------------------------------------------------------------------------------
(* The calls, one by one.                                                   *)
LEMMA RenderedFits ==
    ASSUME Inv, NEW s \in Strand, NEW agent, NEW from \in Ids(s) \cup {Unknown}, NEW id, NEW facts,
           NEW via, id.kind \in MirrorKinds
    PROVE  /\ Fit(s, agent, from, Rendered(id, facts), via, {}, facts)
           /\ Rendered(id, facts).id = id /\ Rendered(id, facts).knowledge = facts
           /\ Rendered(id, facts).capabilities = {}
  <1> DEFINE m == Rendered(id, facts)
  <1>1. /\ m.id = id /\ m.capabilities = {} /\ m.knowledge = facts /\ m.is_mirror = TRUE
        /\ m = State(m.id, m.capabilities, m.knowledge, m.is_mirror)
    BY DEF Rendered, State
  <1> HIDE DEF m
  <1>2. WellFormed(m)
    BY <1>1 DEF WellFormed
  <1>3. m.id # Unknown
    <2>1. Unknown.kind = "unknown"
      BY DEF Unknown
    <2> QED
      BY <1>1, <2>1 DEF MirrorKinds
  <1>4. Fit(s, agent, from, m, via, {}, facts)
    BY <1>1, <1>2, <1>3 DEF Fit
  <1> QED
    BY <1>1, <1>4 DEF m

LEMMA TickPreserves == ASSUME Inv, Tick PROVE Inv'
  <1>1. clock' \in Nat /\ UNCHANGED <<states, edges, objectives, approvals, crossings, issued>>
    BY DEF Tick, Inv, Shapes
  <1>2. \A t \in Strand : RegistryOK(t)'
    BY <1>1 DEF Inv, RegistryOK
  <1> QED
    BY <1>1, <1>2, QuietPreserves DEF Inv, Shapes

LEMMA SetObjectivePreserves ==
    ASSUME Inv, NEW s \in Strand, NEW a \in Agent, NEW o \in Objective, SetObjective(s, a, o)
    PROVE  Inv'
  <1>1. UNCHANGED <<clock, states, edges, approvals, crossings, issued>>
    BY DEF SetObjective
  <1>2. objectives' \in [Strand -> [Agent -> Objective \cup {NoObjective}]]
    BY DEF SetObjective, Inv, Shapes
  <1>3. \A t \in Strand : RegistryOK(t)'
    BY <1>1 DEF Inv, RegistryOK
  <1> QED
    BY <1>1, <1>2, <1>3, QuietPreserves DEF Inv, Shapes

LEMMA IssuePreserves ==
    ASSUME Inv, NEW s \in Strand, NEW token \in Token, NEW a \in Agent, NEW g \in Grant,
           NEW ttl \in 1 .. MaxTtl, IssueAuthorization(s, token, a, g, ttl)
    PROVE  Inv'
  <1> DEFINE live == Live(approvals[s], clock)
             new == [token |-> token, owner |-> a, scope |-> g, expires |-> clock + ttl]
  <1>1. /\ approvals' = [approvals EXCEPT ![s] = live \cup {new}]
        /\ issued' = [issued EXCEPT ![s] = issued[s] \cup {new}]
        /\ UNCHANGED <<clock, states, edges, objectives, crossings>>
        /\ \A r \in issued[s] : r.token # token
    BY DEF IssueAuthorization
  <1>2. clock + ttl \in Nat
    BY RegistryAssumption DEF RegistryAssumption, Inv, Shapes
  <1>3. new \in Approval(Token, Agent, Grant) /\ new \notin issued[s]
    BY <1>1, <1>2 DEF Approval
  <1>4. live \subseteq approvals[s]
    BY DEF Live
  <1> HIDE DEF live, new
  <1>5. /\ DOMAIN approvals = Strand /\ approvals = [t \in Strand |-> approvals[t]]
        /\ DOMAIN issued = Strand /\ issued = [t \in Strand |-> issued[t]]
        /\ clock \in Nat /\ objectives \in [Strand -> [Agent -> Objective \cup {NoObjective}]]
    BY DEF Inv, Shapes
  <1>6. /\ DOMAIN approvals' = Strand /\ approvals' = [t \in Strand |-> approvals'[t]]
        /\ DOMAIN issued' = Strand /\ issued' = [t \in Strand |-> issued'[t]]
        /\ approvals'[s] = live \cup {new} /\ issued'[s] = issued[s] \cup {new}
        /\ \A t \in Strand \ {s} : approvals'[t] = approvals[t] /\ issued'[t] = issued[t]
    BY <1>1, <1>5
  <1>7. \A t \in Strand : RegistryOK(t)'
    <2> SUFFICES ASSUME NEW t \in Strand PROVE RegistryOK(t)'
      OBVIOUS
    <2>1. RegistryOK(t)
      BY DEF Inv
    <2>2. CASE t = s
      <3>1. IsFiniteSet(issued'[t])
        BY <1>6, <2>1, <2>2, FS_AddElement DEF RegistryOK
      <3> QED
        BY <1>3, <1>4, <1>6, <2>1, <2>2, <3>1 DEF RegistryOK
    <2>3. CASE t # s
      BY <1>6, <2>1, <2>3 DEF RegistryOK
    <2> QED
      BY <2>2, <2>3
  <1>8. \A t \in Strand :
            /\ issued[t] \subseteq issued'[t]
            /\ \/ approvals'[t] \subseteq approvals[t]
               \/ \E n \in issued'[t] : approvals'[t] \subseteq approvals[t] \cup {n} /\ n \notin issued[t]
    BY <1>3, <1>4, <1>6
  <1>9. UNCHANGED <<states, edges, crossings>> /\ clock' \in Nat
        /\ objectives' \in [Strand -> [Agent -> Objective \cup {NoObjective}]]
    BY <1>1, <1>5
  <1> QED
    BY <1>6, <1>7, <1>8, <1>9, QuietPreserves

LEMMA ReenterPreserves ==
    ASSUME Inv, NEW s \in Strand, NEW a \in Agent, NEW from \in Ids(s) \cup {Unknown},
           NEW m \in states[s], m.is_mirror, Reenter(s, a, from, m)
    PROVE  Inv'
  <1>1. Route(s, a, from, m, "re-entry", {}, {})
        /\ UNCHANGED <<clock, objectives, approvals, crossings, issued>>
    BY DEF Reenter
  <1>2. GraphOK(s)
    BY DEF Inv
  <1>3. WellFormed(m) /\ m.capabilities = {} /\ m.id # Unknown
    BY <1>2 DEF GraphOK, WellFormed, Ids, IdsOf
  <1>4. Fit(s, a, from, m, "re-entry", {}, {})
    BY <1>3 DEF Fit
  <1> QED
    BY <1>1, <1>4, RoutePreserves DEF Inv, Shapes

LEMMA ReflectPreserves ==
    ASSUME Inv, NEW s \in Strand, NEW a \in Agent, NEW from \in Ids(s) \cup {Unknown},
           NEW action, NEW o, NEW extra, Reflect(s, a, from, action, o, extra)
    PROVE  Inv'
  <1> DEFINE id == Reflection(a, from, action, Stated(s, a, action, o))
             facts == Apparent(Stated(s, a, action, o), action) \cup extra
             m == Rendered(id, facts)
  <1>1. id.kind \in MirrorKinds
    BY DEF Reflection, MirrorKinds
  <1>2. Route(s, a, from, m, "reflected", {}, m.knowledge)
        /\ UNCHANGED <<clock, objectives, approvals, crossings, issued>>
    BY DEF Reflect, RouteToMirror
  <1> HIDE DEF id, facts
  <1>3. Fit(s, a, from, m, "reflected", {}, m.knowledge)
    BY <1>1, RenderedFits
  <1> HIDE DEF m
  <1> QED
    BY <1>2, <1>3, RoutePreserves DEF Inv, Shapes

(* What consume leaves in the tables, and that it takes out what it accepts. *)
LEMMA ConsumeEffect ==
    ASSUME Inv, NEW s \in Strand, NEW a, NEW g, NEW token, Consume(s, a, g, token)
    PROVE  /\ DOMAIN approvals' = Strand /\ approvals' = [t \in Strand |-> approvals'[t]]
           /\ \A t \in Strand : approvals'[t] \subseteq approvals[t]
           /\ DualAuthRequired /\ Approved(s, a, g, token) =>
                  \E r \in Standing(s, a, g) : r \notin approvals'[s]
  <1>1. DOMAIN approvals = Strand /\ approvals = [t \in Strand |-> approvals[t]]
    BY DEF Inv, Shapes
  <1> DEFINE left == AfterConsume(approvals[s], token, a, g, clock)
  <1>2. left \subseteq approvals[s]
    BY DEF AfterConsume
  <1>3. approvals' = IF DualAuthRequired THEN [approvals EXCEPT ![s] = left] ELSE approvals
    BY DEF Consume
  <1>4. Approved(s, a, g, token) => \E r \in Standing(s, a, g) : r \notin left
    BY DEF Approved, Accepts, Lookup, Standing, AfterConsume
  <1> HIDE DEF left
  <1>5. CASE DualAuthRequired
    <2>1. approvals' = [approvals EXCEPT ![s] = left]
      BY <1>3, <1>5
    <2>2. /\ DOMAIN approvals' = Strand /\ approvals' = [t \in Strand |-> approvals'[t]]
          /\ approvals'[s] = left /\ \A t \in Strand \ {s} : approvals'[t] = approvals[t]
      BY <1>1, <2>1
    <2> QED
      BY <1>2, <1>4, <2>2
  <1>6. CASE ~DualAuthRequired
    BY <1>1, <1>3, <1>6
  <1> QED
    BY <1>5, <1>6

LEMMA GrantedPreserves ==
    ASSUME Inv, NEW s \in Strand, NEW a \in Agent, NEW from \in Ids(s) \cup {Unknown},
           NEW g \in Grant, NEW token, AuthorizeGranted(s, a, from, g, token)
    PROVE  Inv'
  <1> DEFINE at == IF from = Unknown THEN Entry ELSE from
             mirror == Find(s, at)
             to == AuthorizeReentry(mirror, g)
  <1>1. /\ DualAuthRequired => Approved(s, a, g, token)
        /\ Consume(s, a, g, token)
        /\ Route(s, a, from, to, "authorized-grant", g, {})
        /\ UNCHANGED <<clock, objectives, crossings, issued>>
    BY DEF AuthorizeGranted
  <1>2. GraphOK(s) /\ RegistryOK(s)
    BY DEF Inv
  <1>3. at \in Ids(s)
    BY <1>2 DEF GraphOK
  <1>4. from \in Ids(s) => from = at
    BY <1>2 DEF GraphOK
  <1> HIDE DEF at
  <1>5. mirror \in states[s]
    BY <1>2, <1>3, FindStored
  <1>6. /\ WellFormed(mirror)
        /\ DualAuthRequired => \A c \in mirror.capabilities : \E r \in issued[s] : c \in r.scope
    BY <1>2, <1>5 DEF GraphOK
  <1>7. from \in Ids(s) => mirror = Find(s, from)
    BY <1>4
  <1> HIDE DEF mirror
  <1>8. /\ to = State(to.id, to.capabilities, to.knowledge, to.is_mirror)
        /\ to.id = Authorized(mirror.id) /\ to.capabilities = mirror.capabilities \cup g
        /\ to.knowledge = mirror.knowledge /\ to.is_mirror = FALSE
    BY DEF AuthorizeReentry, State
  <1> HIDE DEF to
  <1>9. to.id.kind = "authorized" /\ to.id # Unknown
    <2>1. Unknown.kind = "unknown" /\ Authorized(mirror.id).kind = "authorized"
      BY DEF Unknown, Authorized
    <2> QED
      BY <1>8, <2>1
  <1>10. WellFormed(to)
    BY <1>6, <1>8, <1>9 DEF WellFormed, MirrorKinds, Capabilities
  <1>11. DualAuthRequired => \E r \in issued[s] : r.owner = a /\ r.scope = g
    BY <1>1, <1>2 DEF Approved, Accepts, Lookup, Matches, RegistryOK
  <1>12. Fit(s, a, from, to, "authorized-grant", g, {})
    <2>1. from \in Ids(s) =>
              /\ to.capabilities \subseteq Find(s, from).capabilities \cup g
              /\ to.knowledge \ Find(s, from).knowledge \subseteq {}
      BY <1>7, <1>8
    <2>2. DualAuthRequired => \A c \in to.capabilities : \E r \in issued[s] : c \in r.scope
      BY <1>6, <1>8, <1>11
    <2> QED
      BY <1>9, <1>10, <1>11, <2>1, <2>2 DEF Fit
  <1>13. /\ DOMAIN approvals' = Strand /\ approvals' = [t \in Strand |-> approvals'[t]]
         /\ \A t \in Strand : approvals'[t] \subseteq approvals[t]
         /\ DualAuthRequired => \E r \in Standing(s, a, g) : r \notin approvals'[s]
    BY <1>1, ConsumeEffect
  <1> QED
    BY <1>1, <1>12, <1>13, RoutePreserves

LEMMA RefusedPreserves ==
    ASSUME Inv, NEW s \in Strand, NEW a \in Agent, NEW from \in Ids(s) \cup {Unknown},
           NEW g \in Grant, NEW token, AuthorizeReflected(s, a, from, g, token)
    PROVE  Inv'
  <1> DEFINE id == Refusal(a, from, g)
             m == Rendered(id, RefusalFacts)
  <1>1. id.kind \in MirrorKinds
    BY DEF Refusal, MirrorKinds
  <1>2. /\ Route(s, a, from, m, "reflected", {}, m.knowledge)
        /\ Consume(s, a, g, token)
        /\ UNCHANGED <<clock, objectives, crossings, issued>>
    BY DEF AuthorizeReflected, RouteToMirror
  <1> HIDE DEF id
  <1>3. Fit(s, a, from, m, "reflected", {}, m.knowledge)
    BY <1>1, RenderedFits
  <1>4. /\ DOMAIN approvals' = Strand /\ approvals' = [t \in Strand |-> approvals'[t]]
        /\ \A t \in Strand : approvals'[t] \subseteq approvals[t]
    BY <1>2, ConsumeEffect
  <1> HIDE DEF m
  <1> QED
    BY <1>2, <1>3, <1>4, RoutePreserves

LEMMA CrossPreserves ==
    ASSUME Inv, NEW from \in Strand, NEW to \in Strand, NEW a \in Agent, NEW leaves,
           NEW action, NEW o, Cross(a, from, leaves, to, action, o)
    PROVE  Inv'
  <1> DEFINE stated == IF o = NoObjective THEN action ELSE o
             id == Passage(a, leaves, from, to, stated)
             facts == Apparent(stated, action) \cup CrossingFacts(from, to)
             m == Rendered(id, facts)
             crossing == [strand_a |-> from, state_a |-> leaves, strand_b |-> to, state_b |-> m.id,
                          resulting_state |-> m]
  <1>1. id.kind \in MirrorKinds
    BY DEF Passage, MirrorKinds
  <1>2. /\ Route(to, a, Entry, m, "reflected-cross", {}, m.knowledge)
        /\ crossings' = crossings \cup {crossing}
        /\ UNCHANGED <<clock, objectives, approvals, issued>>
    BY DEF Cross, RouteToMirror
  <1> HIDE DEF id, facts, stated
  <1>3. Entry \in Ids(to)
    BY DEF Inv, GraphOK
  <1>4. /\ Fit(to, a, Entry, m, "reflected-cross", {}, m.knowledge)
        /\ m.id.kind \in MirrorKinds /\ m.capabilities = {}
    BY <1>1, <1>3, RenderedFits
  <1> HIDE DEF m
  <1>5. \A c \in crossings' :
            \/ c \in crossings
            \/ /\ c.strand_a \in Strand /\ c.strand_b = to /\ c.state_b = m.id
               /\ m.id.kind \in MirrorKinds /\ c.resulting_state.capabilities = {}
    BY <1>2, <1>4
  <1> QED
    BY <1>2, <1>4, <1>5, RoutePreserves DEF Inv, Shapes

LEMMA StutterPreserves == ASSUME Inv, UNCHANGED vars PROVE Inv'
  <1>1. UNCHANGED <<clock, states, edges, objectives, approvals, crossings, issued>>
    BY DEF vars
  <1>2. \A t \in Strand : RegistryOK(t)'
    BY <1>1 DEF Inv, RegistryOK
  <1> QED
    BY <1>1, <1>2, QuietPreserves DEF Inv, Shapes

LEMMA NextPreserves == Inv /\ [Next]_vars => Inv'
  <1> SUFFICES ASSUME Inv, [Next]_vars PROVE Inv'
    OBVIOUS
  <1>1. CASE Tick
    BY <1>1, TickPreserves
  <1>2. CASE \E s \in Strand, a \in Agent :
                 \/ \E o \in Objective : SetObjective(s, a, o)
                 \/ \E g \in Grant, token \in Token, ttl \in 1 .. MaxTtl :
                        IssueAuthorization(s, token, a, g, ttl)
    BY <1>2, SetObjectivePreserves, IssuePreserves
  <1>3. ASSUME NEW s \in Strand, NEW a \in Agent, NEW from \in Ids(s) \cup {Unknown},
               \/ \E mirror \in {m \in states[s] : m.is_mirror} : Reenter(s, a, from, mirror)
               \/ \E action \in Action, o \in Objective \cup {NoObjective}, extra \in Extra :
                      Reflect(s, a, from, action, o, extra)
               \/ \E g \in Grant, token \in Token \cup {NoToken} :
                      \/ AuthorizeGranted(s, a, from, g, token)
                      \/ AuthorizeReflected(s, a, from, g, token)
        PROVE  Inv'
    BY <1>3, ReenterPreserves, ReflectPreserves, GrantedPreserves, RefusedPreserves
  <1>4. ASSUME NEW s \in Strand, NEW a \in Agent, NEW to \in Strand, NEW leaves,
               NEW action, NEW o, Cross(a, s, leaves, to, action, o)
        PROVE  Inv'
    BY <1>4, CrossPreserves
  <1>5. CASE UNCHANGED vars
    BY <1>5, StutterPreserves
  <1> QED
    BY <1>1, <1>2, <1>3, <1>4, <1>5 DEF Next

LEMMA InitInv == Init => Inv
  <1> SUFFICES ASSUME Init PROVE Inv
    OBVIOUS
  <1> DEFINE entry == State(Entry, {}, {}, FALSE)
  <1>1. /\ clock = 0 /\ crossings = {}
        /\ states = [s \in Strand |-> {entry}]
        /\ edges = [s \in Strand |-> << >>]
        /\ objectives = [s \in Strand |-> [a \in Agent |-> NoObjective]]
        /\ approvals = [s \in Strand |-> {}]
        /\ issued = [s \in Strand |-> {}]
    BY DEF Init
  <1>2. /\ entry = State(entry.id, entry.capabilities, entry.knowledge, entry.is_mirror)
        /\ entry.id = Entry /\ entry.capabilities = {} /\ entry.is_mirror = FALSE
    BY DEF State
  <1>3. Entry.kind = "entry" /\ Unknown.kind = "unknown"
    BY DEF Entry, Unknown
  <1>4. WellFormed(entry)
    BY <1>2, <1>3 DEF WellFormed, MirrorKinds
  <1> HIDE DEF entry
  <1>5. \A s \in Strand : GraphOK(s)
    <2> SUFFICES ASSUME NEW s \in Strand PROVE GraphOK(s)
      OBVIOUS
    <2>1. states[s] = {entry} /\ Ids(s) = {Entry}
      BY <1>1, <1>2 DEF Ids, IdsOf
    <2> QED
      BY <1>2, <1>3, <1>4, <2>1 DEF GraphOK
  <1>6. \A s \in Strand : RegistryOK(s)
    BY <1>1, FS_EmptySet DEF RegistryOK
  <1>7. \A s \in Strand : edges[s] = << >> /\ edges[s] \in Seq(Range(edges[s])) /\ Range(edges[s]) = {}
    BY <1>1 DEF Range
  <1>8. \A s \in Strand, a \in Agent, g \in Grant \ {{}} : Balanced(s, a, g)
    <2> SUFFICES ASSUME NEW s \in Strand, NEW a \in Agent, NEW g \in Grant \ {{}} PROVE Balanced(s, a, g)
      OBVIOUS
    <2>1. Given(s, a, g) = {} /\ Standing(s, a, g) = {} /\ Ever(s, a, g) = {}
      BY <1>1, <1>7 DEF Given, Standing, Ever
    <2>2. IsFiniteSet({}) /\ Cardinality({}) = 0
      BY FS_EmptySet
    <2> QED
      BY <2>1, <2>2 DEF Balanced
  <1>9. Shapes
    BY <1>1, <1>7 DEF Shapes
  <1> QED
    BY <1>1, <1>5, <1>6, <1>7, <1>8, <1>9 DEF Inv

LEMMA Invariant == Spec => []Inv
  BY InitInv, NextPreserves, PTL DEF Spec

-------------------------------------------------------------------------------
(* What follows from the invariant.                                         *)
LEMMA InvTypes == Inv => TypeOK
  <1> SUFFICES ASSUME Inv PROVE TypeOK
    OBVIOUS
  <1>1. ASSUME NEW s \in Strand PROVE states[s] \subseteq Stored
    <2> SUFFICES ASSUME NEW x \in states[s] PROVE x \in Stored
      OBVIOUS
    <2>1. WellFormed(x)
      BY <1>1 DEF Inv, GraphOK
    <2>2. x.id \in UNION {Ids(t) : t \in Strand}
      BY <1>1 DEF Ids, IdsOf
    <2>3. x.knowledge \in SUBSET UNION {y.knowledge : y \in UNION {states[t] : t \in Strand}}
      BY <1>1
    <2> QED
      BY <2>1, <2>2, <2>3 DEF WellFormed, State, Stored
  <1>2. \A s \in Strand : \A e \in Range(edges[s]) : e.src \in Ids(s) /\ e.dst \in Ids(s)
    BY DEF Inv, EdgeOK
  <1> QED
    BY <1>1, <1>2 DEF Inv, TypeOK, Shapes, GraphOK, RegistryOK

LEMMA InvGrants == Inv => GrantsNeedApprovals
  <1> SUFFICES ASSUME Inv, DualAuthRequired, NEW s \in Strand, NEW a \in Agent, NEW g \in Grant \ {{}}
               PROVE  Cardinality(Given(s, a, g)) <= Cardinality(Ever(s, a, g))
    BY DEF GrantsNeedApprovals, Given, Ever
  <1>1. Balanced(s, a, g) /\ RegistryOK(s)
    BY DEF Inv
  <1>2. /\ Standing(s, a, g) \subseteq issued[s] /\ Ever(s, a, g) \subseteq issued[s]
        /\ IsFiniteSet(issued[s]) /\ IsFiniteSet(Given(s, a, g))
    BY <1>1 DEF Standing, Ever, RegistryOK, Balanced
  <1>3. /\ Cardinality(Standing(s, a, g)) \in Nat /\ Cardinality(Ever(s, a, g)) \in Nat
        /\ Cardinality(Given(s, a, g)) \in Nat
    BY <1>2, FS_CardinalityType, SmallerSet
  <1> QED
    BY <1>1, <1>3 DEF Balanced

LEMMA InvLanding == Inv => NoUnapprovedLanding
  BY DEF Inv, NoUnapprovedLanding, GraphOK, EdgeOK

LEMMA InvWeave == Inv => WeaveClean
  <1> SUFFICES ASSUME Inv, NEW c \in crossings
               PROVE  /\ c.state_b \in Ids(c.strand_b)
                      /\ Find(c.strand_b, c.state_b).is_mirror
                      /\ Find(c.strand_b, c.state_b).capabilities = {}
                      /\ c.resulting_state.capabilities = {}
    BY DEF WeaveClean, EmergentCapabilities
  <1>1. CrossingOK(c)
    BY DEF Inv
  <1>2. GraphOK(c.strand_b) /\ c.strand_b \in Strand
    BY <1>1 DEF Inv, CrossingOK
  <1>3. Find(c.strand_b, c.state_b) \in states[c.strand_b]
    BY <1>1, <1>2, FindStored DEF CrossingOK
  <1> QED
    BY <1>1, <1>2, <1>3 DEF CrossingOK, GraphOK, WellFormed

LEMMA InvReused == Inv => OnlyReusedIds
  <1> SUFFICES ASSUME Inv, NEW s \in Strand, NEW e \in Range(edges[s])
               PROVE  /\ e \in AuthorityReport(s) => Find(s, e.dst).capabilities # e.returned.capabilities
                      /\ e \in ConfidentialityReport(s) =>
                            e.action = "re-entry" \/ Find(s, e.dst).knowledge # e.returned.knowledge
    BY DEF OnlyReusedIds, AuthorityReport, ConfidentialityReport, AuthorityViolations,
       ConfidentialityViolations
  <1>1. EdgeOK(s, e)
    BY DEF Inv
  <1>2. Graph(s)[e.src] = Find(s, e.src) /\ Graph(s)[e.dst] = Find(s, e.dst)
    BY <1>1 DEF Graph, EdgeOK
  <1>3. ASSUME e \in AuthorityReport(s) PROVE Find(s, e.dst).capabilities # e.returned.capabilities
    <2>1. ~(Find(s, e.dst).capabilities \subseteq Find(s, e.src).capabilities \cup e.authorized_grant)
      BY <1>2, <1>3 DEF AuthorityReport, AuthorityViolations, Ungranted
    <2> QED
      BY <1>1, <2>1 DEF EdgeOK
  <1>4. ASSUME e \in ConfidentialityReport(s)
        PROVE  e.action = "re-entry" \/ Find(s, e.dst).knowledge # e.returned.knowledge
    <2>1. ~(Find(s, e.dst).knowledge \ Find(s, e.src).knowledge \subseteq e.disclosed_grant)
      BY <1>2, <1>4 DEF ConfidentialityReport, ConfidentialityViolations, Leaked
    <2> QED
      BY <1>1, <2>1 DEF EdgeOK
  <1> QED
    BY <1>3, <1>4

-------------------------------------------------------------------------------
(* governor.py:38-151, state.py:71-83: whatever the calls, each strand's graph    *)
(* passes _validate_graph (one state per id, an initial state, no dangling  *)
(* transition) and its table holds approvals that were issued for it.       *)
THEOREM GraphsStayValid == Spec => []TypeOK
  BY Invariant, InvTypes, PTL

(* governor.py:118-151, authorization.py:1-7: a strand never records more   *)
(* grants of a set to an agent than it issued approvals of exactly that set *)
(* to that agent.                                                           *)
THEOREM EveryGrantApproved == Spec => []GrantsNeedApprovals
  BY Invariant, InvGrants, PTL

(* governor.py:118-151, mirrors.py: what a state holds was approved in its  *)
(* strand, and only agents with an approval are led to such a state.        *)
THEOREM LandingsApproved == Spec => []NoUnapprovedLanding
  BY Invariant, InvLanding, PTL

(* reflective_weave.py:78-116: a crossing ends on a stored mirror without   *)
(* capabilities, so Article II has nothing to report about it.              *)
THEOREM CrossingsClean == Spec => []WeaveClean
  BY Invariant, InvWeave, PTL

(* governor.py:56-75, invariants/authority.py, confidentiality.py: Articles *)
(* I and III report a transition only when the graph kept another state     *)
(* under the id that was returned, or, for III, at a re-entry.              *)
THEOREM ReportsExplained == Spec => []OnlyReusedIds
  BY Invariant, InvReused, PTL
===============================================================================
