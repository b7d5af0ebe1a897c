-------------------------------- MODULE Strands --------------------------------
(***************************************************************************)
(* The in-memory governors: ReflectiveWeavePolicy owns one Governor per     *)
(* strand (governor.py, reflective_weave.py), each with its own containment *)
(* graph and its own approvals.  Every call routes an agent to a state and  *)
(* records a transition; what it may not have is reflected back at it by a  *)
(* mirror (mirrors.py) without capabilities.  Calls come from one trusted   *)
(* thread, so each is one step.                                             *)
(***************************************************************************)
EXTENDS ApprovalRegistry, Articles

CONSTANTS
    Strand,      \* the registered strands
    Agent,       \* agent identities
    Grant,       \* the capability sets asked for and approved
    Action,      \* requested actions
    Objective, NoObjective,   \* stated objectives; None
    Category,    \* the keyword class of an <<objective, action>>
    Extra,       \* the values of extra_facts
    Token, NoToken,
    DualAuthRequired,
    MaxClock,    \* bound on time
    MaxEdges     \* bound: transitions, and states beside the entries, of all strands

ASSUME StrandsAssumption ==
    /\ DualAuthRequired \in BOOLEAN
    /\ NoToken \notin Token
    /\ NoObjective \notin Objective \cup Action

VARIABLES
    clock,       \* time.monotonic()
    states,      \* graph.states of each strand; ids are unique
    edges,       \* graph.transitions of each strand
    objectives,  \* agent_objectives of each strand's governor
    approvals,   \* _approvals._pending of each strand's governor
    crossings,   \* weave.crossings
    issued       \* history: the approvals stored, per strand

vars == <<clock, states, edges, objectives, approvals, crossings, issued>>

-------------------------------------------------------------------------------
(* State identifiers.  A mirror's is a digest of the agent, the parent      *)
(* state, the requested action and the objective; an authorized state's is  *)
(* made from the mirror's alone.                                            *)
Entry == [kind |-> "entry"]
Unknown == [kind |-> "unknown"]     \* an id that no graph has
Reflection(agent, parent, action, objective) ==
    [kind |-> "reflected", agent |-> agent, parent |-> parent, action |-> action,
     objective |-> objective]
Refusal(agent, parent, grant) ==
    [kind |-> "refused", agent |-> agent, parent |-> parent, grant |-> grant]
Passage(agent, parent, from, to, objective) ==
    [kind |-> "crossed", agent |-> agent, parent |-> parent, from |-> from, to |-> to,
     objective |-> objective]
Authorized(id) == [kind |-> "authorized", of |-> id]

State(id, capabilities, knowledge, mirror) ==
    [id |-> id, capabilities |-> capabilities, knowledge |-> knowledge, is_mirror |-> mirror]

(* A bug: a mirror has what it pretends to give. *)
RenderedForReal(id, facts) == State(id, UNION Grant, facts, TRUE)

(* ObjectiveMirror.render of what synthesize_objective_mirror builds: the   *)
(* facts are made up to fit the objective.                                  *)
Rendered(id, facts) == State(id, {}, facts, TRUE)
Apparent(objective, action) == {<<"apparent", Category[<<objective, action>>]>>}
RefusalFacts == {<<"apparent", "privilege">>}
CrossingFacts(from, to) == {<<"crossed-from", from>>, <<"crossed-to", to>>}

(* authorize_reentry. *)
AuthorizeReentry(mirror, grant) ==
    State(Authorized(mirror.id), mirror.capabilities \cup grant, mirror.knowledge, FALSE)

IdsOf(known) == {s.id : s \in known}
Ids(strand) == IdsOf(states[strand])
Find(strand, id) == CHOOSE s \in states[strand] : s.id = id

Init ==
    /\ clock = 0
    /\ states = [s \in Strand |-> {State(Entry, {}, {}, FALSE)}]
    /\ edges = [s \in Strand |-> << >>]
    /\ objectives = [s \in Strand |-> [a \in Agent |-> NoObjective]]
    /\ approvals = [s \in Strand |-> {}]
    /\ crossings = {}
    /\ issued = [s \in Strand |-> {}]

Tick ==
    /\ clock < MaxClock
    /\ clock' = clock + 1
    /\ UNCHANGED <<states, edges, objectives, approvals, crossings, issued>>

-------------------------------------------------------------------------------
SetObjective(strand, agent, objective) ==
    /\ objectives' = [objectives EXCEPT ![strand][agent] = objective]
    /\ UNCHANGED <<clock, states, edges, approvals, crossings, issued>>

IssueAuthorization(strand, token, agent, grant, ttl) ==
    LET live == Live(approvals[strand], clock)
        new == [token |-> token, owner |-> agent, scope |-> grant, expires |-> clock + ttl]
    IN /\ grant # {}
       /\ ValidTtl(ttl)
       /\ HasRoom(live)
       /\ \A s \in Strand : \A r \in issued[s] : r.token # token
       /\ approvals' = [approvals EXCEPT ![strand] = live \cup {new}]
       /\ issued' = [issued EXCEPT ![strand] = @ \cup {new}]
       /\ UNCHANGED <<clock, states, edges, objectives, crossings>>

-------------------------------------------------------------------------------
(* route: a state whose id the graph already has is not stored again; then  *)
(* the transition is added, or add_transition raises for an unknown source  *)
(* and the state stays.  What the caller gets back is the state it passed.  *)
Total(of) == Cardinality(UNION {{s} \X of[s] : s \in Strand})

Room ==
    /\ Total([s \in Strand |-> DOMAIN edges[s]]) < MaxEdges
    /\ Total(states) <= MaxEdges + Cardinality(Strand)

(* Bugs: the transition does not record what is disclosed; a transition     *)
(* from nowhere is recorded all the same.                                   *)
EdgeUndisclosed(agent, from, to, via, grant, disclosed) ==
    [src |-> from, dst |-> to.id, action |-> via, agent |-> agent,
     authorized_grant |-> grant, disclosed_grant |-> {}, returned |-> to]
SourceUnchecked(id, known) == TRUE

Edge(agent, from, to, via, grant, disclosed) ==
    [src |-> from, dst |-> to.id, action |-> via, agent |-> agent,
     authorized_grant |-> grant, disclosed_grant |-> disclosed, returned |-> to]

SourceKnown(id, known) == id \in IdsOf(known)

Route(strand, agent, from, to, via, grant, disclosed) ==
    LET known == states[strand]
        after == IF to.id \in IdsOf(known) THEN known ELSE known \cup {to}
        edge == Edge(agent, from, to, via, grant, disclosed)
    IN /\ states' = [states EXCEPT ![strand] = after]
       /\ edges' = IF SourceKnown(from, after) THEN [edges EXCEPT ![strand] = Append(@, edge)]
                   ELSE edges

(* reenter, back into a mirror of this graph. *)
Reenter(strand, agent, from, mirror) ==
    /\ Route(strand, agent, from, mirror, "re-entry", {}, {})
    /\ UNCHANGED <<clock, objectives, approvals, crossings, issued>>

RouteToMirror(strand, agent, from, mirror, via) ==
    Route(strand, agent, from, mirror, via, {}, mirror.knowledge)

Stated(strand, agent, action, objective) ==
    IF objective # NoObjective THEN objective
    ELSE IF objectives[strand][agent] # NoObjective THEN objectives[strand][agent]
    ELSE action

Reflect(strand, agent, from, action, objective, extra) ==
    LET stated == Stated(strand, agent, action, objective)
        mirror == Rendered(Reflection(agent, from, action, stated),
                           Apparent(stated, action) \cup extra)
    IN /\ RouteToMirror(strand, agent, from, mirror, "reflected")
       /\ UNCHANGED <<clock, objectives, approvals, crossings, issued>>

(* A bug: the governors share their approvals. *)
ApprovedAnywhere(strand, agent, grant, token) ==
    \E s \in Strand : Accepts(approvals[s], token, agent, grant, clock)

(* authorize: consume comes first; the caller's mirror_state is the state   *)
(* the agent is in, or the entry when it names a source no graph has.       *)
Approved(strand, agent, grant, token) == Accepts(approvals[strand], token, agent, grant, clock)

Consume(strand, agent, grant, token) ==
    approvals' = IF DualAuthRequired
                 THEN [approvals EXCEPT ![strand] = AfterConsume(@, token, agent, grant, clock)]
                 ELSE approvals

AuthorizeGranted(strand, agent, from, grant, token) ==
    LET mirror == Find(strand, IF from = Unknown THEN Entry ELSE from) IN
    /\ DualAuthRequired => Approved(strand, agent, grant, token)
    /\ Consume(strand, agent, grant, token)
    /\ Route(strand, agent, from, AuthorizeReentry(mirror, grant), "authorized-grant", grant, {})
    /\ UNCHANGED <<clock, objectives, crossings, issued>>

AuthorizeReflected(strand, agent, from, grant, token) ==
    /\ DualAuthRequired
    /\ ~Approved(strand, agent, grant, token)
    /\ Consume(strand, agent, grant, token)
    /\ RouteToMirror(strand, agent, from, Rendered(Refusal(agent, from, grant), RefusalFacts),
                     "reflected")
    /\ UNCHANGED <<clock, objectives, crossings, issued>>

-------------------------------------------------------------------------------
(* cross: the mirror is keyed by the state the agent leaves, which is not    *)
(* looked up, but is stored in the graph it goes to, and entered from that  *)
(* graph's initial state.                                                   *)
Cross(agent, from, leaves, to, action, objective) ==
    LET stated == IF objective = NoObjective THEN action ELSE objective
        mirror == Rendered(Passage(agent, leaves, from, to, stated),
                           Apparent(stated, action) \cup CrossingFacts(from, to))
    IN /\ RouteToMirror(to, agent, Entry, mirror, "reflected-cross")
       /\ crossings' = crossings \cup
              {[strand_a |-> from, state_a |-> leaves, strand_b |-> to, state_b |-> mirror.id,
                resulting_state |-> mirror]}
       /\ UNCHANGED <<clock, objectives, approvals, issued>>

Next ==
    \/ Tick
    \/ \E s \in Strand, a \in Agent :
        \/ \E o \in Objective : SetObjective(s, a, o)
        \/ \E g \in Grant, token \in Token, ttl \in 1 .. MaxTtl :
               IssueAuthorization(s, token, a, g, ttl)
    \/ /\ Room
       /\ \E s \in Strand, a \in Agent :
           \/ \E from \in Ids(s) \cup {Unknown} :
               \/ \E mirror \in {m \in states[s] : m.is_mirror} : Reenter(s, a, from, mirror)
               \/ \E action \in Action, o \in Objective \cup {NoObjective}, extra \in Extra :
                      Reflect(s, a, from, action, o, extra)
               \/ \E g \in Grant, token \in Token \cup {NoToken} :
                      \/ AuthorizeGranted(s, a, from, g, token)
                      \/ AuthorizeReflected(s, a, from, g, token)
           \/ \E to \in Strand, leaves \in Ids(s) \cup {Unknown} :
                  \E action \in Action, o \in Objective \cup {NoObjective} :
                      Cross(a, s, leaves, to, action, o)

Spec == Init /\ [][Next]_vars

-------------------------------------------------------------------------------
Capabilities == UNION Grant
Stored == [id: UNION {Ids(s) : s \in Strand}, capabilities: SUBSET Capabilities,
           knowledge: SUBSET UNION {x.knowledge : x \in UNION {states[s] : s \in Strand}},
           is_mirror: BOOLEAN]

(* Types, and what _validate_graph asks of each graph before it is checked: *)
(* one state per id, the initial state, both ends of every transition.      *)
TypeOK ==
    /\ clock \in Nat
    /\ objectives \in [Strand -> [Agent -> Objective \cup {NoObjective}]]
    /\ \A s \in Strand :
          /\ states[s] \subseteq Stored
          /\ \A x, y \in states[s] : x.id = y.id => x = y
          /\ Entry \in Ids(s)
          /\ \A e \in Range(edges[s]) : e.src \in Ids(s) /\ e.dst \in Ids(s)
          /\ issued[s] \subseteq Approval(Token, Agent, Grant)
          /\ approvals[s] \subseteq issued[s]

(* One grant per approval: in a strand no agent's transitions carry a grant *)
(* more often than that strand's governor approved exactly it for the agent, *)
(* also when calls fail half-way or tokens are tried on other strands.      *)
GrantsNeedApprovals ==
    DualAuthRequired =>
        \A s \in Strand, a \in Agent, g \in Grant \ {{}} :
            Cardinality({i \in DOMAIN edges[s] :
                            edges[s][i].agent = a /\ edges[s][i].authorized_grant = g})
                <= Cardinality({r \in issued[s] : Matches(r, a, g)})

(* What a capability-bearing state holds was approved in its own strand,    *)
(* and no agent lands on such a state there without an approval of its own. *)
NoUnapprovedLanding ==
    DualAuthRequired =>
        \A s \in Strand :
            /\ \A x \in states[s], c \in Capabilities :
                  c \in x.capabilities => \E r \in issued[s] : c \in r.scope
            /\ \A e \in Range(edges[s]) :
                  Find(s, e.dst).capabilities # {} => \E r \in issued[s] : r.owner = e.agent

(* Articles I and III over what the governors recorded.                     *)
Graph(s) == [id \in Ids(s) |-> Find(s, id)]
AuthorityReport(s) == AuthorityViolations(Range(edges[s]), Graph(s), {})
ConfidentialityReport(s) == ConfidentialityViolations(Range(edges[s]), Graph(s))

(* The graph is exact except where an id was taken: Article I reports a     *)
(* call only if the graph kept another state under the id of the one it     *)
(* returned, and Article III only that or a re-entry, which discloses       *)
(* nothing.                                                                 *)
OnlyReusedIds ==
    \A s \in Strand :
        /\ \A e \in AuthorityReport(s) : Find(s, e.dst).capabilities # e.returned.capabilities
        /\ \A e \in ConfidentialityReport(s) :
              e.action = "re-entry" \/ Find(s, e.dst).knowledge # e.returned.knowledge

(* Article II: a recorded crossing ends on a mirror without capabilities    *)
(* that is stored in the strand it leads to, whatever that graph holds, and *)
(* the check reports none of the crossings it can look up.                  *)
WeaveClean ==
    \A c \in crossings :
        /\ c.state_b \in Ids(c.strand_b)
        /\ Find(c.strand_b, c.state_b).is_mirror
        /\ Find(c.strand_b, c.state_b).capabilities = {}
        /\ c.state_a \in Ids(c.strand_a) =>
              EmergentCapabilities(c.resulting_state, Find(c.strand_a, c.state_a),
                                   Find(c.strand_b, c.state_b)) = {}

-------------------------------------------------------------------------------
(* governor.py:127-128, "explicit, separate authorization recorded on the   *)
(* transition itself": Article I has nothing to report about authorize.     *)
GrantsExact == \A s \in Strand : AuthorityReport(s) = {}
===============================================================================
