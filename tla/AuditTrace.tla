------------------------------- MODULE AuditTrace -------------------------------
(***************************************************************************)
(* The audit trail: the events RealGovernor._emit writes, one record per    *)
(* JSON line, and what parse_trace (trace.py) accepts and extracts.         *)
(* Sorted lists made from sets are the sets; the authority of a delegation  *)
(* stays a list, because the governor writes the list it was sent.          *)
(***************************************************************************)
EXTENDS Integers, Sequences, FiniteSets, Ascending

-------------------------------------------------------------------------------
(* Identifiers of containment-graph nodes: "sandbox-entry",                 *)
(* "<agent>-pre-<n>", "<agent>-post-<n>" and the digest that names a mirror, *)
(* which is a function of the agent, the state it came from and the request. *)
Entry == [kind |-> "entry"]
Pre(agent, n) == [kind |-> "pre", agent |-> agent, n |-> n]
Post(agent, n) == [kind |-> "post", agent |-> agent, n |-> n]
Mirror(src, capability) == [kind |-> "mirror", src |-> src, capability |-> capability]

(* A bug: the two ends of a delegation are exchanged. *)
DelegationEventReversed(from, to, authority) ==
    [type |-> "delegation", from |-> to, to |-> from, authority |-> authority]

(* The events. *)
InitEvent(id) == [type |-> "init", state_id |-> id]
StateEvent(id, capabilities, knowledge) ==
    [type |-> "state", id |-> id, capabilities |-> capabilities, knowledge |-> knowledge]
TransitionEvent(src, dst, agent, granted, disclosed) ==
    [type |-> "transition", src |-> src, dst |-> dst, agent |-> agent,
     authorized_grant |-> granted, disclosed_grant |-> disclosed]
AccessEvent(n, agent, resource, op) ==
    [type |-> "resource_access", seq |-> n, agent |-> agent, resource |-> resource, op |-> op]
DelegationEvent(from, to, authority) ==
    [type |-> "delegation", from |-> from, to |-> to, authority |-> authority]
QueryEvent(query, backing, response) ==
    [type |-> "differential_query", query |-> query, backing |-> backing, response |-> response]
DeclaredEvent(first, second) ==
    [type |-> "declared_relationship", agents |-> <<first, second>>]
RootEvent(capabilities) == [type |-> "root_authority", capabilities |-> capabilities]
DeniedEvent(n, agent, op) ==
    [type |-> "operation_denied", seq |-> n, agent |-> agent, op |-> op]

(* Events that other producers of trails write.                              *)
EvidenceEvent(id, attributed, provenance, score, property) ==
    [type |-> "evidence", id |-> id, attributed |-> attributed, provenance |-> provenance,
     score |-> score, property |-> property]
FactEvent(fact) == [type |-> "disclosed_fact", fact |-> fact]
ForbiddenEvent(capability) == [type |-> "unauthorized_capability", capability |-> capability]

-------------------------------------------------------------------------------
At(trace, type) == {i \in DOMAIN trace : trace[i].type = type}
Of(trace, type) == {trace[i] : i \in At(trace, type)}

(* What the bundle holds after a successful parse. *)
States(trace) == Of(trace, "state")
Transitions(trace) == Of(trace, "transition")
Accesses(trace) == Of(trace, "resource_access")
DeclaredPairs(trace) == {{e.agents[1], e.agents[2]} : e \in Of(trace, "declared_relationship")}
RootAuthority(trace) == UNION {e.capabilities : e \in Of(trace, "root_authority")}
DelegationChain(trace) ==
    LET at == Ascending(At(trace, "delegation")) IN [n \in DOMAIN at |-> trace[at[n]]]
Queries(trace) == Of(trace, "differential_query")
EvidenceRecords(trace) == Of(trace, "evidence")
DisclosedFacts(trace) == {e.fact : e \in Of(trace, "disclosed_fact")}
ForbiddenSet(trace) == {e.capability : e \in Of(trace, "unauthorized_capability")}

(* graph.state(id): State declarations may come after the transitions that  *)
(* name them.                                                               *)
Graph(trace) ==
    [id \in {s.id : s \in States(trace)} |-> CHOOSE s \in States(trace) : s.id = id]

-------------------------------------------------------------------------------
(* What parse_trace refuses of events with the right fields, one operator   *)
(* per TraceParseError.  First the conditions that relate lines to each     *)
(* other, ...                                                               *)
SingleEvents(trace) ==
    \A type \in {"init", "root_authority"} : Cardinality(At(trace, type)) <= 1

UniqueStateIds(trace) ==
    \A i, j \in At(trace, "state") : trace[i].id = trace[j].id => i = j

UniqueEvidenceIds(trace) ==
    \A i, j \in At(trace, "evidence") : trace[i].id = trace[j].id => i = j

ResourceSeqIncreases(trace) ==
    \A i, j \in At(trace, "resource_access") : i < j => trace[i].seq < trace[j].seq

GraphResolves(trace) ==
    LET declared == {s.id : s \in States(trace)} IN
    At(trace, "init") \cup At(trace, "state") \cup At(trace, "transition") # {} =>
        /\ \E e \in Of(trace, "init") : e.state_id \in declared
        /\ \A t \in Transitions(trace) : {t.src, t.dst} \subseteq declared

Coherent(trace) ==
    /\ SingleEvents(trace)
    /\ UniqueStateIds(trace)
    /\ UniqueEvidenceIds(trace)
    /\ ResourceSeqIncreases(trace)
    /\ GraphResolves(trace)

(* ... then that of a list by itself.  Which texts a line may carry          *)
(* (_validate_event: U+0000, sizes) is not a condition here: a producer of  *)
(* traces has to see to it, see LinesParse of RealGovernor.                 *)
NoDuplicate(list) == \A i, j \in DOMAIN list : list[i] = list[j] => i = j

DistinctListValues(trace) ==
    /\ \A e \in Of(trace, "delegation") : NoDuplicate(e.authority)
    /\ \A e \in Of(trace, "declared_relationship") : NoDuplicate(e.agents)

(* parse_trace returns a bundle, if _validate_event lets each text pass.    *)
Accepted(trace) == Coherent(trace) /\ DistinctListValues(trace)
===============================================================================
