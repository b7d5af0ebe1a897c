-------------------------------- MODULE Evidence --------------------------------
(***************************************************************************)
(* The evidence that MirrorConstitutionEngine is handed, as it accumulates: *)
(* resource accesses, declared relationships, delegations and query         *)
(* answers.  Callers may list accesses in any order; seq says when each     *)
(* happened.  The checks are functions of the evidence: check_channel_non_  *)
(* emergence is translated here as the loop it is, and compared with the    *)
(* declarative EmergentChannels of Articles; the walk of Article VI and the *)
(* counting of Article III are compared with what their articles say.       *)
(***************************************************************************)
EXTENDS Articles, Ascending

CONSTANTS
    Agent,       \* agent identities
    NoWriter,    \* last_writer is None
    Resource,    \* resource identifiers
    MaxSeq,      \* bound: accesses are numbered 1 .. MaxSeq
    Delegated,   \* the authority lists of delegations
    Root,        \* root_authority
    MaxHops,     \* bound: length of the delegation chain
    Query, Backing, Response,   \* of differential queries
    Disclosed    \* the queries whose variance is disclosed

ASSUME EvidenceAssumption ==
    /\ NoWriter \notin Agent
    /\ MaxSeq \in Nat
    /\ MaxHops \in Nat
    /\ Disclosed \subseteq Query

VARIABLES
    accesses,    \* resource_accesses
    declared,    \* declared_relationships
    chain,       \* delegation_chain
    queries      \* differential_queries

vars == <<accesses, declared, chain, queries>>

-------------------------------------------------------------------------------
Access == [seq: 1 .. MaxSeq, agent: Agent, resource: Resource, op: {"read", "write"}]
Edge == [from: Agent, to: Agent, authority: Delegated]
Answered == [query: Query, backing: Backing, response: Response]

Init ==
    /\ accesses = {}
    /\ declared = {}
    /\ chain = << >>
    /\ queries = {}

RecordAccess(access) ==
    /\ \A a \in accesses : a.seq # access.seq
    /\ accesses' = accesses \cup {access}
    /\ UNCHANGED <<declared, chain, queries>>

Declare(pair) ==
    /\ declared' = declared \cup {pair}
    /\ UNCHANGED <<accesses, chain, queries>>

Delegate(edge) ==
    /\ Len(chain) < MaxHops
    /\ chain' = Append(chain, edge)
    /\ UNCHANGED <<accesses, declared, queries>>

Answer(answer) ==
    /\ queries' = queries \cup {answer}
    /\ UNCHANGED <<accesses, declared, chain>>

Next ==
    \/ \E access \in Access : RecordAccess(access)
    \/ \E a, b \in Agent : a # b /\ Resource # {} /\ Declare({a, b})
    \/ \E edge \in Edge : Delegate(edge)
    \/ \E answer \in Answered : Answer(answer)

Spec == Init /\ [][Next]_vars

-------------------------------------------------------------------------------
(* check_channel_non_emergence: for each resource, its accesses by seq.     *)
Listed(resource) == {a \in accesses : a.resource = resource}

InOrder(resource) ==
    LET at == Ascending({a.seq : a \in Listed(resource)}) IN
    [i \in DOMAIN at |-> CHOOSE a \in Listed(resource) : a.seq = at[i]]

(* One iteration of the loop; counts is keyed by <<resource, agents>>.      *)
Count(counts, key) == IF key \in DOMAIN counts THEN counts[key] ELSE 0
Increment(counts, key) ==
    [k \in DOMAIN counts \cup {key} |-> Count(counts, k) + (IF k = key THEN 1 ELSE 0)]

(* A bug: a message is delivered once, to the first reader.                 *)
VisitOnce(scan, access) ==
    IF access.op = "write" THEN [scan EXCEPT !.last = access.agent]
    ELSE IF scan.last = NoWriter \/ scan.last = access.agent THEN scan
    ELSE IF {scan.last, access.agent} \in declared THEN scan
    ELSE [last |-> NoWriter,
          counts |-> Increment(scan.counts, <<access.resource, {scan.last, access.agent}>>)]

(* A bug: the writer is forgotten once a declared reader has been served.   *)
VisitForgets(scan, access) ==
    IF access.op = "write" THEN [scan EXCEPT !.last = access.agent]
    ELSE IF scan.last = NoWriter \/ scan.last = access.agent THEN scan
    ELSE IF {scan.last, access.agent} \in declared THEN [scan EXCEPT !.last = NoWriter]
    ELSE [scan EXCEPT !.counts =
             Increment(@, <<access.resource, {scan.last, access.agent}>>)]

Visit(scan, access) ==
    IF access.op = "write" THEN [scan EXCEPT !.last = access.agent]
    ELSE IF scan.last = NoWriter \/ scan.last = access.agent THEN scan
    ELSE IF {scan.last, access.agent} \in declared THEN scan
    ELSE [scan EXCEPT !.counts =
             Increment(@, <<access.resource, {scan.last, access.agent}>>)]

Counts(resource) ==
    LET ordered == InOrder(resource)
        scan[i \in 0 .. Len(ordered)] ==
            IF i = 0 THEN [last |-> NoWriter, counts |-> << >>]
            ELSE Visit(scan[i - 1], ordered[i])
    IN scan[Len(ordered)].counts

Messages ==
    [k \in UNION {DOMAIN Counts(r) : r \in Resource} |-> Count(Counts(k[1]), k)]

-------------------------------------------------------------------------------
(* The type of the evidence, with one access per number.                    *)
TypeOK ==
    /\ accesses \subseteq Access
    /\ \A a, b \in accesses : a.seq = b.seq => a = b
    /\ declared \subseteq SUBSET Agent
    /\ chain \in Seq(Edge)
    /\ queries \subseteq Answered

(* Article V: the loop reports a resource and a pair exactly when one of    *)
(* them read there what the other had written last, and message_count is    *)
(* the number of such reads, whatever the order the accesses are listed in. *)
Carried(channel) ==
    {r \in accesses : \E w \in accesses :
        /\ Exchange(accesses, w, r, declared)
        /\ channel = <<r.resource, {w.agent, r.agent}>>}

ScanIsExact ==
    Messages = [channel \in EmergentChannels(accesses, declared) |-> Cardinality(Carried(channel))]

(* More evidence withdraws no alarm: accesses that happened later only add  *)
(* messages, and declaring a relationship silences that pair alone.         *)
Later == \A a \in accesses' \ accesses, b \in accesses : b.seq < a.seq

AlarmsStand ==
    [][LET after == Messages' IN
       \A m \in DOMAIN Messages :
          /\ Later /\ declared' = declared => Messages[m] <= Count(after, m)
          /\ accesses' = accesses => m[2] \in declared' \/ Messages[m] = Count(after, m)]_vars

-------------------------------------------------------------------------------
(* Article VI (chainmail.py:43-45), "tracing back to root_authority": before *)
(* hop k an agent legitimately holds what a path of earlier hops, each       *)
(* handing it on, carried to it from the first delegator.                    *)
Carries(path, c, agent) ==
    /\ \A i \in DOMAIN path : c \in Range(chain[path[i]].authority)
    /\ \A i, j \in DOMAIN path : i < j => path[i] < path[j]
    /\ \A i \in 2 .. Len(path) : chain[path[i]].from = chain[path[i - 1]].to
    /\ IF path = << >> THEN agent = chain[1].from
       ELSE chain[path[1]].from = chain[1].from /\ chain[path[Len(path)]].to = agent

TracesBack(agent, c, k) ==
    c \in Root /\ \E m \in 0 .. k - 1 : \E path \in [1 .. m -> 1 .. k - 1] : Carries(path, c, agent)

Excess(k) == {c \in Range(chain[k].authority) : ~TracesBack(chain[k].from, c, k)}

(* The walk reports, in order, exactly the hops that hand on something      *)
(* their delegator does not trace back to the root, and exactly that.       *)
WalkIsExact ==
    ExpandingDelegations(chain, Root) =
        LET reported == Ascending({k \in DOMAIN chain : Excess(k) # {}}) IN
        [i \in DOMAIN reported |-> [edge |-> chain[reported[i]], expanded |-> Excess(reported[i])]]

-------------------------------------------------------------------------------
(* Article III: counting responses and backing states apart reports a query *)
(* exactly when two of its answers differ in both, that is, when an answer  *)
(* varies with the backing state and the variance was not disclosed.        *)
LeakIsVariance ==
    DifferentialLeaks(queries, Disclosed) =
        {q \in Query \ Disclosed :
            \E d, e \in queries :
                /\ d.query = q /\ e.query = q
                /\ d.backing # e.backing /\ d.response # e.response}
===============================================================================
