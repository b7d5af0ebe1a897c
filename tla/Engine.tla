--------------------------------- MODULE Engine ---------------------------------
(***************************************************************************)
(* MirrorConstitutionEngine (engine.py), what it is built from and what it  *)
(* reports.  Its artifacts are either handed to it (the evidence of         *)
(* Evidence) or read from a trace, which any sandbox may have written: the  *)
(* lines arrive one at a time, and the engine may be run on what there is   *)
(* after each.  parse_trace is the loop it is, one operator per kind of     *)
(* line, and is compared with the declarative reading of AuditTrace.        *)
(***************************************************************************)
EXTENDS Evidence, AuditTrace

CONSTANTS
    Line,             \* the lines a trace may hold
    MaxLines,         \* bound: length of the trace
    MetricThreshold,  \* metric_threshold, 0.5
    MaxPath           \* bound: length of the paths PathsExplained follows

(* Lines that are no event: blank or a comment, and one that is refused     *)
(* whatever comes before it.  A seq that is left out is NoSeq.              *)
Blank == [type |-> "blank"]
Malformed == [type |-> "malformed"]
NoSeq == -1

LineType ==
    {"blank", "malformed", "init", "state", "transition", "resource_access", "evidence",
     "delegation", "differential_query", "declared_relationship", "disclosed_fact",
     "unauthorized_capability", "root_authority", "operation_denied"}

(* Other lines are of a known type and have its fields (_validate_event).   *)
ASSUME EngineAssumption ==
    /\ MaxLines \in Nat /\ MetricThreshold \in Int /\ MaxPath \in Nat
    /\ \A line \in Line :
          /\ line.type \in LineType
          /\ line.type = "resource_access" =>
                /\ line = AccessEvent(line.seq, line.agent, line.resource, line.op)
                /\ line.seq \in Nat \cup {NoSeq}
          /\ line.type = "declared_relationship" =>
                line = DeclaredEvent(line.agents[1], line.agents[2])

VARIABLE lines   \* the trace file

engineVars == <<vars, lines>>

-------------------------------------------------------------------------------
EngineInit == Init /\ lines = << >>

(* The artifacts of a run are handed over...                                *)
HandOver == Next /\ lines = << >> /\ UNCHANGED lines

(* ...or its sandbox writes them to a trace.                                *)
WriteLine(line) ==
    /\ Len(lines) < MaxLines
    /\ <<accesses, declared, chain, queries>> = <<{}, {}, << >>, {}>>
    /\ lines' = Append(lines, line)
    /\ UNCHANGED vars

EngineNext == HandOver \/ \E line \in Line : WriteLine(line)

EngineSpec == EngineInit /\ [][EngineNext]_engineVars

-------------------------------------------------------------------------------
(* parse_trace.  What it has collected before a line: *)
Nothing ==
    [refused |-> FALSE, init |-> {}, states |-> {}, transitions |-> {}, lastSeq |-> -1,
     accesses |-> {}, records |-> {}, chain |-> << >>, queries |-> {}, declared |-> {},
     facts |-> {}, forbidden |-> {}, root |-> {}]

Refuse(bundle) == [bundle EXCEPT !.refused = TRUE]

ReadInit(bundle, e) ==
    IF bundle.init # {} THEN Refuse(bundle) ELSE [bundle EXCEPT !.init = {e.state_id}]

(* A bug: a state defined again replaces the first.                         *)
ReadStateAgain(bundle, e) ==
    [bundle EXCEPT !.states = {s \in @ : s.id # e.id} \cup {e}]

ReadState(bundle, e) ==
    IF \E s \in bundle.states : s.id = e.id THEN Refuse(bundle)
    ELSE [bundle EXCEPT !.states = @ \cup {e}]

(* A bug: a repeated number is let through.                                 *)
ReadAccessRepeated(bundle, e, lineno) ==
    LET seq == IF e.seq = NoSeq THEN lineno ELSE e.seq IN
    IF seq < bundle.lastSeq THEN Refuse(bundle)
    ELSE [bundle EXCEPT !.lastSeq = seq, !.accesses = @ \cup {[e EXCEPT !.seq = seq]}]

ReadAccess(bundle, e, lineno) ==
    LET seq == IF e.seq = NoSeq THEN lineno ELSE e.seq IN
    IF seq <= bundle.lastSeq THEN Refuse(bundle)
    ELSE [bundle EXCEPT !.lastSeq = seq, !.accesses = @ \cup {[e EXCEPT !.seq = seq]}]

ReadEvidence(bundle, e) ==
    IF \E r \in bundle.records : r.id = e.id THEN Refuse(bundle)
    ELSE [bundle EXCEPT !.records = @ \cup {e}]

ReadDelegation(bundle, e) ==
    IF ~NoDuplicate(e.authority) THEN Refuse(bundle)
    ELSE [bundle EXCEPT !.chain = Append(@, e)]

ReadDeclared(bundle, e) ==
    IF ~NoDuplicate(e.agents) THEN Refuse(bundle)
    ELSE [bundle EXCEPT !.declared = @ \cup {Range(e.agents)}]

(* The root is {} until the event has come, which may give it any set.      *)
ReadRoot(bundle, e) ==
    IF bundle.root # {} THEN Refuse(bundle) ELSE [bundle EXCEPT !.root = {e.capabilities}]

ReadLine(bundle, e, lineno) ==
    IF bundle.refused THEN bundle
    ELSE
    CASE e.type \in {"blank", "operation_denied"} -> bundle
      [] e.type = "malformed" -> Refuse(bundle)
      [] e.type = "init" -> ReadInit(bundle, e)
      [] e.type = "state" -> ReadState(bundle, e)
      [] e.type = "transition" -> [bundle EXCEPT !.transitions = @ \cup {e}]
      [] e.type = "resource_access" -> ReadAccess(bundle, e, lineno)
      [] e.type = "evidence" -> ReadEvidence(bundle, e)
      [] e.type = "delegation" -> ReadDelegation(bundle, e)
      [] e.type = "differential_query" -> [bundle EXCEPT !.queries = @ \cup {e}]
      [] e.type = "declared_relationship" -> ReadDeclared(bundle, e)
      [] e.type = "disclosed_fact" -> [bundle EXCEPT !.facts = @ \cup {e.fact}]
      [] e.type = "unauthorized_capability" -> [bundle EXCEPT !.forbidden = @ \cup {e.capability}]
      [] e.type = "root_authority" -> ReadRoot(bundle, e)

Collected(trace) ==
    LET read[i \in 0 .. Len(trace)] ==
            IF i = 0 THEN Nothing ELSE ReadLine(read[i - 1], trace[i], i)
    IN read[Len(trace)]

(* The graph is built when all lines are read.                              *)
Ids(states) == {s.id : s \in states}
HasGraph(bundle) == bundle.init # {} \/ bundle.states # {} \/ bundle.transitions # {}

Unresolved(bundle) ==
    /\ HasGraph(bundle)
    /\ \/ bundle.init = {}
       \/ ~(bundle.init \subseteq Ids(bundle.states))
       \/ \E t \in bundle.transitions : ~({t.src, t.dst} \subseteq Ids(bundle.states))

GraphOf(bundle) ==
    [initial |-> CHOOSE id \in bundle.init : TRUE,
     state |-> [id \in Ids(bundle.states) |-> CHOOSE s \in bundle.states : s.id = id],
     transitions |-> bundle.transitions]

Finish(bundle) == IF Unresolved(bundle) THEN Refuse(bundle) ELSE bundle

ParseTrace(trace) == Finish(Collected(trace))

-------------------------------------------------------------------------------
(* What the engine is given: of each kind an artifact, or nothing (None).   *)
(* A bug: an empty list is given like any other.                            *)
GivenAlways(artifact, empty) == {artifact}

Given(artifact, empty) == IF artifact = empty THEN {} ELSE {artifact}

FromBundle(bundle) ==
    [graph |-> IF HasGraph(bundle) THEN {GraphOf(bundle)} ELSE {},
     forbidden |-> bundle.forbidden, facts |-> bundle.facts, declared |-> bundle.declared,
     root |-> UNION bundle.root,
     weave |-> {}, queries |-> Given(bundle.queries, {}), records |-> Given(bundle.records, {}),
     accesses |-> Given(bundle.accesses, {}), chain |-> Given(bundle.chain, << >>)]

Article == {"I", "II", "III", "IV", "V", "VI"}

(* run: the articles it evaluates, and those it finds violated.             *)
Evaluated(given) ==
    (IF given.graph # {} THEN {"I", "III"} ELSE {})
    \cup (IF given.weave # {} THEN {"II"} ELSE {})
    \cup (IF given.queries # {} THEN {"III"} ELSE {})
    \cup (IF given.records # {} THEN {"IV"} ELSE {})
    \cup (IF given.accesses # {} THEN {"V"} ELSE {})
    \cup (IF given.chain # {} THEN {"VI"} ELSE {})

(* A bug: of two transitions between the same states one is looked at.      *)
OnePerEnds(transitions) ==
    {t \in transitions : t = CHOOSE u \in transitions : u.src = t.src /\ u.dst = t.dst}

ViolatedOnePerEnds(given) ==
    {a \in Article : a = "I" /\ \E g \in given.graph :
        AuthorityViolations(OnePerEnds(g.transitions), g.state, given.forbidden) # {}}

Violated(given) ==
    {a \in Article :
        \/ /\ a = "I"
           /\ \E g \in given.graph : AuthorityViolations(g.transitions, g.state, given.forbidden) # {}
        \/ /\ a = "III"
           /\ \/ \E g \in given.graph : ConfidentialityViolations(g.transitions, g.state) # {}
              \/ \E asked \in given.queries : DifferentialLeaks(asked, given.facts) # {}
        \/ /\ a = "IV"
           /\ \E records \in given.records :
                 Misattributed(records) \cup Gamed(records, MetricThreshold) # {}
        \/ a = "V" /\ \E seen \in given.accesses : EmergentChannels(seen, given.declared) # {}
        \/ a = "VI" /\ \E hops \in given.chain : ExpandingDelegations(hops, given.root) # << >>}

(* article_status: True, False or None. *)
Status(given) ==
    [a \in Article |-> IF a \in Violated(given) THEN "fail"
                       ELSE IF a \in Evaluated(given) THEN "pass" ELSE "none"]

Passed(given) == \A a \in Article : Status(given)[a] = "pass"

EvaluatedChecksPassed(given) ==
    /\ \E a \in Article : Status(given)[a] # "none"
    /\ \A a \in Article : Status(given)[a] # "fail"

(* summary, and the exit status of the command line (cli.py).               *)
Overall(given) ==
    IF Passed(given) THEN "PASS"
    ELSE IF \E a \in Article : Status(given)[a] = "fail" THEN "FAIL" ELSE "INCOMPLETE"

Main(trace) ==
    LET bundle == ParseTrace(trace) IN
    IF bundle.refused THEN 2 ELSE IF Passed(FromBundle(bundle)) THEN 0 ELSE 1

-------------------------------------------------------------------------------
(* The loop accepts the traces that AuditTrace accepts, and collects what   *)
(* AuditTrace reads off the accepted ones; a number that is left out is     *)
(* that of the line, counting the lines that are no event.                  *)
NumberedLine(line, i) ==
    IF line.type = "resource_access" /\ line.seq = NoSeq THEN [line EXCEPT !.seq = i] ELSE line

Numbered(trace) == [i \in DOMAIN trace |-> NumberedLine(trace[i], i)]

ParseExact ==
    LET bundle == ParseTrace(lines) IN
    /\ bundle.refused <=> At(lines, "malformed") # {} \/ ~Accepted(Numbered(lines))
    /\ ~bundle.refused =>
        /\ bundle.states = States(lines) /\ bundle.transitions = Transitions(lines)
        /\ bundle.accesses = Accesses(Numbered(lines)) /\ bundle.records = EvidenceRecords(lines)
        /\ bundle.chain = DelegationChain(lines) /\ bundle.queries = Queries(lines)
        /\ bundle.declared = DeclaredPairs(lines) /\ UNION bundle.root = RootAuthority(lines)
        /\ bundle.facts = DisclosedFacts(lines) /\ bundle.forbidden = ForbiddenSet(lines)

(* "an omitted check should never be silently reported as green"            *)
(* (engine.py:124-127): an article is reported on exactly when the trace    *)
(* holds evidence for it, and the command line never says that a trace      *)
(* without a weave satisfies the constitution.                              *)
EvidenceOf(article) ==
    CASE article = "I" -> {"init"}
      [] article = "II" -> {}
      [] article = "III" -> {"init", "differential_query"}
      [] article = "IV" -> {"evidence"}
      [] article = "V" -> {"resource_access"}
      [] article = "VI" -> {"delegation"}

NothingOmittedIsGreen ==
    LET bundle == ParseTrace(lines)
        given == FromBundle(bundle)
        status == Status(given)
    IN ~bundle.refused =>
        /\ \A a \in Article :
              status[a] # "none" <=> \E i \in DOMAIN lines : lines[i].type \in EvidenceOf(a)
        /\ EvaluatedChecksPassed(given) => Overall(given) = "INCOMPLETE"
        /\ Main(lines) # 0

(* A trace that Articles I and III pass explains, along every path through  *)
(* its graph, what is there at the end and was not at the start, and every  *)
(* capability of the forbidden set, wherever the path began.                *)
Paths(graph) ==
    {p \in UNION {[1 .. n -> graph.transitions] : n \in 1 .. MaxPath} :
        \A i \in 2 .. Len(p) : p[i].src = p[i - 1].dst}

PathsExplained ==
    LET bundle == ParseTrace(lines)
        given == FromBundle(bundle)
        status == Status(given)
    IN ~bundle.refused =>
        \A g \in given.graph :
            LET first(p) == g.state[p[1].src]
                last(p) == g.state[p[Len(p)].dst]
                granted(p) == UNION {t.authorized_grant : t \in Range(p)}
                disclosed(p) == UNION {t.disclosed_grant : t \in Range(p)}
            IN /\ status["I"] = "pass" => \A p \in Paths(g) :
                     /\ last(p).capabilities \subseteq first(p).capabilities \cup granted(p)
                     /\ last(p).capabilities \cap given.forbidden \subseteq granted(p)
               /\ status["III"] = "pass" => \A p \in Paths(g) :
                     last(p).knowledge \subseteq first(p).knowledge \cup disclosed(p)

(* A trace that goes on takes no accusation back: what an article reported  *)
(* of an accepted trace it reports of every longer one that is accepted,    *)
(* also when those in between were refused, unless one of the lines that    *)
(* were added declares a relationship, a disclosed fact or the root         *)
(* authority.  (Such a line does, and it may come after what it excuses.)   *)
VerdictStands ==
    LET after == ParseTrace(lines) IN
    ~after.refused =>
        \A n \in 0 .. Len(lines) :
            LET before == ParseTrace(SubSeq(lines, 1, n)) IN
            /\ ~before.refused
            /\ \A i \in n + 1 .. Len(lines) :
                  lines[i].type \notin {"declared_relationship", "disclosed_fact", "root_authority"}
            => Violated(FromBundle(before)) \subseteq Violated(FromBundle(after))

-------------------------------------------------------------------------------
(* authority.py:46-49: "any capability in X that appears at any reachable   *)
(* state without having been granted anywhere on the path is also reported" *)
(* (the empty path leads to the initial state).                             *)
ForbiddenReported ==
    LET bundle == ParseTrace(lines)
        given == FromBundle(bundle)
    IN ~bundle.refused /\ Status(given)["I"] = "pass" =>
        \A g \in given.graph :
            /\ g.state[g.initial].capabilities \cap given.forbidden = {}
            /\ \A p \in {q \in Paths(g) : q[1].src = g.initial} :
                  g.state[p[Len(p)].dst].capabilities \cap given.forbidden
                      \subseteq UNION {t.authorized_grant : t \in Range(p)}
===============================================================================
