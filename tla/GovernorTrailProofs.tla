-------------------------- MODULE GovernorTrailProofs --------------------------
(***************************************************************************)
(* Proofs about what the governor writes and what it was paid for, on a     *)
(* disk that may refuse any line of the trail: the lines on disk fit        *)
(* together wherever they end, no content passes in silence, and nobody is  *)
(* granted more than the host approved.                                     *)
(***************************************************************************)
EXTENDS FailingTrailProofs, FiniteSetTheorems

-------------------------------------------------------------------------------
(* Where the events of one kind are after one more line. *)
LEMMA AtAppend ==
    ASSUME NEW S, NEW tr \in Seq(S), NEW e \in S
    PROVE  /\ Append(tr, e) \in Seq(S) /\ Len(Append(tr, e)) = Len(tr) + 1 /\ Len(tr) \in Nat
           /\ \A i \in 1 .. Len(tr) : Append(tr, e)[i] = tr[i]
           /\ Append(tr, e)[Len(tr) + 1] = e
           /\ \A type : At(tr, type) \subseteq 1 .. Len(tr)
           /\ \A type : At(Append(tr, e), type) =
                  At(tr, type) \cup (IF e.type = type THEN {Len(tr) + 1} ELSE {})
  <1> DEFINE new == Append(tr, e)
  <1>1. /\ new \in Seq(S) /\ Len(new) = Len(tr) + 1 /\ Len(tr) \in Nat
        /\ DOMAIN tr = 1 .. Len(tr) /\ DOMAIN new = 1 .. Len(tr) + 1
        /\ \A i \in 1 .. Len(tr) : new[i] = tr[i]
        /\ new[Len(tr) + 1] = e
    OBVIOUS
  <1> HIDE DEF new
  <1>2. \A type : At(tr, type) \subseteq 1 .. Len(tr)
    BY <1>1 DEF At
  <1>3. \A type : At(new, type) = At(tr, type) \cup (IF e.type = type THEN {Len(tr) + 1} ELSE {})
    BY <1>1 DEF At
  <1> QED
    BY <1>1, <1>2, <1>3 DEF new

(* Three lines, and what is left of them when one cannot be flushed. *)
Partly(lines) == \E k \in DOMAIN lines : trace' = trace \o SubSeq(lines, 1, k)

LEMMA PartGrows ==
    ASSUME NEW S, NEW tr \in Seq(S), NEW s \in Seq(S), NEW k \in 1 .. Len(s)
    PROVE  tr \o SubSeq(s, 1, k) = Append(tr \o SubSeq(s, 1, k - 1), s[k])
  <1> DEFINE short == SubSeq(s, 1, k - 1)
  <1>1. k - 1 \in Nat /\ k <= Len(s) /\ 1 \in 1 .. Len(s) /\ s[k] \in S
    OBVIOUS
  <1>2. short \in Seq(S) /\ <<s[k]>> \in Seq(S)
    BY <1>1
  <1>3. SubSeq(s, 1, k) = short \o <<s[k]>>
    BY <1>1, SubSeqRecursiveSecond
  <1> HIDE DEF short
  <1>4. tr \o short \in Seq(S)
    BY <1>2, ConcatProperties
  <1>5. (tr \o short) \o <<s[k]>> = Append(tr \o short, s[k])
    BY <1>1, <1>4, AppendIsConcat
  <1>6. (tr \o short) \o <<s[k]>> = tr \o (short \o <<s[k]>>)
    BY <1>2, ConcatAssociative
  <1> QED
    BY <1>3, <1>5, <1>6 DEF short

LEMMA PartEmpty ==
    ASSUME NEW S, NEW tr \in Seq(S), NEW s \in Seq(S)
    PROVE  tr \o SubSeq(s, 1, 0) = tr
  <1>1. SubSeq(s, 1, 0) \in Seq(S) /\ Len(SubSeq(s, 1, 0)) = 0
    OBVIOUS
  <1> QED
    BY <1>1

LEMMA PartsOfOne ==
    ASSUME trace \in Seq(Event), NEW e \in Event, Partly(<<e>>)
    PROVE  trace' = Append(trace, e)
  <1> DEFINE lines == <<e>>
  <1>1. lines \in Seq(Event) /\ Len(lines) = 1 /\ DOMAIN lines = 1 .. 1 /\ lines[1] = e
    OBVIOUS
  <1> HIDE DEF lines
  <1>2. trace' = trace \o SubSeq(lines, 1, 1)
    BY <1>1 DEF Partly, lines
  <1>3. trace \o SubSeq(lines, 1, 1) = Append(trace \o SubSeq(lines, 1, 1 - 1), lines[1])
    BY <1>1, PartGrows
  <1> QED
    BY <1>1, <1>2, <1>3, PartEmpty

LEMMA PartsOfThree ==
    ASSUME trace \in Seq(Event), NEW x \in Event, NEW y \in Event, NEW z \in Event,
           Partly(<<x, y, z>>)
    PROVE  \/ trace' = Append(trace, x)
           \/ trace' = Append(Append(trace, x), y)
           \/ trace' = Append(Append(Append(trace, x), y), z)
  <1> DEFINE lines == <<x, y, z>>
  <1>1. /\ lines \in Seq(Event) /\ Len(lines) = 3 /\ DOMAIN lines = 1 .. 3
        /\ lines[1] = x /\ lines[2] = y /\ lines[3] = z
    OBVIOUS
  <1>2. PICK k \in DOMAIN lines : trace' = trace \o SubSeq(lines, 1, k)
    BY DEF Partly
  <1> HIDE DEF lines
  <1>3. /\ trace \o SubSeq(lines, 1, 1) = Append(trace \o SubSeq(lines, 1, 1 - 1), x)
        /\ trace \o SubSeq(lines, 1, 2) = Append(trace \o SubSeq(lines, 1, 2 - 1), y)
        /\ trace \o SubSeq(lines, 1, 3) = Append(trace \o SubSeq(lines, 1, 3 - 1), z)
    BY <1>1, PartGrows
  <1>4. trace \o SubSeq(lines, 1, 0) = trace
    BY <1>1, PartEmpty
  <1>5. (k = 1 \/ k = 2 \/ k = 3) /\ 1 - 1 = 0 /\ 2 - 1 = 1 /\ 3 - 1 = 2
    BY <1>1
  <1> DEFINE part(n) == trace \o SubSeq(lines, 1, n)
  <1>6. /\ part(0) = trace /\ part(1) = Append(part(0), x) /\ part(2) = Append(part(1), y)
        /\ part(3) = Append(part(2), z) /\ trace' = part(k)
    BY <1>2, <1>3, <1>4, <1>5
  <1> HIDE DEF part
  <1> QED
    BY <1>5, <1>6

-------------------------------------------------------------------------------
(* A trail whose lines fit together, wherever it is cut after the first     *)
(* three of them.                                                           *)
(* What makes that inductive are the numbers: every id and every access on   *)
(* the trail has one that the counter has reached, so the next is new; and  *)
(* both ends of a transition are declared before it.                        *)
Reached(id, n) ==
    \/ id = Entry
    \/ \E a \in Agent, m \in Nat :
          /\ m <= n
          /\ id = Pre(a, m) \/ id = Post(a, m) \/ \E c \in Capability : id = Mirror(Pre(a, m), c)

DeclaredBefore(tr, id, i) == \E j \in At(tr, "state") : j < i /\ tr[j].id = id

Coheres(tr, n) ==
    /\ tr \in Seq(Event) /\ Len(tr) >= 3
    /\ At(tr, "init") = {1} /\ tr[1].state_id = Entry
    /\ 2 \in At(tr, "state") /\ tr[2].id = Entry
    /\ At(tr, "root_authority") = {3}
    /\ UniqueStateIds(tr)
    /\ \A i \in At(tr, "state") : Reached(tr[i].id, n)
    /\ ResourceSeqIncreases(tr)
    /\ \A i \in At(tr, "resource_access") : tr[i].seq \in Nat /\ tr[i].seq <= n
    /\ \A i \in At(tr, "transition") :
          DeclaredBefore(tr, tr[i].src, i) /\ DeclaredBefore(tr, tr[i].dst, i)

LEMMA ReachedLater ==
    ASSUME NEW n \in Nat, NEW m \in Nat, n <= m, NEW id, Reached(id, n)
    PROVE  Reached(id, m)
  BY DEF Reached

(* Ids with a number that was not reached are new. *)
LEMMA IdFields ==
    \A a, n, c :
        /\ Pre(a, n).kind = "pre" /\ Pre(a, n).agent = a /\ Pre(a, n).n = n
        /\ Post(a, n).kind = "post" /\ Post(a, n).agent = a /\ Post(a, n).n = n
        /\ Mirror(Pre(a, n), c).kind = "mirror" /\ Mirror(Pre(a, n), c).src = Pre(a, n)
        /\ Entry.kind = "entry"
  BY DEF Pre, Post, Mirror, Entry

LEMMA NumbersAreNew ==
    ASSUME NEW n \in Nat, NEW m \in Nat, n < m, NEW a \in Agent, NEW c \in Capability
    PROVE  /\ ~Reached(Pre(a, m), n) /\ ~Reached(Post(a, m), n) /\ ~Reached(Mirror(Pre(a, m), c), n)
           /\ Reached(Pre(a, m), m) /\ Reached(Post(a, m), m) /\ Reached(Mirror(Pre(a, m), c), m)
           /\ Pre(a, m) # Mirror(Pre(a, m), c) /\ Pre(a, n) # Post(a, m)
  <1>1. ~Reached(Pre(a, m), n) /\ ~Reached(Post(a, m), n) /\ ~Reached(Mirror(Pre(a, m), c), n)
    BY IdFields DEF Reached
  <1>2. Reached(Pre(a, m), m) /\ Reached(Post(a, m), m) /\ Reached(Mirror(Pre(a, m), c), m)
    BY DEF Reached
  <1>3. Pre(a, m) # Mirror(Pre(a, m), c) /\ Pre(a, n) # Post(a, m)
    BY IdFields
  <1> QED
    BY <1>1, <1>2, <1>3

(* A line may be added when its number, if it has one, is new, and when the *)
(* states it connects, if it connects any, are there.                       *)
Fits(tr, e, n, m) ==
    /\ e.type \notin {"init", "root_authority"}
    /\ e.type = "state" => Reached(e.id, m) /\ \A i \in At(tr, "state") : tr[i].id # e.id
    /\ e.type = "resource_access" => e.seq \in Nat /\ n < e.seq /\ e.seq <= m
    /\ e.type = "transition" =>
          /\ \E j \in At(tr, "state") : tr[j].id = e.src
          /\ \E j \in At(tr, "state") : tr[j].id = e.dst

LEMMA CoheresAppend ==
    ASSUME NEW tr, NEW n \in Nat, NEW m \in Nat, n <= m, Coheres(tr, n), NEW e \in Event, Fits(tr, e, n, m)
    PROVE  Coheres(Append(tr, e), m)
  <1> DEFINE new == Append(tr, e)
             last == Len(tr) + 1
  <1>1. tr \in Seq(Event)
    BY DEF Coheres
  <1>2. /\ new \in Seq(Event) /\ Len(new) = last /\ Len(tr) \in Nat
        /\ \A i \in 1 .. Len(tr) : new[i] = tr[i]
        /\ new[last] = e
        /\ \A type : At(tr, type) \subseteq 1 .. Len(tr)
        /\ \A type : At(new, type) = At(tr, type) \cup (IF e.type = type THEN {last} ELSE {})
    BY <1>1, AtAppend
  <1> HIDE DEF new
  <1>3. \A type : \A i \in At(tr, type) : i \in Nat /\ i < last /\ new[i] = tr[i]
    BY <1>2
  <1>4. /\ At(new, "init") = {1} /\ new[1].state_id = Entry
        /\ 2 \in At(new, "state") /\ new[2].id = Entry
        /\ At(new, "root_authority") = {3} /\ Len(new) >= 3
    BY <1>2, <1>3 DEF Coheres, Fits
  <1>5. UniqueStateIds(new)
    BY <1>2, <1>3 DEF Coheres, Fits, UniqueStateIds
  <1>6. \A i \in At(new, "state") : Reached(new[i].id, m)
    BY <1>2, <1>3, ReachedLater DEF Coheres, Fits
  <1>7. /\ ResourceSeqIncreases(new)
        /\ \A i \in At(new, "resource_access") : new[i].seq \in Nat /\ new[i].seq <= m
    <2> DEFINE old == At(tr, "resource_access")
               both == At(new, "resource_access")
    <2>1. /\ \A i \in old : tr[i].seq \in Nat /\ tr[i].seq <= n /\ i \in Nat /\ i < last /\ new[i] = tr[i]
          /\ \A i, j \in old : i < j => tr[i].seq < tr[j].seq
      BY <1>3 DEF Coheres, ResourceSeqIncreases
    <2>2. \/ both = old
          \/ both = old \cup {last} /\ new[last].seq \in Nat /\ n < new[last].seq /\ new[last].seq <= m
      <3>1. CASE e.type = "resource_access"
        <4>1. both = old \cup {last} /\ new[last] = e
          BY <1>2, <3>1
        <4> QED
          BY <3>1, <4>1 DEF Fits
      <3>2. CASE e.type # "resource_access"
        BY <1>2, <3>2
      <3> QED
        BY <3>1, <3>2
    <2> HIDE DEF old, both
    <2>3. \A i, j \in both : i < j => new[i].seq < new[j].seq
      BY <1>2, <2>1, <2>2
    <2>4. \A i \in both : new[i].seq \in Nat /\ new[i].seq <= m
      BY <2>1, <2>2
    <2> QED
      BY <2>3, <2>4 DEF both, ResourceSeqIncreases
  <1>8. ASSUME NEW i \in At(new, "transition")
        PROVE  DeclaredBefore(new, new[i].src, i) /\ DeclaredBefore(new, new[i].dst, i)
    <2>1. CASE i \in At(tr, "transition")
      <3>1. DeclaredBefore(tr, tr[i].src, i) /\ DeclaredBefore(tr, tr[i].dst, i) /\ new[i] = tr[i]
        BY <1>3, <2>1 DEF Coheres
      <3> QED
        BY <1>2, <1>3, <3>1 DEF DeclaredBefore
    <2>2. CASE e.type = "transition" /\ i = last
      BY <1>2, <1>3, <2>2 DEF Fits, DeclaredBefore
    <2> QED
      BY <1>2, <2>1, <2>2
  <1> QED
    BY <1>2, <1>4, <1>5, <1>6, <1>7, <1>8 DEF Coheres, new

(* Lines that fit together do so up to any line after the third. *)
LEMMA PrefixCoheres ==
    ASSUME NEW tr, NEW n \in Nat, Coheres(tr, n), NEW d \in 3 .. Len(tr)
    PROVE  Coheres(SubSeq(tr, 1, d), n)
  <1> DEFINE cut == SubSeq(tr, 1, d)
  <1>1. tr \in Seq(Event) /\ Len(tr) \in Nat /\ d \in Nat /\ 3 <= d /\ d <= Len(tr)
        /\ DOMAIN tr = 1 .. Len(tr)
    BY DEF Coheres
  <1>2. cut \in Seq(Event) /\ Len(cut) = d /\ DOMAIN cut = 1 .. d /\ \A i \in 1 .. d : cut[i] = tr[i]
    BY <1>1
  <1> HIDE DEF cut
  <1>3. \A type : At(cut, type) = At(tr, type) \cap 1 .. d
    BY <1>1, <1>2 DEF At
  <1>4. \A type : \A i \in At(cut, type) : i \in At(tr, type) /\ i \in 1 .. d /\ cut[i] = tr[i]
    BY <1>2, <1>3
  <1>5. ASSUME NEW i \in At(cut, "transition")
        PROVE  DeclaredBefore(cut, cut[i].src, i) /\ DeclaredBefore(cut, cut[i].dst, i)
    <2>1. DeclaredBefore(tr, tr[i].src, i) /\ DeclaredBefore(tr, tr[i].dst, i) /\ cut[i] = tr[i]
          /\ i \in 1 .. d
      BY <1>4 DEF Coheres
    <2>2. \A j \in At(tr, "state") : j < i => j \in At(cut, "state") /\ cut[j] = tr[j]
      <3>1. At(tr, "state") \subseteq 1 .. Len(tr)
        BY <1>1 DEF At
      <3> QED
        BY <1>1, <1>2, <1>3, <2>1, <3>1
    <2> QED
      BY <2>1, <2>2 DEF DeclaredBefore
  <1>6. UniqueStateIds(cut) /\ ResourceSeqIncreases(cut)
    BY <1>4 DEF Coheres, UniqueStateIds, ResourceSeqIncreases
  <1>7. /\ \A i \in At(cut, "state") : Reached(cut[i].id, n)
        /\ \A i \in At(cut, "resource_access") : cut[i].seq \in Nat /\ cut[i].seq <= n
    BY <1>4 DEF Coheres
  <1>8. /\ At(cut, "init") = {1} /\ cut[1].state_id = Entry
        /\ 2 \in At(cut, "state") /\ cut[2].id = Entry
        /\ At(cut, "root_authority") = {3} /\ Len(cut) >= 3
    BY <1>1, <1>2, <1>3 DEF Coheres
  <1> QED
    BY <1>2, <1>5, <1>6, <1>7, <1>8 DEF Coheres, cut

(* ... and that is what parse_trace asks of the lines together. *)
LEMMA PartsCohere ==
    ASSUME NEW tr, NEW n, Coheres(tr, n)
    PROVE  Coherent(tr)
  <1>1. SingleEvents(tr)
    <2>1. Cardinality({1}) = 1 /\ Cardinality({3}) = 1
      BY FS_Singleton
    <2>2. Cardinality(At(tr, "init")) = 1 /\ Cardinality(At(tr, "root_authority")) = 1
      BY <2>1, Zenon DEF Coheres
    <2>3. \A type \in {"init", "root_authority"} : Cardinality(At(tr, type)) = 1
      BY <2>2, Zenon
    <2>4. \A type \in {"init", "root_authority"} : Cardinality(At(tr, type)) <= 1
      BY <2>3
    <2> QED
      BY ONLY <2>4, Zenon DEF SingleEvents
  <1>2. GraphResolves(tr)
    <2> DEFINE declared == {s.id : s \in States(tr)}
    <2>1. \A i \in At(tr, "state") : tr[i].id \in declared
      BY DEF States, Of
    <2>2. \E e \in Of(tr, "init") : e.state_id \in declared
      <3>1. tr[1] \in Of(tr, "init") /\ tr[2].id \in declared /\ tr[1].state_id = tr[2].id
        BY <2>1 DEF Coheres, Of
      <3> QED
        BY <3>1
    <2>3. \A t \in Transitions(tr) : {t.src, t.dst} \subseteq declared
      BY <2>1 DEF Coheres, DeclaredBefore, Transitions, Of
    <2> QED
      BY <2>2, <2>3 DEF GraphResolves
  <1>3. UniqueEvidenceIds(tr)
    <2>1. \A e \in Event : e.type # "evidence"
      BY DEF Event
    <2>2. At(tr, "evidence") = {}
      BY <2>1 DEF Coheres, At
    <2> QED
      BY <2>2 DEF UniqueEvidenceIds
  <1> QED
    BY <1>1, <1>2, <1>3 DEF Coheres, Coherent

-------------------------------------------------------------------------------
(* What a step writes, if it writes at all, and what it counts.             *)
Quiet == trace' = trace /\ seq' \in Nat /\ seq <= seq'

Noted == {"declared_relationship", "delegation", "differential_query", "operation_denied"}

Noting ==
    /\ seq' \in {seq, seq + 1}
    /\ \E e \in Event : e.type \in Noted /\ trace' = Append(trace, e)

Accessing ==
    /\ seq' = seq + 1
    /\ \E a \in Agent, name \in ResourceName, op \in Operation :
          trace' = Append(trace, AccessEvent(seq + 1, a, name, op))

Granted(agent, c, token) == GrantDecided(agent, c, token) /\ Partly(GrantLines(agent, c))

Reflected(agent, c, token) == ReflectionDecided(agent, c, token) /\ Partly(ReflectionLines(agent, c))

Writing ==
    \/ Quiet \/ Noting \/ Accessing
    \/ \E a \in Agent, c \in Requested, token \in handed \cup {NoToken} :
           Granted(a, c, token) \/ Reflected(a, c, token)

LEMMA LinesTypes ==
    ASSUME TypeOK, NEW a \in Agent, NEW c \in Requested
    PROVE  GrantLines(a, c) \in Seq(Event) /\ ReflectionLines(a, c) \in Seq(Event)
  <1>1. c \in Capability /\ held[a] \in SUBSET Capability /\ held[a] \cup {c} \in SUBSET Capability
        /\ seq + 1 \in Nat /\ seq + 2 \in Nat
    BY GovernorAssumption DEF GovernorAssumption, TypeOK
  <1>2. /\ Pre(a, seq + 1) \in StateIds /\ Post(a, seq + 2) \in StateIds
        /\ Mirror(Pre(a, seq + 1), c) \in StateIds /\ ApparentFacts(c) \in SUBSET Facts
    BY <1>1, EventTypes DEF ApparentFacts, Facts
  <1>3. /\ StateEvent(Pre(a, seq + 1), held[a], {}) \in Event
        /\ StateEvent(Post(a, seq + 2), held[a] \cup {c}, {}) \in Event
        /\ TransitionEvent(Pre(a, seq + 1), Post(a, seq + 2), a, {c}, {}) \in Event
        /\ StateEvent(Mirror(Pre(a, seq + 1), c), held[a], ApparentFacts(c)) \in Event
        /\ TransitionEvent(Pre(a, seq + 1), Mirror(Pre(a, seq + 1), c), a, {}, ApparentFacts(c)) \in Event
    BY <1>1, <1>2, EventTypes
  <1> QED
    BY <1>3, LineTypes DEF GrantLines, ReflectionLines

(* All lines are a part of the lines. *)
LEMMA AllLines ==
    ASSUME NEW lines \in Seq(Event), Len(lines) = 3, trace' = trace \o lines
    PROVE  Partly(lines)
  <1>1. DOMAIN lines = 1 .. 3
    OBVIOUS
  <1>2. SubSeq(lines, 1, Len(lines)) = lines
    BY SubSeqFull
  <1>3. lines = SubSeq(lines, 1, 3)
    BY <1>2, Zenon
  <1>4. trace' = trace \o SubSeq(lines, 1, 3)
    BY <1>3, Zenon
  <1>5. 3 \in DOMAIN lines
    BY <1>1
  <1> QED
    BY <1>4, <1>5, Zenon DEF Partly

LEMMA RecordedWrites ==
    ASSUME TypeOK, Next
    PROVE  Writing
  <1>1. seq \in Nat /\ seq + 1 \in Nat /\ trace \in Seq(Event)
    BY DEF TypeOK
  <1>2. CASE Tick \/ IssueRefused
    BY <1>1, <1>2 DEF Tick, IssueRefused, governorVars, Writing, Quiet
  <1>3. ASSUME NEW a, NEW cs, GrantBaseCapabilities(a, cs) PROVE Quiet
    BY <1>1, <1>3 DEF GrantBaseCapabilities, Quiet
  <1>4. ASSUME NEW a, NEW name, NEW ops, GrantResourceAccess(a, name, ops) PROVE Quiet
    BY <1>1, <1>4 DEF GrantResourceAccess, governorVars, Quiet
  <1>5. ASSUME NEW token, NEW a, NEW c, NEW ttl,
               IssueAuthorization(token, a, c, ttl) \/ ApproveCapability(token, a, c, ttl)
        PROVE  Quiet
    BY <1>1, <1>5 DEF IssueAuthorization, ApproveCapability, Quiet
  <1>6. ASSUME NEW p \in Declarable, DeclareAgents(p[1], p[2]) PROVE Noting
    <2>1. DeclaredEvent(p[1], p[2]) \in Event
      BY EventTypes, GovernorAssumption DEF GovernorAssumption
    <2> QED
      BY <1>6, <2>1 DEF DeclareAgents, Noting, Noted, DeclaredEvent
  <1>7. ASSUME NEW a \in Agent, NEW op \in {"read", "write", "delegate", "differential_query"}, Deny(a, op)
        PROVE  Noting
    <2>1. DeniedEvent(seq + 1, a, op) \in Event
      BY <1>1, EventTypes
    <2> QED
      BY <1>7, <2>1 DEF Deny, Noting, Noted, DeniedEvent
  <1>8. ASSUME NEW a \in Agent, NEW name \in ResourceName, WriteResource(a, name) \/ ReadResource(a, name)
        PROVE  Accessing
    BY <1>8 DEF WriteResource, ReadResource, RecordAccess, Accessing, Operation
  <1>9. ASSUME NEW q \in Query, NEW b \in Backing, DifferentialQuery(q, b) PROVE Noting
    <2>1. QueryEvent(q, b, Answer[<<b, q>>]) \in Event
      BY EventTypes
    <2> QED
      BY <1>9, <2>1 DEF DifferentialQuery, Noting, Noted, QueryEvent
  <1>10. ASSUME NEW a \in Agent, NEW b \in Agent, NEW list \in AuthorityList, DelegateAuthority(a, b, list)
         PROVE  Noting
    <2>1. DelegationEvent(a, b, list) \in Event
      BY EventTypes
    <2> QED
      BY <1>10, <2>1 DEF DelegateAuthority, Noting, Noted, DelegationEvent
  <1>11. ASSUME NEW a \in Agent, NEW c \in Requested, NEW token \in handed \cup {NoToken},
                RequestCapability(a, c, token)
         PROVE  Quiet \/ Granted(a, c, token) \/ Reflected(a, c, token)
    <2>1. GrantLines(a, c) \in Seq(Event) /\ ReflectionLines(a, c) \in Seq(Event)
      BY LinesTypes
    <2>2. Len(GrantLines(a, c)) = 3 /\ Len(ReflectionLines(a, c)) = 3
      BY DEF GrantLines, ReflectionLines
    <2>3. RequestHeld(a, c, token) => Quiet
      BY <1>1 DEF RequestHeld, Quiet
    <2>4. RequestGranted(a, c, token) => Granted(a, c, token)
      BY <2>1, <2>2, AllLines DEF RequestGranted, Granted
    <2>5. RequestReflected(a, c, token) => Reflected(a, c, token)
      BY <2>1, <2>2, AllLines DEF RequestReflected, Reflected
    <2> QED
      BY <1>11, <2>3, <2>4, <2>5 DEF RequestCapability
  <1>12. CASE Host
    BY <1>2, <1>3, <1>4, <1>5, <1>6, <1>12 DEF Host, Writing
  <1>13. CASE Requests
    BY <1>7, <1>8, <1>9, <1>10, <1>11, <1>13
    DEF Requests, DenyAccess, DenyDelegation, DenyQuery, Operation, Writing
  <1> QED
    BY <1>2, <1>12, <1>13 DEF Next

LEMMA FailedWrite ==
    ASSUME NEW lines, FailsWriting(lines)
    PROVE  trace' = trace \/ Partly(lines)
  BY DEF FailsWriting, KeptBack, Dropped, Partly

LEMMA FailedLine ==
    ASSUME TypeOK, NEW e \in Event, FailsWriting(<<e>>)
    PROVE  trace' = trace \/ trace' = Append(trace, e)
  BY FailedWrite, PartsOfOne DEF TypeOK

LEMMA UnrecordedWrites ==
    ASSUME TypeOK, Unrecorded
    PROVE  Writing
  <1>1. seq \in Nat /\ seq + 1 \in Nat /\ seq + 2 \in Nat /\ trace \in Seq(Event)
    BY DEF TypeOK
  <1>2. ASSUME NEW p \in Declarable, DeclareUnrecorded(p[1], p[2]) PROVE Quiet \/ Noting
    <2> DEFINE e == DeclaredEvent(p[1], p[2])
    <2>1. e \in Event /\ e.type \in Noted
      BY EventTypes, GovernorAssumption DEF GovernorAssumption, DeclaredEvent, Noted
    <2>2. seq' = seq /\ FailsWriting(<<e>>)
      BY <1>2 DEF DeclareUnrecorded
    <2> HIDE DEF e
    <2> QED
      BY <1>1, <2>1, <2>2, FailedLine DEF Quiet, Noting
  <1>3. ASSUME NEW a \in Agent, NEW op \in Operation \cup {"delegate", "differential_query"},
               DenialUnrecorded(a, op)
        PROVE  Quiet \/ Noting
    <2> DEFINE e == DeniedEvent(seq + 1, a, op)
    <2>1. e \in Event /\ e.type \in Noted
      BY <1>1, EventTypes DEF DeniedEvent, Noted, Operation
    <2>2. seq' = seq + 1 /\ FailsWriting(<<e>>)
      BY <1>3 DEF DenialUnrecorded
    <2> HIDE DEF e
    <2> QED
      BY <1>1, <2>1, <2>2, FailedLine DEF Quiet, Noting
  <1>4. ASSUME NEW a \in Agent, NEW name \in ResourceName, WriteUnrecorded(a, name) \/ ReadUnrecorded(a, name)
        PROVE  Quiet \/ Accessing
    <2>1. PICK op \in Operation : AccessUnrecorded(a, op, name)
      BY <1>4 DEF WriteUnrecorded, ReadUnrecorded, Operation
    <2> DEFINE e == AccessEvent(seq + 1, a, name, op)
    <2>2. e \in Event
      BY <1>1, EventTypes
    <2>3. seq' = seq + 1 /\ FailsWriting(<<e>>)
      BY <2>1 DEF AccessUnrecorded
    <2>4. trace' = trace \/ trace' = Append(trace, e)
      BY <2>2, <2>3, FailedLine
    <2> QED
      BY <1>1, <2>3, <2>4 DEF Quiet, Accessing
  <1>5. ASSUME NEW q \in Query, NEW b \in Backing, QueryUnrecorded(q, b) PROVE Quiet \/ Noting
    <2> DEFINE e == QueryEvent(q, b, Answer[<<b, q>>])
    <2>1. e \in Event /\ e.type \in Noted
      BY EventTypes DEF QueryEvent, Noted
    <2>2. seq' = seq /\ FailsWriting(<<e>>)
      BY <1>5 DEF QueryUnrecorded
    <2> HIDE DEF e
    <2> QED
      BY <1>1, <2>1, <2>2, FailedLine DEF Quiet, Noting
  <1>6. ASSUME NEW a \in Agent, NEW b \in Agent, NEW list \in AuthorityList,
               DelegationUnrecorded(a, b, list)
        PROVE  Quiet \/ Noting
    <2> DEFINE e == DelegationEvent(a, b, list)
    <2>1. e \in Event /\ e.type \in Noted
      BY EventTypes DEF DelegationEvent, Noted
    <2>2. seq' = seq /\ FailsWriting(<<e>>)
      BY <1>6 DEF DelegationUnrecorded
    <2> HIDE DEF e
    <2> QED
      BY <1>1, <2>1, <2>2, FailedLine DEF Quiet, Noting
  <1>7. ASSUME NEW a \in Agent, NEW c \in Requested, NEW token \in handed \cup {NoToken},
               GrantUnrecorded(a, c, token)
        PROVE  Quiet \/ Granted(a, c, token)
    BY <1>1, <1>7, FailedWrite DEF GrantUnrecorded, GrantDecided, Granted, Quiet
  <1>8. ASSUME NEW a \in Agent, NEW c \in Requested, NEW token \in handed \cup {NoToken},
               ReflectionUnrecorded(a, c, token)
        PROVE  Quiet \/ Reflected(a, c, token)
    BY <1>1, <1>8, FailedWrite DEF ReflectionUnrecorded, ReflectionDecided, Reflected, Quiet
  <1> QED
    BY <1>2, <1>3, <1>4, <1>5, <1>6, <1>7, <1>8 DEF Unrecorded, Writing

LEMMA TrailWrites ==
    ASSUME TypeOK, [TrailNext]_trailVars
    PROVE  Writing
  <1>1. CASE UNCHANGED trailVars
    BY <1>1 DEF trailVars, vars, governorVars, TypeOK, Writing, Quiet
  <1> QED
    BY <1>1, RecordedWrites, UnrecordedWrites DEF TrailNext, Recorded

-------------------------------------------------------------------------------
(* Every step keeps the lines together. *)
LEMMA CoheresLater ==
    ASSUME NEW tr, NEW n \in Nat, NEW m \in Nat, n <= m, Coheres(tr, n)
    PROVE  Coheres(tr, m)
  <1>1. \A i \in At(tr, "state") : Reached(tr[i].id, m)
    BY ReachedLater DEF Coheres
  <1>2. \A i \in At(tr, "resource_access") : tr[i].seq \in Nat /\ tr[i].seq <= m
    BY DEF Coheres
  <1> QED
    BY <1>1, <1>2 DEF Coheres

Declares(tr, id) == \E i \in At(tr, "state") : tr[i].id = id

(* A state, another, and the transition between them. *)
LEMMA TransitionCoheres ==
    ASSUME NEW m \in Nat, Coheres(trace, m), NEW x \in Event, NEW y \in Event, NEW z \in Event,
           x.type = "state", y.type = "state", z.type = "transition",
           Reached(x.id, m), Reached(y.id, m), x.id # y.id,
           ~Declares(trace, x.id), ~Declares(trace, y.id), z.src = x.id, z.dst = y.id,
           Partly(<<x, y, z>>)
    PROVE  Coheres(trace', m)
  <1> DEFINE one == Append(trace, x)
             two == Append(one, y)
             three == Append(two, z)
  <1>1. trace \in Seq(Event)
    BY DEF Coheres
  <1>2. /\ one \in Seq(Event) /\ Len(trace) \in Nat /\ Len(one) = Len(trace) + 1
        /\ \A i \in 1 .. Len(trace) : one[i] = trace[i]
        /\ one[Len(trace) + 1] = x
        /\ At(trace, "state") \subseteq 1 .. Len(trace)
        /\ At(one, "state") = At(trace, "state") \cup {Len(trace) + 1}
    BY <1>1, AtAppend
  <1>3. Coheres(one, m)
    <2>1. Fits(trace, x, m, m)
      BY DEF Fits, Declares
    <2> QED
      BY <2>1, CoheresAppend
  <1> HIDE DEF one
  <1>4. /\ two \in Seq(Event) /\ Len(two) = Len(one) + 1
        /\ \A i \in 1 .. Len(one) : two[i] = one[i]
        /\ two[Len(one) + 1] = y
        /\ At(one, "state") \subseteq 1 .. Len(one)
        /\ At(two, "state") = At(one, "state") \cup {Len(one) + 1}
    BY <1>2, AtAppend
  <1>5. Coheres(two, m)
    <2>1. \A i \in At(one, "state") : one[i].id # y.id
      BY <1>2 DEF Declares
    <2>2. Fits(one, y, m, m)
      BY <2>1 DEF Fits
    <2> QED
      BY <1>3, <2>2, CoheresAppend
  <1> HIDE DEF two
  <1>6. Coheres(three, m)
    <2>1. Len(trace) + 1 \in At(two, "state") /\ two[Len(trace) + 1].id = x.id
      BY <1>2, <1>4
    <2>2. Len(one) + 1 \in At(two, "state") /\ two[Len(one) + 1].id = y.id
      BY <1>4
    <2>3. Fits(two, z, m, m)
      BY <2>1, <2>2 DEF Fits
    <2> QED
      BY <1>5, <2>3, CoheresAppend
  <1>7. trace' = one \/ trace' = two \/ trace' = three
    BY <1>1, PartsOfThree DEF one, two
  <1> QED
    BY <1>3, <1>5, <1>6, <1>7

LEMMA DeclaredReached ==
    ASSUME NEW tr, NEW n, Coheres(tr, n), NEW id, ~Reached(id, n)
    PROVE  ~Declares(tr, id)
  BY DEF Coheres, Declares

LEMMA GrantCoheres ==
    ASSUME TypeOK, Coheres(trace, seq), NEW a \in Agent, NEW c \in Requested, NEW token,
           Granted(a, c, token)
    PROVE  Coheres(trace', seq')
  <1> DEFINE src == Pre(a, seq + 1)
             dst == Post(a, seq + 2)
             x == StateEvent(src, held[a], {})
             y == StateEvent(dst, held[a] \cup {c}, {})
             z == TransitionEvent(src, dst, a, {c}, {})
  <1>1. /\ c \in Capability /\ held[a] \in SUBSET Capability /\ held[a] \cup {c} \in SUBSET Capability
        /\ seq \in Nat /\ seq + 1 \in Nat /\ seq + 2 \in Nat /\ seq' = seq + 2
    BY GovernorAssumption DEF GovernorAssumption, TypeOK, Granted, GrantDecided
  <1>2. src \in StateIds /\ dst \in StateIds
    BY <1>1, EventTypes
  <1>3. x \in Event /\ y \in Event /\ z \in Event
    BY <1>1, <1>2, EventTypes
  <1>4. /\ x.type = "state" /\ y.type = "state" /\ z.type = "transition"
        /\ x.id = src /\ y.id = dst /\ z.src = src /\ z.dst = dst
    BY DEF StateEvent, TransitionEvent
  <1>5. Partly(<<x, y, z>>)
    BY DEF Granted, GrantLines
  <1>6. ~Reached(src, seq) /\ ~Reached(dst, seq) /\ Reached(src, seq + 1) /\ Reached(dst, seq + 2)
        /\ src # dst
    BY <1>1, NumbersAreNew
  <1>7. Reached(src, seq + 2)
    BY <1>1, <1>6, ReachedLater
  <1>8. ~Declares(trace, src) /\ ~Declares(trace, dst)
    BY <1>6, DeclaredReached
  <1>9. Coheres(trace, seq + 2)
    BY <1>1, CoheresLater
  <1> HIDE DEF src, dst, x, y, z
  <1>10. Coheres(trace', seq + 2)
    BY <1>1, <1>3, <1>4, <1>5, <1>6, <1>7, <1>8, <1>9, TransitionCoheres
  <1> QED
    BY <1>1, <1>10

LEMMA ReflectionCoheres ==
    ASSUME TypeOK, Coheres(trace, seq), NEW a \in Agent, NEW c \in Requested, NEW token,
           Reflected(a, c, token)
    PROVE  Coheres(trace', seq')
  <1> DEFINE src == Pre(a, seq + 1)
             dst == Mirror(src, c)
             facts == ApparentFacts(c)
             x == StateEvent(src, held[a], {})
             y == StateEvent(dst, held[a], facts)
             z == TransitionEvent(src, dst, a, {}, facts)
  <1>1. /\ c \in Capability /\ held[a] \in SUBSET Capability /\ facts \in SUBSET Facts
        /\ seq \in Nat /\ seq + 1 \in Nat /\ seq' = seq + 1
    BY GovernorAssumption DEF GovernorAssumption, TypeOK, Reflected, ReflectionDecided, ApparentFacts, Facts
  <1>2. src \in StateIds /\ dst \in StateIds
    BY <1>1, EventTypes
  <1>3. x \in Event /\ y \in Event /\ z \in Event
    BY <1>1, <1>2, EventTypes
  <1>4. /\ x.type = "state" /\ y.type = "state" /\ z.type = "transition"
        /\ x.id = src /\ y.id = dst /\ z.src = src /\ z.dst = dst
    BY DEF StateEvent, TransitionEvent
  <1>5. Partly(<<x, y, z>>)
    BY DEF Reflected, ReflectionLines
  <1>6. ~Reached(src, seq) /\ ~Reached(dst, seq) /\ Reached(src, seq + 1) /\ Reached(dst, seq + 1)
        /\ src # dst
    BY <1>1, NumbersAreNew
  <1>7. ~Declares(trace, src) /\ ~Declares(trace, dst)
    BY <1>6, DeclaredReached
  <1>8. Coheres(trace, seq + 1)
    BY <1>1, CoheresLater
  <1> HIDE DEF src, dst, x, y, z, facts
  <1>9. Coheres(trace', seq + 1)
    BY <1>1, <1>3, <1>4, <1>5, <1>6, <1>7, <1>8, TransitionCoheres
  <1> QED
    BY <1>1, <1>9

LEMMA WritingCoheres ==
    ASSUME TypeOK, Coheres(trace, seq), Writing
    PROVE  Coheres(trace', seq')
  <1>1. seq \in Nat /\ seq + 1 \in Nat
    BY DEF TypeOK
  <1>2. CASE Quiet
    BY <1>1, <1>2, CoheresLater DEF Quiet
  <1>3. CASE Noting
    <2>1. PICK e \in Event : e.type \in Noted /\ trace' = Append(trace, e)
      BY <1>3 DEF Noting
    <2>2. seq' \in Nat /\ seq <= seq'
      BY <1>1, <1>3 DEF Noting
    <2>3. Fits(trace, e, seq, seq')
      BY <2>1 DEF Fits, Noted
    <2> QED
      BY <1>1, <2>1, <2>2, <2>3, CoheresAppend
  <1>4. CASE Accessing
    <2>1. PICK a \in Agent, name \in ResourceName, op \in Operation :
             trace' = Append(trace, AccessEvent(seq + 1, a, name, op))
      BY <1>4 DEF Accessing
    <2> DEFINE e == AccessEvent(seq + 1, a, name, op)
    <2>2. e \in Event /\ e.type = "resource_access" /\ e.seq = seq + 1
      BY <1>1, EventTypes DEF AccessEvent
    <2> HIDE DEF e
    <2>3. Fits(trace, e, seq, seq + 1)
      BY <1>1, <2>2 DEF Fits
    <2>4. Coheres(Append(trace, e), seq + 1)
      BY <1>1, <2>2, <2>3, CoheresAppend
    <2> QED
      BY <1>4, <2>1, <2>4 DEF Accessing, e
  <1>5. CASE \E a \in Agent, c \in Requested, token \in handed \cup {NoToken} :
                Granted(a, c, token) \/ Reflected(a, c, token)
    BY <1>5, GrantCoheres, ReflectionCoheres
  <1> QED
    BY <1>2, <1>3, <1>4, <1>5 DEF Writing

LEMMA InitCoheres == Init => Coheres(trace, seq) /\ Len(trace) = 3
  <1> SUFFICES ASSUME Init PROVE Coheres(trace, seq) /\ Len(trace) = 3
    OBVIOUS
  <1>1. trace \in Seq(Event) /\ Len(trace) = 3 /\ DOMAIN trace = 1 .. 3
        /\ trace[1] = InitEvent(Entry) /\ trace[2] = StateEvent(Entry, {}, {})
        /\ trace[3] = RootEvent({"fs:read", "fs:write"})
    BY InitType DEF Init, TypeOK
  <1>2. /\ trace[1].type = "init" /\ trace[1].state_id = Entry
        /\ trace[2].type = "state" /\ trace[2].id = Entry
        /\ trace[3].type = "root_authority"
    BY <1>1 DEF InitEvent, StateEvent, RootEvent
  <1>3. /\ At(trace, "init") = {1} /\ At(trace, "state") = {2} /\ At(trace, "root_authority") = {3}
        /\ At(trace, "resource_access") = {} /\ At(trace, "transition") = {}
    BY <1>1, <1>2 DEF At
  <1> QED
    BY <1>1, <1>2, <1>3 DEF Coheres, UniqueStateIds, ResourceSeqIncreases, Reached

Cohering == TypeOK /\ DiskType /\ Coheres(trace, seq) /\ 3 <= durable

LEMMA InitCohering == TrailInit => Cohering
  BY TrailInitType, InitCoheres DEF TrailInit, Cohering

LEMMA NextCohering == Cohering /\ [TrailNext]_trailVars => Cohering'
  <1> SUFFICES ASSUME Cohering, [TrailNext]_trailVars PROVE Cohering'
    OBVIOUS
  <1>1. TypeOK' /\ DiskType'
    BY TrailNextType DEF Cohering
  <1>2. Coheres(trace', seq')
    BY TrailWrites, WritingCoheres DEF Cohering
  <1>3. 3 <= durable'
    <2>1. durable \in Nat /\ durable' \in Nat /\ Len(trace') \in Nat /\ 3 <= Len(trace')
      BY <1>1, <1>2 DEF Cohering, DiskType, TypeOK, Coheres
    <2>2. CASE Unrecorded
      BY <2>1, <2>2, UnrecordedKeeps DEF Cohering, Kept, DiskKept
    <2>3. CASE Recorded
      BY <2>1, <2>3 DEF Cohering, Recorded
    <2>4. CASE UNCHANGED trailVars
      BY <2>4 DEF Cohering, trailVars
    <2> QED
      BY <2>2, <2>3, <2>4 DEF TrailNext
  <1> QED
    BY <1>1, <1>2, <1>3 DEF Cohering

LEMMA CoheringSuffices == Cohering => DiskCoheres
  <1> SUFFICES ASSUME Cohering PROVE DiskCoheres
    OBVIOUS
  <1>1. durable \in 3 .. Len(trace)
    BY DEF Cohering, DiskType
  <1>2. Coheres(OnDisk, seq)
    BY <1>1, PrefixCoheres DEF Cohering, TypeOK, OnDisk
  <1> QED
    BY <1>2, PartsCohere DEF DiskCoheres

(* governor_process.py:170-172, 533: whatever line the trail ends at, however *)
(* many lines could not be written before it and whatever texts they quote,   *)
(* what is on disk has one root, distinct states, increasing accesses and no  *)
(* transition to a state that is not declared: no order of requests, grants,  *)
(* reflections and failures makes the lines contradict each other.  (A line   *)
(* can still be refused by itself: LinesParse.)                               *)
THEOREM TrailCoheres == TrailSpec => []DiskCoheres
  <1>1. TrailSpec => []Cohering
    BY InitCohering, NextCohering, PTL DEF TrailSpec
  <1> QED
    BY <1>1, CoheringSuffices, PTL

-------------------------------------------------------------------------------
(* Content.  A set of accesses and one more with a higher number.           *)
Newest(accesses, w) ==
    /\ w.op = "write"
    /\ \A v \in accesses : v.op = "write" /\ v.resource = w.resource => v.seq <= w.seq

Numbered(accesses, n) == \A v \in accesses : v.seq \in Nat /\ v.seq <= n

LEMMA ExchangesOf ==
    ASSUME NEW acc, NEW declared, NEW f
    PROVE  f \in EmergentChannels(acc, declared) <=>
               \E w, r \in acc : Exchange(acc, w, r, declared) /\ f = <<r.resource, {w.agent, r.agent}>>
  <1>1. ASSUME f \in EmergentChannels(acc, declared)
        PROVE  \E w, r \in acc : Exchange(acc, w, r, declared) /\ f = <<r.resource, {w.agent, r.agent}>>
    <2>1. PICK p \in acc \X acc : /\ Exchange(acc, p[1], p[2], declared)
                                 /\ f = <<p[2].resource, {p[1].agent, p[2].agent}>>
      BY <1>1 DEF EmergentChannels
    <2>2. p[1] \in acc /\ p[2] \in acc
      OBVIOUS
    <2> QED
      BY <2>1, <2>2
  <1>2. ASSUME NEW w \in acc, NEW r \in acc, Exchange(acc, w, r, declared),
               f = <<r.resource, {w.agent, r.agent}>>
        PROVE  f \in EmergentChannels(acc, declared)
    <2> DEFINE p == <<w, r>>
    <2>1. p \in acc \X acc /\ p[1] = w /\ p[2] = r
      OBVIOUS
    <2> HIDE DEF p
    <2>2. p \in {q \in acc \X acc : Exchange(acc, q[1], q[2], declared)}
      BY <1>2, <2>1
    <2> QED
      BY <1>2, <2>1, <2>2 DEF EmergentChannels
  <1> QED
    BY <1>1, <1>2

LEMMA WriteIsNewest ==
    ASSUME NEW acc, NEW n \in Nat, Numbered(acc, n), NEW e, e.seq = n + 1, NEW w \in acc \cup {e}
    PROVE  Newest(acc \cup {e}, w) <=>
               \/ w = e /\ e.op = "write"
               \/ Newest(acc, w) /\ w \in acc /\ (e.op = "write" => w.resource # e.resource)
  BY DEF Numbered, Newest

(* What a later access adds to the exchanges. *)
LEMMA NewExchanges ==
    ASSUME NEW acc, NEW n \in Nat, Numbered(acc, n), NEW e, e.seq = n + 1, NEW f
    PROVE  f \in EmergentChannels(acc \cup {e}, {}) <=>
               \/ f \in EmergentChannels(acc, {})
               \/ /\ e.op = "read"
                  /\ \E w \in acc : /\ Newest(acc, w) /\ w.resource = e.resource
                                    /\ w.agent # e.agent /\ f = <<e.resource, {w.agent, e.agent}>>
  <1> DEFINE more == acc \cup {e}
  <1>1. \A w, r \in acc : Exchange(more, w, r, {}) <=> Exchange(acc, w, r, {})
    BY DEF Exchange, LastWrite, Numbered
  <1>2. \A r \in more : ~Exchange(more, e, r, {})
    BY DEF Exchange, LastWrite, Numbered
  <1>3. \A w \in acc : Exchange(more, w, e, {}) <=>
            /\ e.op = "read" /\ Newest(acc, w) /\ w.resource = e.resource /\ w.agent # e.agent
    BY DEF Exchange, LastWrite, Numbered, Newest
  <1> HIDE DEF more
  <1>4. f \in EmergentChannels(more, {}) <=>
            \E w, r \in more : Exchange(more, w, r, {}) /\ f = <<r.resource, {w.agent, r.agent}>>
    BY ExchangesOf
  <1>5. f \in EmergentChannels(acc, {}) <=>
            \E w, r \in acc : Exchange(acc, w, r, {}) /\ f = <<r.resource, {w.agent, r.agent}>>
    BY ExchangesOf
  <1>6. \A x : x \in more <=> x \in acc \/ x = e
    BY DEF more
  <1>7. f \in EmergentChannels(more, {}) <=>
            \/ \E w, r \in acc : Exchange(acc, w, r, {}) /\ f = <<r.resource, {w.agent, r.agent}>>
            \/ \E w \in acc : Exchange(more, w, e, {}) /\ f = <<e.resource, {w.agent, e.agent}>>
    BY <1>1, <1>2, <1>4, <1>6
  <1> QED
    BY <1>3, <1>5, <1>7 DEF more

(* Declaring relationships only removes exchanges from those reported.      *)
LEMMA DeclaredExchanges ==
    ASSUME NEW acc, NEW declared
    PROVE  EmergentChannels(acc, declared) = {f \in EmergentChannels(acc, {}) : f[2] \notin declared}
  <1>1. \A w, r : Exchange(acc, w, r, declared) <=>
            Exchange(acc, w, r, {}) /\ {w.agent, r.agent} \notin declared
    BY DEF Exchange
  <1>2. \A f : f \in EmergentChannels(acc, declared) <=>
            f \in EmergentChannels(acc, {}) /\ f[2] \notin declared
    BY <1>1, ExchangesOf
  <1>3. EmergentChannels(acc, declared) \subseteq EmergentChannels(acc, {})
    BY <1>2
  <1> QED
    BY <1>2

(* Steps.  What was on disk stays there, and every exchange on it.          *)
LEMMA PartKeeps ==
    ASSUME trace \in Seq(Event), NEW lines \in Seq(Event), Partly(lines)
    PROVE  /\ trace' \in Seq(Event) /\ Len(trace) <= Len(trace')
           /\ \A i \in 1 .. Len(trace) : trace'[i] = trace[i]
  <1>1. PICK k \in DOMAIN lines : trace' = trace \o SubSeq(lines, 1, k)
    BY DEF Partly
  <1>2. SubSeq(lines, 1, k) \in Seq(Event) /\ Len(SubSeq(lines, 1, k)) \in Nat
    BY SubSeqProperties
  <1> DEFINE part == SubSeq(lines, 1, k)
  <1> HIDE DEF part
  <1>3. part \in Seq(Event) /\ Len(part) \in Nat /\ trace' = trace \o part
    BY <1>1, <1>2 DEF part
  <1> QED
    BY <1>3, Extends

LEMMA WritingKeeps ==
    ASSUME TypeOK, Writing
    PROVE  /\ Len(trace) <= Len(trace')
           /\ \A i \in 1 .. Len(trace) : trace'[i] = trace[i]
  <1>1. trace \in Seq(Event) /\ Len(trace) \in Nat
    BY DEF TypeOK
  <1>2. \A e : /\ Len(Append(trace, e)) = Len(trace) + 1
              /\ \A i \in 1 .. Len(trace) : Append(trace, e)[i] = trace[i]
    BY <1>1
  <1>3. CASE Quiet
    BY <1>1, <1>3 DEF Quiet
  <1>4. CASE Noting \/ Accessing
    <2>1. PICK e : trace' = Append(trace, e)
      BY <1>4 DEF Noting, Accessing
    <2> QED
      BY <1>1, <1>2, <2>1
  <1>5. ASSUME NEW a \in Agent, NEW c \in Requested, NEW token,
               Granted(a, c, token) \/ Reflected(a, c, token)
        PROVE  /\ Len(trace) <= Len(trace')
               /\ \A i \in 1 .. Len(trace) : trace'[i] = trace[i]
    BY <1>1, <1>5, LinesTypes, PartKeeps DEF Granted, Reflected
  <1> QED
    BY <1>3, <1>4, <1>5 DEF Writing

LEMMA DiskExtends ==
    ASSUME TypeOK, DiskType, [TrailNext]_trailVars
    PROVE  /\ durable \in Nat /\ durable' \in durable .. Len(trace') /\ durable <= Len(trace)
           /\ \A i \in 1 .. durable : trace'[i] = trace[i]
  <1>1. /\ trace \in Seq(Event) /\ Len(trace) \in Nat /\ Len(trace) <= Len(trace')
        /\ \A i \in 1 .. Len(trace) : trace'[i] = trace[i]
        /\ trace' \in Seq(Event) /\ Len(trace') \in Nat
        /\ durable \in Nat /\ durable <= Len(trace)
    <2>1. trace \in Seq(Event) /\ trace' \in Seq(Event)
      BY TrailNextType DEF TypeOK
    <2>2. Len(trace) \in Nat /\ Len(trace') \in Nat /\ durable \in Nat /\ durable <= Len(trace)
      BY <2>1 DEF DiskType
    <2>3. Len(trace) <= Len(trace') /\ \A i \in 1 .. Len(trace) : trace'[i] = trace[i]
      BY TrailWrites, WritingKeeps
    <2> QED
      BY <2>1, <2>2, <2>3
  <1>2. durable' \in durable .. Len(trace')
    <2>1. CASE Unrecorded
      BY <2>1, UnrecordedKeeps DEF Kept, DiskKept
    <2>2. CASE Recorded
      BY <1>1, <2>2 DEF Recorded
    <2>3. CASE UNCHANGED trailVars
      BY <1>1, <2>3 DEF trailVars, vars, governorVars
    <2> QED
      BY <2>1, <2>2, <2>3 DEF TrailNext
  <1> QED
    BY <1>1, <1>2

LEMMA PrefixOf ==
    ASSUME NEW tr \in Seq(Event), NEW d \in Nat, d <= Len(tr)
    PROVE  DOMAIN SubSeq(tr, 1, d) = 1 .. d /\ \A i \in 1 .. d : SubSeq(tr, 1, d)[i] = tr[i]
  OBVIOUS

LEMMA ExchangesStayOnDisk ==
    ASSUME Cohering, [TrailNext]_trailVars
    PROVE  EmergentChannels(Accesses(OnDisk), {}) \subseteq EmergentChannels(Accesses(OnDisk'), {})
  <1> DEFINE old == Accesses(OnDisk)
             new == Accesses(OnDisk')
  <1>1. Cohering' /\ trace' \in Seq(Event)
    BY NextCohering DEF Cohering, TypeOK
  <1>2. /\ durable \in Nat /\ durable' \in Nat /\ durable <= durable' /\ durable' <= Len(trace')
        /\ durable <= Len(trace) /\ \A i \in 1 .. durable : trace'[i] = trace[i]
    BY DiskExtends DEF Cohering
  <1>3. /\ DOMAIN OnDisk = 1 .. durable /\ \A i \in 1 .. durable : OnDisk[i] = trace[i]
        /\ DOMAIN OnDisk' = 1 .. durable' /\ \A i \in 1 .. durable' : OnDisk'[i] = trace'[i]
    <2>1. trace \in Seq(Event)
      BY DEF Cohering, TypeOK
    <2>2. /\ DOMAIN SubSeq(trace, 1, durable) = 1 .. durable
          /\ \A i \in 1 .. durable : SubSeq(trace, 1, durable)[i] = trace[i]
      BY <1>2, <2>1, PrefixOf
    <2>3. /\ DOMAIN SubSeq(trace', 1, durable') = 1 .. durable'
          /\ \A i \in 1 .. durable' : SubSeq(trace', 1, durable')[i] = trace'[i]
      BY <1>1, <1>2, PrefixOf
    <2> QED
      BY <2>2, <2>3 DEF OnDisk
  <1>4. /\ old = {trace'[i] : i \in {j \in 1 .. durable : trace'[j].type = "resource_access"}}
        /\ new = {trace'[i] : i \in {j \in 1 .. durable' : trace'[j].type = "resource_access"}}
    BY <1>2, <1>3 DEF Accesses, Of, At
  <1>5. /\ \A i, j \in 1 .. durable' :
              trace'[i].type = "resource_access" /\ trace'[j].type = "resource_access" /\ i < j =>
                  trace'[i].seq < trace'[j].seq
        /\ \A i \in 1 .. durable' : trace'[i].type = "resource_access" => trace'[i].seq \in Nat
    <2>1. \A i \in 1 .. durable' : trace'[i].type = "resource_access" => i \in At(trace', "resource_access")
      BY <1>1, <1>2 DEF At
    <2> QED
      BY <1>1, <2>1 DEF Cohering, Coheres, ResourceSeqIncreases
  <1>6. old \subseteq new
    BY <1>2, <1>4
  <1>7. \A v \in new, r \in old : v \in old \/ ~(v.seq < r.seq)
    <2> SUFFICES ASSUME NEW v \in new, NEW r \in old, v \notin old PROVE ~(v.seq < r.seq)
      OBVIOUS
    <2>1. PICK i \in 1 .. durable : r = trace'[i] /\ trace'[i].type = "resource_access"
      BY <1>4
    <2>2. PICK j \in 1 .. durable' : v = trace'[j] /\ trace'[j].type = "resource_access"
      BY <1>4
    <2>3. ~(j <= durable)
      BY <1>2, <1>4, <2>2
    <2>4. i < j /\ i \in 1 .. durable'
      BY <1>2, <2>3
    <2> QED
      BY <1>5, <2>1, <2>2, <2>4
  <1> HIDE DEF old, new
  <1>8. \A w, r \in old : Exchange(old, w, r, {}) => Exchange(new, w, r, {})
    BY <1>7 DEF Exchange, LastWrite
  <1> QED
    BY <1>6, <1>8, ExchangesOf DEF old, new

(* What a step does to the accesses, the files and the flows.               *)
Read(agent, name) ==
    LET author == writer[FileOf[name]] IN
    IF author \in Agent \ {agent} THEN {<<name, {author, agent}>>} ELSE {}

AccessedBy(agent, name, op) ==
    /\ Accesses(trace') = Accesses(trace) \cup {AccessEvent(seq + 1, agent, name, op)}
    /\ writer' = IF op = "write" THEN [writer EXCEPT ![FileOf[name]] = agent] ELSE writer

AccessKinds ==
    \/ Accesses(trace') = Accesses(trace) /\ writer' = writer /\ flows' = flows
    \/ \E a \in Agent, name \in Canonical : AccessedBy(a, name, "write") /\ flows' = flows
    \/ \E a \in Agent, name \in Canonical :
          AccessedBy(a, name, "read") /\ flows' = flows /\ faults' # 0
    \/ \E a \in Agent, name \in Canonical :
          /\ AccessedBy(a, name, "read") /\ flows' = flows \cup Read(a, name)
          /\ durable' = Len(trace')
    \/ lost'

LEMMA AccessesAppended ==
    ASSUME NEW tr \in Seq(Event), NEW e \in Event
    PROVE  Accesses(Append(tr, e)) =
               Accesses(tr) \cup (IF e.type = "resource_access" THEN {e} ELSE {})
  <1>1. Of(Append(tr, e), "resource_access") =
            Of(tr, "resource_access") \cup (IF e.type = "resource_access" THEN {e} ELSE {})
    BY OfAppend
  <1> QED
    BY <1>1 DEF Accesses

LEMMA NoAccessAppended ==
    ASSUME NEW tr \in Seq(Event), NEW e \in Event, e.type # "resource_access"
    PROVE  Append(tr, e) \in Seq(Event) /\ Accesses(Append(tr, e)) = Accesses(tr)
  <1>1. Accesses(Append(tr, e)) = Accesses(tr)
    BY AccessesAppended
  <1>2. Append(tr, e) \in Seq(Event)
    OBVIOUS
  <1> QED
    BY <1>1, <1>2

LEMMA NoAccessInThree ==
    ASSUME TypeOK, NEW x \in Event, NEW y \in Event, NEW z \in Event,
           x.type # "resource_access", y.type # "resource_access", z.type # "resource_access",
           Partly(<<x, y, z>>)
    PROVE  Accesses(trace') = Accesses(trace)
  <1> DEFINE one == Append(trace, x)
             two == Append(one, y)
             three == Append(two, z)
  <1>1. trace \in Seq(Event)
    BY DEF TypeOK
  <1>2. one \in Seq(Event) /\ Accesses(one) = Accesses(trace)
    BY <1>1, NoAccessAppended
  <1>3. trace' = one \/ trace' = two \/ trace' = three
    BY <1>1, PartsOfThree
  <1> HIDE DEF one
  <1>4. two \in Seq(Event) /\ Accesses(two) = Accesses(one)
    BY <1>2, NoAccessAppended
  <1> HIDE DEF two
  <1>5. Accesses(three) = Accesses(two)
    BY <1>4, NoAccessAppended
  <1> QED
    BY <1>2, <1>3, <1>4, <1>5

LEMMA NoAccessInLines ==
    ASSUME TypeOK, NEW a \in Agent, NEW c \in Requested,
           Partly(GrantLines(a, c)) \/ Partly(ReflectionLines(a, c))
    PROVE  Accesses(trace') = Accesses(trace)
  <1>1. /\ \A id, cs, fs : StateEvent(id, cs, fs).type # "resource_access"
        /\ \A src, dst, g, fs : TransitionEvent(src, dst, a, g, fs).type # "resource_access"
    BY DEF StateEvent, TransitionEvent
  <1>2. GrantLines(a, c) \in Seq(Event) /\ ReflectionLines(a, c) \in Seq(Event)
    BY LinesTypes
  <1>3. \A x, y, z : <<x, y, z>> \in Seq(Event) => x \in Event /\ y \in Event /\ z \in Event
    <2> SUFFICES ASSUME NEW x, NEW y, NEW z, <<x, y, z>> \in Seq(Event)
                 PROVE  x \in Event /\ y \in Event /\ z \in Event
      OBVIOUS
    <2> DEFINE s == <<x, y, z>>
    <2>1. s \in Seq(Event) /\ Len(s) = 3 /\ s[1] = x /\ s[2] = y /\ s[3] = z
      OBVIOUS
    <2> HIDE DEF s
    <2> QED
      BY <2>1
  <1>4. CASE Partly(GrantLines(a, c))
    BY <1>1, <1>2, <1>3, <1>4, NoAccessInThree DEF GrantLines
  <1>5. CASE Partly(ReflectionLines(a, c))
    BY <1>1, <1>2, <1>3, <1>5, NoAccessInThree DEF ReflectionLines
  <1> QED
    BY <1>4, <1>5

LEMMA RecordedAccesses == ASSUME TypeOK, Recorded PROVE AccessKinds
  <1>1. AccessEffect
    BY StepEffects DEF Recorded, Effects
  <1>2. ASSUME NEW a \in Agent, NEW name \in ResourceName, NEW op \in Operation,
               MayAccess(a, op, name),
               Accesses(trace') = Accesses(trace) \cup {AccessEvent(seq + 1, a, name, op)},
               \/ op = "write" /\ WriteResource(a, name)
               \/ op = "read" /\ ReadResource(a, name)
        PROVE  AccessKinds
    <2>1. name \in Canonical
      BY <1>2 DEF MayAccess, ValidResourceName
    <2>2. durable' = Len(trace')
      <3>1. trace \in Seq(Event) /\ trace' = Append(trace, AccessEvent(seq + 1, a, name, op))
        BY <1>2 DEF WriteResource, ReadResource, RecordAccess, TypeOK
      <3>2. Len(trace') = Len(trace) + 1 /\ Len(trace) \in Nat
        BY <3>1
      <3> QED
        BY <3>2 DEF Recorded
    <2>3. CASE op = "write" /\ WriteResource(a, name)
      BY <1>2, <2>1, <2>3 DEF WriteResource, AccessKinds, AccessedBy
    <2>4. CASE op = "read" /\ ReadResource(a, name)
      BY <1>2, <2>1, <2>2, <2>4 DEF ReadResource, AccessKinds, AccessedBy, Read
    <2> QED
      BY <1>2, <2>3, <2>4
  <1> QED
    BY <1>1, <1>2 DEF AccessEffect, AccessKinds

LEMMA UnrecordedAccesses == ASSUME TypeOK, DiskType, Unrecorded PROVE AccessKinds
  <1>1. seq + 1 \in Nat /\ trace \in Seq(Event)
    BY DEF TypeOK
  <1>2. faults' # 0
    BY UnrecordedKeeps DEF Kept, DiskKept
  <1>3. ASSUME NEW lines, FailsWriting(lines) PROVE lost' \/ Partly(lines)
    BY <1>3 DEF FailsWriting, KeptBack, Dropped, Partly
  <1>4. ASSUME NEW e \in Event, e.type # "resource_access", FailsWriting(<<e>>)
        PROVE  lost' \/ Accesses(trace') = Accesses(trace)
    BY <1>1, <1>3, <1>4, PartsOfOne, NoAccessAppended
  <1>5. ASSUME NEW p \in Declarable, DeclareUnrecorded(p[1], p[2]) PROVE AccessKinds
    <2> DEFINE e == DeclaredEvent(p[1], p[2])
    <2>1. e \in Event /\ e.type # "resource_access"
      BY EventTypes, GovernorAssumption DEF GovernorAssumption, DeclaredEvent
    <2>2. FailsWriting(<<e>>) /\ UNCHANGED <<writer, flows>>
      BY <1>5 DEF DeclareUnrecorded, historyVars
    <2> HIDE DEF e
    <2> QED
      BY <1>4, <2>1, <2>2 DEF AccessKinds
  <1>6. ASSUME NEW a \in Agent, NEW op \in Operation \cup {"delegate", "differential_query"},
               DenialUnrecorded(a, op)
        PROVE  AccessKinds
    <2> DEFINE e == DeniedEvent(seq + 1, a, op)
    <2>1. e \in Event /\ e.type # "resource_access"
      BY <1>1, EventTypes DEF DeniedEvent, Operation
    <2>2. FailsWriting(<<e>>) /\ UNCHANGED <<writer, flows>>
      BY <1>6 DEF DenialUnrecorded, historyVars
    <2> HIDE DEF e
    <2> QED
      BY <1>4, <2>1, <2>2 DEF AccessKinds
  <1>7. ASSUME NEW a \in Agent, NEW name \in ResourceName, NEW op \in Operation,
               AccessUnrecorded(a, op, name),
               writer' = IF op = "write" THEN [writer EXCEPT ![FileOf[name]] = a] ELSE writer,
               flows' = flows
        PROVE  AccessKinds
    <2> DEFINE e == AccessEvent(seq + 1, a, name, op)
    <2>1. e \in Event /\ e.type = "resource_access"
      BY <1>1, EventTypes DEF AccessEvent
    <2>2. name \in Canonical /\ FailsWriting(<<e>>)
      BY <1>7 DEF AccessUnrecorded, MayAccess, ValidResourceName
    <2>3. lost' \/ Accesses(trace') = Accesses(trace) \cup {e}
      <3>1. lost' \/ trace' = Append(trace, e)
        BY <1>1, <1>3, <2>1, <2>2, PartsOfOne
      <3>2. Accesses(Append(trace, e)) = Accesses(trace) \cup {e}
        BY <1>1, <2>1, AccessesAppended
      <3> QED
        BY <3>1, <3>2
    <2>4. lost' \/ AccessedBy(a, name, op)
      BY <1>7, <2>3 DEF AccessedBy
    <2> QED
      BY <1>2, <1>7, <2>2, <2>4 DEF AccessKinds, Operation
  <1>8. ASSUME NEW a \in Agent, NEW name \in ResourceName, WriteUnrecorded(a, name) \/ ReadUnrecorded(a, name)
        PROVE  AccessKinds
    <2>1. CASE WriteUnrecorded(a, name)
      BY <1>7, <2>1 DEF WriteUnrecorded, Operation
    <2>2. CASE ReadUnrecorded(a, name)
      BY <1>7, <2>2 DEF ReadUnrecorded, Operation
    <2> QED
      BY <1>8, <2>1, <2>2
  <1>9. ASSUME NEW q \in Query, NEW b \in Backing, QueryUnrecorded(q, b) PROVE AccessKinds
    <2> DEFINE e == QueryEvent(q, b, Answer[<<b, q>>])
    <2>1. e \in Event /\ e.type # "resource_access"
      BY EventTypes DEF QueryEvent
    <2>2. FailsWriting(<<e>>) /\ UNCHANGED <<writer, flows>>
      BY <1>9 DEF QueryUnrecorded, historyVars
    <2> HIDE DEF e
    <2> QED
      BY <1>4, <2>1, <2>2 DEF AccessKinds
  <1>10. ASSUME NEW a \in Agent, NEW b \in Agent, NEW list \in AuthorityList,
                DelegationUnrecorded(a, b, list)
         PROVE  AccessKinds
    <2> DEFINE e == DelegationEvent(a, b, list)
    <2>1. e \in Event /\ e.type # "resource_access"
      BY EventTypes DEF DelegationEvent
    <2>2. FailsWriting(<<e>>) /\ UNCHANGED <<writer, flows>>
      BY <1>10 DEF DelegationUnrecorded, historyVars
    <2> HIDE DEF e
    <2> QED
      BY <1>4, <2>1, <2>2 DEF AccessKinds
  <1>11. ASSUME NEW a \in Agent, NEW c \in Requested, NEW token \in handed \cup {NoToken},
                GrantUnrecorded(a, c, token) \/ ReflectionUnrecorded(a, c, token)
         PROVE  AccessKinds
    <2>1. UNCHANGED <<writer, flows>>
      BY <1>11 DEF GrantUnrecorded, ReflectionUnrecorded, GrantDecided, ReflectionDecided, ConsumeToken
    <2>2. lost' \/ Partly(GrantLines(a, c)) \/ Partly(ReflectionLines(a, c))
      BY <1>3, <1>11 DEF GrantUnrecorded, ReflectionUnrecorded
    <2> QED
      BY <2>1, <2>2, NoAccessInLines DEF AccessKinds
  <1> QED
    BY <1>5, <1>6, <1>8, <1>9, <1>10, <1>11 DEF Unrecorded

(* Who wrote a file last is the agent of the newest write on the trail, and  *)
(* as long as nothing has failed the other way round.                       *)
WritesTraced ==
    \A n \in Canonical, a \in Agent :
        writer[FileOf[n]] = a =>
            \E w \in Accesses(trace) : Newest(Accesses(trace), w) /\ w.resource = n /\ w.agent = a

WritesKept ==
    \A w \in Accesses(trace) :
        /\ w.agent \in Agent /\ w.resource \in Canonical
        /\ Newest(Accesses(trace), w) => writer[FileOf[w.resource]] = w.agent

FlowsOnDisk == flows \subseteq EmergentChannels(Accesses(OnDisk), {})

FlowsComplete == EmergentChannels(Accesses(trace), {}) \subseteq flows

Exchanged ==
    /\ ~lost => WritesTraced /\ FlowsOnDisk
    /\ faults = 0 =>
          durable = Len(trace) /\ ~lost /\ RelationshipsRecorded /\ WritesKept /\ FlowsComplete

LEMMA AccessNumbers ==
    ASSUME Cohering, NEW a, NEW name, NEW op
    PROVE  /\ seq \in Nat /\ Numbered(Accesses(trace), seq)
           /\ AccessEvent(seq + 1, a, name, op).seq = seq + 1
           /\ AccessEvent(seq + 1, a, name, op).agent = a
           /\ AccessEvent(seq + 1, a, name, op).resource = name
           /\ AccessEvent(seq + 1, a, name, op).op = op
  BY DEF Cohering, TypeOK, Coheres, Numbered, Accesses, Of, AccessEvent

LEMMA CanonicalFiles ==
    /\ \A n \in Canonical : n \in ResourceName /\ FileOf[n] \in File
    /\ \A m, n \in Canonical : FileOf[m] = FileOf[n] => m = n
  BY NamesAssumption, PolicyAssumption DEF NamesAssumption, PolicyAssumption

LEMMA NextWritesTraced ==
    ASSUME Cohering, WritesTraced, AccessKinds, ~lost'
    PROVE  WritesTraced'
  <1> SUFFICES ASSUME NEW n \in Canonical, NEW b \in Agent, writer'[FileOf[n]] = b
               PROVE  \E w \in Accesses(trace') :
                          Newest(Accesses(trace'), w) /\ w.resource = n /\ w.agent = b
    BY DEF WritesTraced
  <1>1. CASE Accesses(trace') = Accesses(trace) /\ writer' = writer
    BY <1>1 DEF WritesTraced
  <1>2. ASSUME NEW a \in Agent, NEW name \in Canonical, NEW op \in Operation, AccessedBy(a, name, op)
        PROVE  \E w \in Accesses(trace') :
                   Newest(Accesses(trace'), w) /\ w.resource = n /\ w.agent = b
    <2> DEFINE e == AccessEvent(seq + 1, a, name, op)
               acc == Accesses(trace)
    <2>1. seq \in Nat /\ Numbered(acc, seq) /\ e.seq = seq + 1 /\ e.agent = a /\ e.resource = name
          /\ e.op = op
      BY AccessNumbers
    <2>2. Accesses(trace') = acc \cup {e}
      BY <1>2 DEF AccessedBy
    <2>3. writer \in [File -> Agent \cup NotAgents]
      BY DEF Cohering, TypeOK
    <2>4. writer' = IF op = "write" THEN [writer EXCEPT ![FileOf[name]] = a] ELSE writer
      BY <1>2 DEF AccessedBy
    <2> HIDE DEF e, acc
    <2>5. CASE op = "write" /\ n = name
      <3>1. b = a
        BY <2>3, <2>4, <2>5, CanonicalFiles
      <3>2. Newest(acc \cup {e}, e)
        BY <2>1, <2>5, WriteIsNewest
      <3> QED
        BY <2>1, <2>2, <2>5, <3>1, <3>2
    <2>6. CASE op # "write" \/ n # name
      <3>1. writer[FileOf[n]] = b
        BY <2>3, <2>4, <2>6, CanonicalFiles
      <3>2. PICK w \in acc : Newest(acc, w) /\ w.resource = n /\ w.agent = b
        BY <3>1 DEF WritesTraced, acc
      <3>3. Newest(acc \cup {e}, w)
        BY <2>1, <2>6, <3>2, WriteIsNewest
      <3> QED
        BY <2>2, <3>2, <3>3
    <2> QED
      BY <2>5, <2>6
  <1> QED
    BY <1>1, <1>2 DEF AccessKinds, Operation

LEMMA NextWritesKept ==
    ASSUME Cohering, WritesKept, AccessKinds, ~lost'
    PROVE  WritesKept'
  <1> SUFFICES ASSUME NEW w \in Accesses(trace')
               PROVE  /\ w.agent \in Agent /\ w.resource \in Canonical
                      /\ Newest(Accesses(trace'), w) => writer'[FileOf[w.resource]] = w.agent
    BY DEF WritesKept
  <1>1. CASE Accesses(trace') = Accesses(trace) /\ writer' = writer
    BY <1>1 DEF WritesKept
  <1>2. ASSUME NEW a \in Agent, NEW name \in Canonical, NEW op \in Operation, AccessedBy(a, name, op)
        PROVE  /\ w.agent \in Agent /\ w.resource \in Canonical
               /\ Newest(Accesses(trace'), w) => writer'[FileOf[w.resource]] = w.agent
    <2> DEFINE e == AccessEvent(seq + 1, a, name, op)
               acc == Accesses(trace)
    <2>1. seq \in Nat /\ Numbered(acc, seq) /\ e.seq = seq + 1 /\ e.agent = a /\ e.resource = name
          /\ e.op = op
      BY AccessNumbers
    <2>2. Accesses(trace') = acc \cup {e}
      BY <1>2 DEF AccessedBy
    <2>3. writer \in [File -> Agent \cup NotAgents]
      BY DEF Cohering, TypeOK
    <2>4. writer' = IF op = "write" THEN [writer EXCEPT ![FileOf[name]] = a] ELSE writer
      BY <1>2 DEF AccessedBy
    <2> HIDE DEF e, acc
    <2>5. \A v \in acc : /\ v.agent \in Agent /\ v.resource \in Canonical
                         /\ Newest(acc, v) => writer[FileOf[v.resource]] = v.agent
      BY DEF WritesKept, acc
    <2>6. w.agent \in Agent /\ w.resource \in Canonical
      BY <2>1, <2>2, <2>5
    <2>7. ASSUME Newest(acc \cup {e}, w) PROVE writer'[FileOf[w.resource]] = w.agent
      <3>1. \/ w = e /\ e.op = "write"
            \/ Newest(acc, w) /\ w \in acc /\ (e.op = "write" => w.resource # e.resource)
        BY <2>1, <2>2, <2>7, WriteIsNewest
      <3>2. CASE w = e /\ e.op = "write"
        BY <2>1, <2>3, <2>4, <3>2, CanonicalFiles
      <3>3. CASE Newest(acc, w) /\ w \in acc /\ (e.op = "write" => w.resource # e.resource)
        <4>1. writer[FileOf[w.resource]] = w.agent
          BY <2>5, <3>3
        <4>2. op = "write" => FileOf[w.resource] # FileOf[name]
          BY <2>1, <2>6, <3>3, CanonicalFiles
        <4> QED
          BY <2>3, <2>4, <2>6, <4>1, <4>2, CanonicalFiles
      <3> QED
        BY <3>1, <3>2, <3>3
    <2> QED
      BY <2>2, <2>6, <2>7
  <1> QED
    BY <1>1, <1>2 DEF AccessKinds, Operation

LEMMA NextFlowsOnDisk ==
    ASSUME Cohering, [TrailNext]_trailVars, WritesTraced, FlowsOnDisk, AccessKinds, ~lost'
    PROVE  FlowsOnDisk'
  <1> SUFFICES ASSUME NEW f \in flows' PROVE f \in EmergentChannels(Accesses(OnDisk'), {})
    BY DEF FlowsOnDisk
  <1>1. CASE f \in flows
    BY <1>1, ExchangesStayOnDisk DEF FlowsOnDisk
  <1>2. CASE f \notin flows
    <2>1. PICK a \in Agent, name \in Canonical :
             /\ AccessedBy(a, name, "read") /\ flows' = flows \cup Read(a, name)
             /\ durable' = Len(trace')
      BY <1>2 DEF AccessKinds
    <2> DEFINE e == AccessEvent(seq + 1, a, name, "read")
               acc == Accesses(trace)
               author == writer[FileOf[name]]
    <2>2. seq \in Nat /\ Numbered(acc, seq) /\ e.seq = seq + 1 /\ e.agent = a /\ e.resource = name
          /\ e.op = "read"
      BY AccessNumbers
    <2>3. Accesses(trace') = acc \cup {e}
      BY <2>1 DEF AccessedBy
    <2>4. author \in Agent /\ author # a /\ f = <<name, {author, a}>>
      BY <1>2, <2>1 DEF Read
    <2>5. \E w \in acc : Newest(acc, w) /\ w.resource = name /\ w.agent = author
      BY <2>4 DEF WritesTraced
    <2> HIDE DEF e, acc, author
    <2>6. f \in EmergentChannels(acc \cup {e}, {})
      BY <2>2, <2>4, <2>5, NewExchanges
    <2>7. OnDisk' = trace'
      <3>1. trace' \in Seq(Event)
        BY NextCohering DEF Cohering, TypeOK
      <3> QED
        BY <2>1, <3>1, SubSeqFull DEF OnDisk
    <2> QED
      BY <2>3, <2>6, <2>7
  <1> QED
    BY <1>1, <1>2

LEMMA NextFlowsComplete ==
    ASSUME Cohering, WritesKept, FlowsComplete, AccessKinds, ~lost', faults' = 0
    PROVE  FlowsComplete'
  <1> SUFFICES ASSUME NEW f \in EmergentChannels(Accesses(trace'), {}) PROVE f \in flows'
    BY DEF FlowsComplete
  <1>1. CASE Accesses(trace') = Accesses(trace) /\ flows' = flows
    BY <1>1 DEF FlowsComplete
  <1>2. ASSUME NEW a \in Agent, NEW name \in Canonical, NEW op \in Operation,
               AccessedBy(a, name, op), flows \subseteq flows',
               op = "read" => flows' = flows \cup Read(a, name)
        PROVE  f \in flows'
    <2> DEFINE e == AccessEvent(seq + 1, a, name, op)
               acc == Accesses(trace)
    <2>1. seq \in Nat /\ Numbered(acc, seq) /\ e.seq = seq + 1 /\ e.agent = a /\ e.resource = name
          /\ e.op = op
      BY AccessNumbers
    <2>2. Accesses(trace') = acc \cup {e}
      BY <1>2 DEF AccessedBy
    <2> HIDE DEF e
    <2>3. CASE f \in EmergentChannels(acc, {})
      BY <1>2, <2>3 DEF FlowsComplete
    <2>4. CASE f \notin EmergentChannels(acc, {})
      <3>1. PICK w \in acc : /\ op = "read" /\ Newest(acc, w) /\ w.resource = name
                             /\ w.agent # a /\ f = <<name, {w.agent, a}>>
        BY <2>1, <2>2, <2>4, NewExchanges
      <3>2. w.agent \in Agent /\ writer[FileOf[name]] = w.agent
        BY <3>1 DEF WritesKept
      <3> QED
        BY <1>2, <3>1, <3>2 DEF Read
    <2> QED
      BY <2>3, <2>4
  <1> QED
    BY <1>1, <1>2 DEF AccessKinds, Operation

LEMMA InitExchanged == TrailInit => Exchanged
  <1> SUFFICES ASSUME TrailInit PROVE Exchanged
    OBVIOUS
  <1>1. Accesses(trace) = {} /\ Of(trace, "declared_relationship") = {}
    BY InitTrail DEF TrailInit, Types, Accesses
  <1>2. WritesTraced
    BY CanonicalFiles, GovernorAssumption DEF TrailInit, Init, WritesTraced, GovernorAssumption
  <1>3. WritesKept
    BY <1>1 DEF WritesKept
  <1>4. RelationshipsRecorded
    BY <1>1 DEF RelationshipsRecorded, DeclaredPairs, TrailInit, Init, PolicyInit
  <1>5. FlowsOnDisk /\ FlowsComplete
    <2>1. flows = {} /\ EmergentChannels({}, {}) = {}
      BY DEF TrailInit, Init, EmergentChannels
    <2> QED
      BY <1>1, <2>1 DEF FlowsOnDisk, FlowsComplete
  <1> QED
    BY <1>2, <1>3, <1>4, <1>5 DEF Exchanged, TrailInit

LEMMA NextExchanged == Cohering /\ Exchanged /\ [TrailNext]_trailVars => Exchanged'
  <1> SUFFICES ASSUME Cohering, Exchanged, [TrailNext]_trailVars PROVE Exchanged'
    OBVIOUS
  <1> USE DEF Exchanged
  <1>1. CASE UNCHANGED trailVars
    <2>1. UNCHANGED <<trace, durable, lost, faults, writer, flows, relationships>>
      BY <1>1 DEF trailVars, vars, governorVars, historyVars
    <2> QED
      BY <2>1 DEF WritesTraced, WritesKept, FlowsOnDisk, FlowsComplete, RelationshipsRecorded, OnDisk,
         Newest
  <1>2. CASE TrailNext
    <2>1. AccessKinds
      BY <1>2, RecordedAccesses, UnrecordedAccesses DEF Cohering, TrailNext
    <2>2. ~lost' => ~lost
      BY <1>2 DEF TrailNext, Recorded, Unrecorded, DeclareUnrecorded, DenialUnrecorded, WriteUnrecorded,
         ReadUnrecorded, AccessUnrecorded, QueryUnrecorded, DelegationUnrecorded, GrantUnrecorded,
         ReflectionUnrecorded, FailsWriting, KeptBack, Dropped
    <2>3. ~lost' => WritesTraced' /\ FlowsOnDisk'
      BY <2>1, <2>2, NextWritesTraced, NextFlowsOnDisk
    <2>4. ASSUME faults' = 0
          PROVE  durable' = Len(trace') /\ ~lost' /\ RelationshipsRecorded' /\ WritesKept' /\ FlowsComplete'
      <3>1. Recorded
        BY <1>2, <2>4, UnrecordedKeeps DEF Cohering, TrailNext, Kept, DiskKept
      <3>2. faults = 0 /\ ~lost' /\ durable' = Len(trace')
        BY <2>4, <3>1 DEF Recorded
      <3>3. RelationshipsRecorded'
        BY <3>1, <3>2, NextRelationships DEF Recorded, Cohering
      <3> QED
        BY <2>1, <2>4, <3>2, <3>3, NextWritesKept, NextFlowsComplete
    <2> QED
      BY <2>3, <2>4
  <1> QED
    BY <1>1, <1>2

LEMMA ExchangedSuffices == Cohering /\ Exchanged => NoSilentExchange
  <1> SUFFICES ASSUME Cohering, Exchanged PROVE NoSilentExchange
    OBVIOUS
  <1>1. ~lost => flows \subseteq EmergentChannels(Accesses(OnDisk), {})
    BY DEF Exchanged, FlowsOnDisk
  <1>2. ASSUME faults = 0 PROVE Channels = {f \in flows : f[2] \notin relationships}
    <2>1. OnDisk = trace
      BY <1>2, SubSeqFull DEF Exchanged, Cohering, TypeOK, OnDisk
    <2>2. flows = EmergentChannels(Accesses(trace), {}) /\ relationships = DeclaredPairs(trace)
      BY <1>1, <1>2, <2>1 DEF Exchanged, FlowsComplete, RelationshipsRecorded
    <2> QED
      BY <2>2, DeclaredExchanges DEF Channels
  <1> QED
    BY <1>1, <1>2 DEF NoSilentExchange

(* governor_process.py:330-431, channel.py:48-85: an agent never gets what   *)
(* another wrote without the exchange being on disk, through whatever name  *)
(* or alias, whichever lines were kept back, short of a dropped line; and   *)
(* as long as no write failed Article V finds exactly the undeclared ones.  *)
THEOREM ExchangesOnDisk == TrailSpec => []NoSilentExchange
  <1>1. TrailSpec => [](Cohering /\ Exchanged)
    BY InitCohering, NextCohering, InitExchanged, NextExchanged, PTL DEF TrailSpec
  <1> QED
    BY <1>1, ExchangedSuffices, PTL

-------------------------------------------------------------------------------
(* Approvals.  What a step does to them, on a disk that fails or does not.  *)
Ticking == clock' = clock + 1 /\ UNCHANGED <<approvals, preapproved, issued, handed, spent>>

Issuing(token, agent, capability, ttl) ==
    /\ Issue(token, agent, capability, ttl)
    /\ UNCHANGED <<clock, spent>>
    /\ \/ handed' = handed \cup {token} /\ preapproved' = preapproved
       \/ /\ preapproved' = [preapproved EXCEPT ![<<agent, capability>>] = token]
          /\ handed' = handed

Pruning ==
    /\ approvals' \in {approvals, Live(approvals, clock)}
    /\ UNCHANGED <<clock, preapproved, issued, handed, spent>>

ApprovalStep ==
    \/ Ticking
    \/ \E token \in Token, a \in Agent, c \in Requested, ttl \in 0 .. MaxTtl + 1 : Issuing(token, a, c, ttl)
    \/ Pruning
    \/ \E a \in Agent, c \in Requested, token \in handed \cup {NoToken} : ConsumeToken(a, c, token)

LEMMA NextApprovals == ASSUME [Next]_vars PROVE ApprovalStep
  <1> USE DEF governorVars, historyVars
  <1>1. CASE Tick
    BY <1>1 DEF Tick, ApprovalStep, Ticking
  <1>2. ASSUME NEW token \in Token, NEW a \in Agent, NEW c \in Requested, NEW ttl \in 0 .. MaxTtl + 1,
               IssueAuthorization(token, a, c, ttl) \/ ApproveCapability(token, a, c, ttl)
        PROVE  ApprovalStep
    BY <1>2 DEF IssueAuthorization, ApproveCapability, Issuing, ApprovalStep
  <1>3. CASE IssueRefused
    BY <1>3 DEF IssueRefused, Pruning, ApprovalStep
  <1>4. ASSUME NEW a, NEW cs, NEW name, NEW ops, NEW b,
               \/ GrantBaseCapabilities(a, cs) \/ GrantResourceAccess(a, name, ops) \/ DeclareAgents(a, b)
        PROVE  ApprovalStep
    BY <1>4 DEF GrantBaseCapabilities, GrantResourceAccess, DeclareAgents, Pruning, ApprovalStep
  <1>5. CASE Host
    BY <1>2, <1>3, <1>4, <1>5 DEF Host
  <1>6. ASSUME NEW a, NEW op, Deny(a, op) PROVE ApprovalStep
    BY <1>6 DEF Deny, Pruning, ApprovalStep
  <1>7. ASSUME NEW a, NEW name, WriteResource(a, name) \/ ReadResource(a, name) PROVE ApprovalStep
    BY <1>7 DEF WriteResource, ReadResource, RecordAccess, Pruning, ApprovalStep
  <1>8. ASSUME NEW q, NEW b, DifferentialQuery(q, b) PROVE ApprovalStep
    BY <1>8 DEF DifferentialQuery, Pruning, ApprovalStep
  <1>9. ASSUME NEW a, NEW b, NEW list, DelegateAuthority(a, b, list) PROVE ApprovalStep
    BY <1>9 DEF DelegateAuthority, Pruning, ApprovalStep
  <1>10. ASSUME NEW a \in Agent, NEW c \in Requested, NEW token \in handed \cup {NoToken},
                RequestCapability(a, c, token)
         PROVE  ApprovalStep
    BY <1>10 DEF RequestCapability, RequestHeld, RequestGranted, RequestReflected, GrantDecided,
       ReflectionDecided, ApprovalStep
  <1>11. CASE Requests
    BY <1>6, <1>7, <1>8, <1>9, <1>10, <1>11 DEF Requests, DenyAccess, DenyDelegation, DenyQuery
  <1>12. CASE UNCHANGED vars
    BY <1>12 DEF vars, Pruning, ApprovalStep
  <1> QED
    BY <1>1, <1>5, <1>11, <1>12 DEF Next

LEMMA TrailApprovals == ASSUME [TrailNext]_trailVars PROVE ApprovalStep
  <1> USE DEF historyVars
  <1>1. ASSUME NEW a, NEW b, NEW op, NEW name, NEW list,
               \/ DeclareUnrecorded(a, b) \/ DenialUnrecorded(a, op) \/ WriteUnrecorded(a, name)
               \/ ReadUnrecorded(a, name) \/ QueryUnrecorded(a, b) \/ DelegationUnrecorded(a, b, list)
        PROVE  ApprovalStep
    BY <1>1 DEF DeclareUnrecorded, DenialUnrecorded, WriteUnrecorded, ReadUnrecorded, AccessUnrecorded,
       QueryUnrecorded, DelegationUnrecorded, Pruning, ApprovalStep
  <1>2. ASSUME NEW a \in Agent, NEW c \in Requested, NEW token \in handed \cup {NoToken},
               GrantUnrecorded(a, c, token) \/ ReflectionUnrecorded(a, c, token)
        PROVE  ApprovalStep
    BY <1>2 DEF GrantUnrecorded, ReflectionUnrecorded, GrantDecided, ReflectionDecided, ApprovalStep
  <1>3. CASE Unrecorded
    BY <1>1, <1>2, <1>3 DEF Unrecorded
  <1>4. CASE Recorded
    BY <1>4, NextApprovals DEF Recorded
  <1>5. CASE UNCHANGED trailVars
    BY <1>5, NextApprovals DEF trailVars
  <1> QED
    BY <1>3, <1>4, <1>5 DEF TrailNext

(* The table of approvals.  No approval in it was used, every token that    *)
(* was handed out or used was issued, and the governor keeps the tokens of  *)
(* preapprovals to itself.                                                  *)
SpentTokens == {spent[k].token : k \in DOMAIN spent}

IssuedTokens == {r.token : r \in issued}

Backed ==
    /\ PreapprovalBacked
    /\ \A p \in Agent \X Capability : preapproved[p] \notin handed
    /\ handed \subseteq IssuedTokens
    /\ SpentTokens \subseteq IssuedTokens
    /\ \A r \in approvals : r.token \notin SpentTokens
    /\ IsFiniteSet(issued)

LEMMA UseAppended ==
    ASSUME NEW s \in Seq(Use), NEW u \in Use
    PROVE  {Append(s, u)[k].token : k \in DOMAIN Append(s, u)} =
               {s[k].token : k \in DOMAIN s} \cup {u.token}
  <1> DEFINE new == Append(s, u)
  <1>1. /\ DOMAIN s = 1 .. Len(s) /\ DOMAIN new = 1 .. Len(s) + 1 /\ Len(s) \in Nat
        /\ \A k \in DOMAIN s : new[k] = s[k]
        /\ new[Len(s) + 1] = u
    OBVIOUS
  <1> HIDE DEF new
  <1>2. DOMAIN new = DOMAIN s \cup {Len(s) + 1}
    BY <1>1
  <1>3. {new[k].token : k \in DOMAIN new} = {s[k].token : k \in DOMAIN s} \cup {u.token}
    BY <1>1, <1>2
  <1> QED
    BY <1>3 DEF new

(* What is consumed. *)
LEMMA ConsumeEffect ==
    ASSUME TypeOK, NEW a \in Agent, NEW c \in Capability, NEW token \in handed \cup {NoToken},
           ConsumeToken(a, c, token)
    PROVE  LET t == TokenUsed(a, c, token) IN
           /\ approvals' \subseteq approvals
           /\ \A r \in approvals : r.token # t => r \in approvals'
           /\ \A r \in approvals : r.token = t /\ r \notin approvals' => Expired(r, clock) \/ Matches(r, a, {c})
           /\ \/ SpentTokens' = SpentTokens /\ spent' = spent /\ ~IsApproved(a, c, token)
              \/ /\ IsApproved(a, c, token)
                 /\ SpentTokens' = SpentTokens \cup {t}
                 /\ spent' = Append(spent, [token |-> t, owner |-> a, scope |-> {c}, at |-> clock])
                 /\ \E r \in approvals : r.token = t /\ ~Expired(r, clock) /\ Matches(r, a, {c})
                 /\ \A r \in approvals' : r.token # t
           /\ preapproved' = [preapproved EXCEPT ![<<a, c>>] = NoToken]
           /\ UNCHANGED <<clock, issued, handed>>
  <1> DEFINE t == TokenUsed(a, c, token)
             use == [token |-> t, owner |-> a, scope |-> {c}, at |-> clock]
  <1>1. /\ approvals' = approvals \ {r \in approvals : r.token = t /\ (Expired(r, clock) \/ Matches(r, a, {c}))}
        /\ spent' = IF IsApproved(a, c, token) THEN Append(spent, use) ELSE spent
        /\ preapproved' = [preapproved EXCEPT ![<<a, c>>] = NoToken]
        /\ UNCHANGED <<clock, issued, handed>>
    BY DEF ConsumeToken, AfterConsume, Lookup
  <1>2. IsApproved(a, c, token) <=>
            \E r \in approvals : r.token = t /\ ~Expired(r, clock) /\ Matches(r, a, {c})
    BY DEF IsApproved, Accepts, Lookup
  <1> HIDE DEF t
  <1>3. \A r, q \in approvals : r.token = q.token => r = q
    BY DEF TypeOK
  <1>4. IsApproved(a, c, token) => \A r \in approvals' : r.token # t
    BY <1>1, <1>2, <1>3
  <1>5. IsApproved(a, c, token) => use \in Use
    BY <1>2 DEF Use, TypeOK, Approval
  <1>6. IsApproved(a, c, token) => SpentTokens' = SpentTokens \cup {t}
    <2> HAVE IsApproved(a, c, token)
    <2>1. spent \in Seq(Use) /\ use \in Use /\ spent' = Append(spent, use) /\ use.token = t
      BY <1>1, <1>5 DEF TypeOK
    <2> HIDE DEF use
    <2> QED
      BY <2>1, UseAppended DEF SpentTokens
  <1>7. ~IsApproved(a, c, token) => SpentTokens' = SpentTokens /\ spent' = spent
    BY <1>1 DEF SpentTokens
  <1> QED
    BY <1>1, <1>2, <1>4, <1>6, <1>7 DEF t

LEMMA BackedTicking == ASSUME TypeOK, Backed, Ticking \/ Pruning PROVE Backed'
  <1>1. /\ UNCHANGED <<preapproved, issued, handed, spent>> /\ clock' \in Nat /\ clock <= clock'
        /\ approvals' \subseteq approvals
        /\ \A r \in approvals : ~Expired(r, clock) => r \in approvals'
    BY DEF Ticking, Pruning, Live, Expired, TypeOK, Approval
  <1>2. \A r \in issued : ~Expired(r, clock') => ~Expired(r, clock)
    BY <1>1 DEF Expired, TypeOK, Approval
  <1>3. PreapprovalBacked'
    BY <1>1, <1>2 DEF Backed, PreapprovalBacked
  <1> QED
    BY <1>1, <1>3 DEF Backed, SpentTokens, IssuedTokens

LEMMA BackedIssuing ==
    ASSUME TypeOK, Backed, NEW token \in Token, NEW a \in Agent, NEW c \in Capability,
           NEW ttl \in 0 .. MaxTtl + 1, Issuing(token, a, c, ttl)
    PROVE  Backed'
  <1> DEFINE new == Approved(token, a, c, ttl)
  <1>1. /\ new.token = token /\ new.owner = a /\ new.scope = {c}
        /\ clock' = clock /\ spent' = spent
        /\ approvals' = Live(approvals, clock) \cup {new}
        /\ issued' = issued \cup {new}
        /\ token \notin IssuedTokens
    BY DEF Issuing, Issue, Approved, Fresh, IssuedTokens
  <1> HIDE DEF new
  <1>2. IssuedTokens' = IssuedTokens \cup {token}
    BY <1>1 DEF IssuedTokens
  <1>3. \A r \in approvals : ~Expired(r, clock) => r \in approvals'
    BY <1>1 DEF Live, Expired, TypeOK, Approval
  <1>4. token \notin handed /\ token \notin SpentTokens /\ token # NoToken
    BY <1>1, GovernorAssumption DEF Backed, GovernorAssumption
  <1>5. \A r \in issued : r.token # token
    BY <1>1 DEF IssuedTokens
  <1>6. \A p \in Agent \X Capability : preapproved[p] # token
    <2> SUFFICES ASSUME NEW b \in Agent, NEW d \in Capability PROVE preapproved[<<b, d>>] # token
      OBVIOUS
    <2>1. preapproved[<<b, d>>] # NoToken => \E r \in issued : r.token = preapproved[<<b, d>>]
      BY DEF Backed, PreapprovalBacked
    <2> QED
      BY <1>4, <1>5, <2>1
  <1>7. /\ preapproved \in [Agent \X Capability -> Token \cup {NoToken}] /\ <<a, c>> \in Agent \X Capability
    BY DEF TypeOK
  <1>8. CASE handed' = handed \cup {token} /\ preapproved' = preapproved
    <2>1. PreapprovalBacked'
      BY <1>1, <1>3, <1>8 DEF Backed, PreapprovalBacked
    <2>2. IsFiniteSet(issued')
      BY <1>1, FS_AddElement DEF Backed
    <2> QED
      BY <1>1, <1>2, <1>4, <1>6, <1>8, <2>1, <2>2 DEF Backed, SpentTokens, Live
  <1>9. CASE preapproved' = [preapproved EXCEPT ![<<a, c>>] = token] /\ handed' = handed
    <2>1. PreapprovalBacked'
      <3> SUFFICES ASSUME NEW b \in Agent, NEW d \in Capability, preapproved'[<<b, d>>] # NoToken
                   PROVE  \E r \in issued' : /\ r.token = preapproved'[<<b, d>>]
                                             /\ Matches(r, b, {d})
                                             /\ ~Expired(r, clock') => r \in approvals'
        BY DEF PreapprovalBacked
      <3>1. CASE b = a /\ d = c
        BY <1>1, <1>7, <1>9, <3>1 DEF Matches
      <3>2. CASE ~(b = a /\ d = c)
        <4>1. preapproved'[<<b, d>>] = preapproved[<<b, d>>]
          BY <1>7, <1>9, <3>2
        <4> QED
          BY <1>1, <1>3, <4>1 DEF Backed, PreapprovalBacked
      <3> QED
        BY <3>1, <3>2
    <2>2. IsFiniteSet(issued')
      BY <1>1, FS_AddElement DEF Backed
    <2>3. \A p \in Agent \X Capability : preapproved'[p] \notin handed'
      BY <1>4, <1>7, <1>9 DEF Backed
    <2> QED
      BY <1>1, <1>2, <1>4, <1>9, <2>1, <2>2, <2>3 DEF Backed, SpentTokens, Live
  <1> QED
    BY <1>8, <1>9 DEF Issuing

LEMMA BackedConsuming ==
    ASSUME TypeOK, Backed, NEW a \in Agent, NEW c \in Capability, NEW token \in handed \cup {NoToken},
           ConsumeToken(a, c, token)
    PROVE  Backed'
  <1> DEFINE t == TokenUsed(a, c, token)
  <1>1. /\ approvals' \subseteq approvals
        /\ \A r \in approvals : r.token # t => r \in approvals'
        /\ \A r \in approvals : r.token = t /\ r \notin approvals' => Expired(r, clock) \/ Matches(r, a, {c})
        /\ \/ SpentTokens' = SpentTokens
           \/ /\ SpentTokens' = SpentTokens \cup {t}
              /\ \E r \in approvals : r.token = t /\ ~Expired(r, clock) /\ Matches(r, a, {c})
              /\ \A r \in approvals' : r.token # t
        /\ preapproved' = [preapproved EXCEPT ![<<a, c>>] = NoToken]
        /\ UNCHANGED <<clock, issued, handed>>
    BY ConsumeEffect
  <1>2. preapproved \in [Agent \X Capability -> Token \cup {NoToken}] /\ <<a, c>> \in Agent \X Capability
    BY DEF TypeOK
  <1>3. NoToken \notin handed
    BY GovernorAssumption DEF GovernorAssumption, TypeOK
  <1> HIDE DEF t
  <1>4. PreapprovalBacked'
    <2> SUFFICES ASSUME NEW b \in Agent, NEW d \in Capability, preapproved'[<<b, d>>] # NoToken
                 PROVE  \E r \in issued' : /\ r.token = preapproved'[<<b, d>>]
                                           /\ Matches(r, b, {d})
                                           /\ ~Expired(r, clock') => r \in approvals'
      BY DEF PreapprovalBacked
    <2>1. preapproved'[<<b, d>>] = preapproved[<<b, d>>] /\ ~(b = a /\ d = c)
      BY <1>1, <1>2
    <2>2. PICK r \in issued : /\ r.token = preapproved[<<b, d>>] /\ Matches(r, b, {d})
                              /\ ~Expired(r, clock) => r \in approvals
      BY <2>1 DEF Backed, PreapprovalBacked
    <2>3. ASSUME ~Expired(r, clock) PROVE r \in approvals'
      <3>1. r \in approvals
        BY <2>2, <2>3
      <3>2. ~Matches(r, a, {c})
        BY <2>1, <2>2 DEF Matches
      <3> QED
        BY <1>1, <2>3, <3>1, <3>2
    <2> QED
      BY <1>1, <2>1, <2>2, <2>3
  <1>5. \A p \in Agent \X Capability : preapproved'[p] \notin handed'
    BY <1>1, <1>2, <1>3 DEF Backed
  <1>6. SpentTokens' \subseteq IssuedTokens' /\ \A r \in approvals' : r.token \notin SpentTokens'
    <2>1. IssuedTokens' = IssuedTokens
      BY <1>1 DEF IssuedTokens
    <2>2. \A r \in approvals : r.token \in IssuedTokens
      BY DEF TypeOK, IssuedTokens
    <2> QED
      BY <1>1, <2>1, <2>2 DEF Backed
  <1> QED
    BY <1>1, <1>4, <1>5, <1>6 DEF Backed, IssuedTokens

LEMMA StepBacked == ASSUME TypeOK, Backed, ApprovalStep PROVE Backed'
  <1>1. \A c \in Requested : c \in Capability
    BY GovernorAssumption DEF GovernorAssumption
  <1> QED
    BY <1>1, BackedTicking, BackedIssuing, BackedConsuming DEF ApprovalStep

LEMMA InitBacked == Init => Backed
  <1> SUFFICES ASSUME Init PROVE Backed
    OBVIOUS
  <1>1. IsFiniteSet({})
    BY FS_EmptySet
  <1>2. SpentTokens = {}
    BY DEF Init, SpentTokens
  <1> QED
    BY <1>1, <1>2 DEF Init, Backed, PreapprovalBacked, IssuedTokens

LEMMA GovernorBacked == Spec => [](TypeOK /\ Backed)
  <1>1. TypeOK /\ Backed /\ [Next]_vars => Backed'
    BY NextApprovals, StepBacked
  <1> QED
    BY <1>1, InitType, NextType, InitBacked, PTL DEF Spec

LEMMA TrailBacked == TrailSpec => [](TypeOK /\ DiskType /\ Backed)
  <1>1. TrailInit => Backed
    BY InitBacked DEF TrailInit
  <1>2. TypeOK /\ Backed /\ [TrailNext]_trailVars => Backed'
    BY TrailApprovals, StepBacked
  <1> QED
    BY <1>1, <1>2, TrailInitType, TrailNextType, PTL DEF TrailSpec

(* governor_process.py:181-222: a token kept for a preapproval was issued    *)
(* for that agent and capability, and is redeemable until it expires,       *)
(* whatever other tokens are issued, sent and used, also when a grant could *)
(* not be recorded.                                                         *)
THEOREM PreapprovalsBacked == Spec => []PreapprovalBacked
  BY GovernorBacked, PTL DEF Backed

THEOREM PreapprovalsBackedOnFailure == TrailSpec => []PreapprovalBacked
  BY TrailBacked, PTL DEF Backed

(* A good preapproval decides the request, whatever token comes with it.    *)
LEMMA GoodPreapproval ==
    ASSUME TypeOK, Backed, NEW a \in Agent, NEW c \in Capability, NEW token,
           NEW r \in Lookup(approvals, preapproved[<<a, c>>]), ~Expired(r, clock),
           RequestCapability(a, c, token)
    PROVE  c \in held'[a]
  <1>1. r \in approvals /\ r \in issued /\ r.token = preapproved[<<a, c>>] /\ r.token \in Token
    BY DEF Lookup, TypeOK, Approval
  <1>2. preapproved[<<a, c>>] # NoToken
    BY <1>1, GovernorAssumption DEF GovernorAssumption
  <1>3. Matches(r, a, {c})
    BY <1>1, <1>2 DEF Backed, PreapprovalBacked, TypeOK
  <1>4. IsApproved(a, c, token)
    BY <1>2, <1>3 DEF IsApproved, Accepts, TokenUsed
  <1>5. held \in [Agent -> SUBSET Capability]
    BY DEF TypeOK
  <1> QED
    BY <1>4, <1>5 DEF RequestCapability, RequestHeld, RequestGranted, RequestReflected, ReflectionDecided

(* approve_capability, "Preapprove the next matching request"               *)
(* (governor_process.py:181-203): the next request for a preapproved        *)
(* capability, made in time, is granted, whatever token is sent with it.    *)
THEOREM PreapprovalsHonoured == Spec => PreapprovalHonoured
  <1>1. TypeOK /\ Backed =>
           \A a \in Agent, c \in Capability :
               /\ \E r \in Lookup(approvals, preapproved[<<a, c>>]) : ~Expired(r, clock)
               /\ \E token \in handed \cup {NoToken} : RequestCapability(a, c, token)
               => c \in held'[a]
    BY GoodPreapproval
  <1> QED
    BY <1>1, GovernorBacked, PTL DEF PreapprovalHonoured

-------------------------------------------------------------------------------
(* What was granted, and what paid for it. *)
IsGrant(e, agent, capability) ==
    e.type = "transition" /\ e.agent = agent /\ e.authorized_grant = {capability}

LEMMA GrantsAppended ==
    ASSUME NEW tr \in Seq(Event), NEW e \in Event, NEW a, NEW c
    PROVE  {i \in DOMAIN Append(tr, e) : IsGrant(Append(tr, e)[i], a, c)} =
               {i \in DOMAIN tr : IsGrant(tr[i], a, c)}
                   \cup (IF IsGrant(e, a, c) THEN {Len(tr) + 1} ELSE {})
  <1> DEFINE new == Append(tr, e)
  <1>1. /\ DOMAIN tr = 1 .. Len(tr) /\ DOMAIN new = 1 .. Len(tr) + 1 /\ Len(tr) \in Nat
        /\ \A i \in DOMAIN tr : new[i] = tr[i]
        /\ new[Len(tr) + 1] = e
    OBVIOUS
  <1> HIDE DEF new
  <1>2. DOMAIN new = DOMAIN tr \cup {Len(tr) + 1}
    BY <1>1
  <1>3. {i \in DOMAIN new : IsGrant(new[i], a, c)} =
            {i \in DOMAIN tr : IsGrant(tr[i], a, c)} \cup (IF IsGrant(e, a, c) THEN {Len(tr) + 1} ELSE {})
    BY <1>1, <1>2
  <1> QED
    BY <1>3 DEF new

LEMMA GrantsAre ==
    ASSUME NEW a, NEW c
    PROVE  Grants(a, c) = {i \in DOMAIN trace : IsGrant(trace[i], a, c)}
  BY DEF Grants, IsGrant, At

LEMMA GrantsAreLater ==
    ASSUME NEW a, NEW c
    PROVE  Grants(a, c)' = {i \in DOMAIN trace' : IsGrant(trace'[i], a, c)}
  BY DEF Grants, IsGrant, At

(* Of three lines only the last is a grant. *)
LEMMA GrantsInThree ==
    ASSUME TypeOK, NEW x \in Event, NEW y \in Event, NEW z \in Event,
           x.type = "state", y.type = "state", Partly(<<x, y, z>>), NEW a, NEW c
    PROVE  Grants(a, c)' \subseteq
               Grants(a, c) \cup (IF IsGrant(z, a, c) THEN {Len(trace) + 3} ELSE {})
  <1> DEFINE in(tr) == {i \in DOMAIN tr : IsGrant(tr[i], a, c)}
             one == Append(trace, x)
             two == Append(one, y)
             three == Append(two, z)
  <1>1. trace \in Seq(Event) /\ Len(trace) \in Nat
    BY DEF TypeOK
  <1>2. one \in Seq(Event) /\ Len(one) = Len(trace) + 1
    BY <1>1
  <1>3. trace' = one \/ trace' = two \/ trace' = three
    BY <1>1, PartsOfThree
  <1>4. ~IsGrant(x, a, c) /\ ~IsGrant(y, a, c)
    BY DEF IsGrant
  <1>5. in(one) = in(trace)
    BY <1>1, <1>4, GrantsAppended
  <1> HIDE DEF one
  <1>6. two \in Seq(Event) /\ Len(two) = Len(trace) + 2
    BY <1>1, <1>2
  <1>7. in(two) = in(one)
    BY <1>2, <1>4, GrantsAppended
  <1> HIDE DEF two
  <1>8. in(three) = in(two) \cup (IF IsGrant(z, a, c) THEN {Len(two) + 1} ELSE {})
    BY <1>6, GrantsAppended
  <1>9. Len(two) + 1 = Len(trace) + 3
    BY <1>1, <1>6
  <1> HIDE DEF three
  <1>10. in(trace') \subseteq in(trace) \cup (IF IsGrant(z, a, c) THEN {Len(trace) + 3} ELSE {})
    BY <1>3, <1>5, <1>7, <1>8, <1>9
  <1> QED
    BY <1>10, GrantsAre, GrantsAreLater

(* A step adds at most one grant, and only when it used up an approval.     *)
LEMMA GrantSteps ==
    ASSUME TypeOK, Writing, NEW a \in Agent, NEW c \in Capability
    PROVE  \/ Grants(a, c)' \subseteq Grants(a, c)
           \/ /\ Grants(a, c)' \subseteq Grants(a, c) \cup {Len(trace) + 3}
              /\ \E token \in handed \cup {NoToken} : GrantDecided(a, c, token)
  <1>1. trace \in Seq(Event)
    BY DEF TypeOK
  <1>2. CASE Quiet
    BY <1>2 DEF Quiet, Grants
  <1>3. ASSUME NEW e \in Event, e.type # "transition", trace' = Append(trace, e)
        PROVE  Grants(a, c)' \subseteq Grants(a, c)
    <2>1. ~IsGrant(e, a, c)
      BY <1>3 DEF IsGrant
    <2>2. {i \in DOMAIN Append(trace, e) : IsGrant(Append(trace, e)[i], a, c)} =
              {i \in DOMAIN trace : IsGrant(trace[i], a, c)}
      BY <1>1, <2>1, GrantsAppended
    <2> QED
      BY <1>3, <2>2, GrantsAre, GrantsAreLater
  <1>4. CASE Noting
    BY <1>3, <1>4 DEF Noting, Noted
  <1>5. CASE Accessing
    <2>1. PICK b \in Agent, name \in ResourceName, op \in Operation :
             trace' = Append(trace, AccessEvent(seq + 1, b, name, op))
      BY <1>5 DEF Accessing
    <2>2. AccessEvent(seq + 1, b, name, op) \in Event
      BY EventTypes DEF TypeOK
    <2>3. AccessEvent(seq + 1, b, name, op).type # "transition"
      BY DEF AccessEvent
    <2> QED
      BY <1>3, <2>1, <2>2, <2>3
  <1>6. ASSUME NEW b \in Agent, NEW d \in Requested, NEW token \in handed \cup {NoToken},
               Granted(b, d, token) \/ Reflected(b, d, token)
        PROVE  \/ Grants(a, c)' \subseteq Grants(a, c)
               \/ /\ Grants(a, c)' \subseteq Grants(a, c) \cup {Len(trace) + 3}
                  /\ GrantDecided(a, c, token)
    <2>1. d \in Capability /\ held[b] \in SUBSET Capability /\ held[b] \cup {d} \in SUBSET Capability
          /\ seq + 1 \in Nat /\ seq + 2 \in Nat /\ ApparentFacts(d) \in SUBSET Facts
      BY GovernorAssumption DEF GovernorAssumption, TypeOK, ApparentFacts, Facts
    <2> DEFINE src == Pre(b, seq + 1)
               dst == Post(b, seq + 2)
               mirror == Mirror(src, d)
               facts == ApparentFacts(d)
    <2>2. src \in StateIds /\ dst \in StateIds /\ mirror \in StateIds
      BY <2>1, EventTypes
    <2>3. /\ \A id, cs, fs : StateEvent(id, cs, fs).type = "state"
          /\ \A i, j, g, fs : IsGrant(TransitionEvent(i, j, b, g, fs), a, c) => b = a /\ g = {c}
      BY DEF StateEvent, TransitionEvent, IsGrant
    <2>4. CASE Granted(b, d, token)
      <3>1. /\ StateEvent(src, held[b], {}) \in Event
            /\ StateEvent(dst, held[b] \cup {d}, {}) \in Event
            /\ TransitionEvent(src, dst, b, {d}, {}) \in Event
        BY <2>1, <2>2, EventTypes
      <3>2. Partly(<<StateEvent(src, held[b], {}), StateEvent(dst, held[b] \cup {d}, {}),
                     TransitionEvent(src, dst, b, {d}, {})>>) /\ GrantDecided(b, d, token)
        BY <2>4 DEF Granted, GrantLines
      <3> DEFINE x == StateEvent(src, held[b], {})
                 y == StateEvent(dst, held[b] \cup {d}, {})
                 z == TransitionEvent(src, dst, b, {d}, {})
      <3>4. x \in Event /\ y \in Event /\ z \in Event /\ x.type = "state" /\ y.type = "state"
        BY <2>3, <3>1
      <3>5. Partly(<<x, y, z>>)
        BY <3>2
      <3> HIDE DEF x, y, z
      <3>6. Grants(a, c)' \subseteq Grants(a, c) \cup (IF IsGrant(z, a, c) THEN {Len(trace) + 3} ELSE {})
        BY <3>4, <3>5, GrantsInThree
      <3>3. Grants(a, c)' \subseteq Grants(a, c) \cup
                (IF IsGrant(TransitionEvent(src, dst, b, {d}, {}), a, c) THEN {Len(trace) + 3} ELSE {})
        BY <3>6 DEF z
      <3>7. CASE IsGrant(TransitionEvent(src, dst, b, {d}, {}), a, c)
        <4>1. b = a /\ d = c
          BY <2>3, <3>7
        <4> QED
          BY <3>2, <3>3, <4>1
      <3>8. CASE ~IsGrant(TransitionEvent(src, dst, b, {d}, {}), a, c)
        BY <3>3, <3>8
      <3> QED
        BY <3>7, <3>8
    <2>5. CASE Reflected(b, d, token)
      <3>1. /\ StateEvent(src, held[b], {}) \in Event
            /\ StateEvent(mirror, held[b], facts) \in Event
            /\ TransitionEvent(src, mirror, b, {}, facts) \in Event
        BY <2>1, <2>2, EventTypes
      <3>2. Partly(<<StateEvent(src, held[b], {}), StateEvent(mirror, held[b], facts),
                     TransitionEvent(src, mirror, b, {}, facts)>>)
        BY <2>5 DEF Reflected, ReflectionLines
      <3> HIDE DEF src, mirror, facts
      <3>3. Grants(a, c)' \subseteq Grants(a, c) \cup
                (IF IsGrant(TransitionEvent(src, mirror, b, {}, facts), a, c) THEN {Len(trace) + 3} ELSE {})
        BY <2>3, <3>1, <3>2, GrantsInThree
      <3> QED
        BY <2>3, <3>3
    <2> QED
      BY <1>6, <2>4, <2>5
  <1> QED
    BY <1>2, <1>4, <1>5, <1>6 DEF Writing

(* Payments are never taken back, and an approval that is used up is one.   *)
LEMMA PaymentsGrow ==
    ASSUME TypeOK, ApprovalStep, NEW a \in Agent, NEW c \in Capability
    PROVE  Payments(a, c) \subseteq Payments(a, c)'
  <1>1. issued \subseteq issued'
    BY DEF ApprovalStep, Ticking, Issuing, Issue, Pruning, ConsumeToken
  <1>2. \A k \in DOMAIN spent : k \in DOMAIN spent' /\ spent'[k] = spent[k]
    <2>1. spent \in Seq(Use)
      BY DEF TypeOK
    <2>2. spent' = spent \/ \E use : spent' = Append(spent, use)
      BY DEF ApprovalStep, Ticking, Issuing, Pruning, ConsumeToken
    <2> QED
      BY <2>1, <2>2
  <1> QED
    BY <1>1, <1>2 DEF Payments

LEMMA GrantIsPaid ==
    ASSUME TypeOK, Backed, NEW a \in Agent, NEW c \in Capability, NEW token \in handed \cup {NoToken},
           DualAuthRequired, GrantDecided(a, c, token)
    PROVE  \E r \in issued : r \in Payments(a, c)' /\ r \notin Payments(a, c)
  <1> DEFINE t == TokenUsed(a, c, token)
             use == [token |-> t, owner |-> a, scope |-> {c}, at |-> clock]
  <1>1. IsApproved(a, c, token) /\ ConsumeToken(a, c, token)
    BY DEF GrantDecided
  <1>2. /\ spent' = Append(spent, use) /\ issued' = issued
        /\ \E r \in approvals : r.token = t /\ ~Expired(r, clock) /\ Matches(r, a, {c})
    BY <1>1, ConsumeEffect
  <1>3. PICK r \in approvals : r.token = t /\ ~Expired(r, clock) /\ Matches(r, a, {c})
    BY <1>2
  <1>4. r \in issued /\ clock \in Nat /\ r.expires \in Nat /\ spent \in Seq(Use)
    BY DEF TypeOK, Approval
  <1>5. r \notin Payments(a, c)
    BY DEF Backed, SpentTokens, Payments
  <1>6. use.token = r.token /\ use.at < r.expires
    BY <1>3, <1>4 DEF Expired
  <1> HIDE DEF use
  <1>7. Len(spent) + 1 \in DOMAIN spent' /\ spent'[Len(spent) + 1] = use
    BY <1>2, <1>4
  <1>8. r \in Payments(a, c)'
    BY <1>2, <1>3, <1>4, <1>6, <1>7 DEF Payments, Matches
  <1> QED
    BY <1>4, <1>5, <1>8

LEMMA OneMore ==
    ASSUME NEW S, NEW T, NEW P, NEW Q, IsFiniteSet(S), IsFiniteSet(Q), NEW i, NEW r,
           Cardinality(S) <= Cardinality(P), P \subseteq Q,
           \/ T \subseteq S
           \/ T \subseteq S \cup {i} /\ r \in Q /\ r \notin P
    PROVE  Cardinality(T) <= Cardinality(Q)
  <1>1. /\ IsFiniteSet(P) /\ Cardinality(P) <= Cardinality(Q)
        /\ Cardinality(S) \in Nat /\ Cardinality(P) \in Nat /\ Cardinality(Q) \in Nat
    BY FS_Subset, FS_CardinalityType
  <1>2. CASE T \subseteq S
    <2>1. IsFiniteSet(T) /\ Cardinality(T) <= Cardinality(S) /\ Cardinality(T) \in Nat
      BY <1>2, FS_Subset, FS_CardinalityType
    <2> QED
      BY <1>1, <2>1
  <1>3. CASE T \subseteq S \cup {i} /\ r \in Q /\ r \notin P
    <2>1. IsFiniteSet(S \cup {i}) /\ Cardinality(S \cup {i}) <= Cardinality(S) + 1
          /\ Cardinality(S \cup {i}) \in Nat
      <3>1. IsFiniteSet(S \cup {i})
            /\ (Cardinality(S \cup {i}) = Cardinality(S) \/ Cardinality(S \cup {i}) = Cardinality(S) + 1)
        BY FS_AddElement
      <3> QED
        BY <1>1, <3>1
    <2>2. IsFiniteSet(T) /\ Cardinality(T) <= Cardinality(S \cup {i}) /\ Cardinality(T) \in Nat
      BY <1>3, <2>1, FS_Subset, FS_CardinalityType
    <2>3. Cardinality(P \cup {r}) = Cardinality(P) + 1
      BY <1>1, <1>3, FS_AddElement
    <2>4. Cardinality(P \cup {r}) <= Cardinality(Q)
      BY <1>3, FS_Subset
    <2> QED
      BY <1>1, <2>1, <2>2, <2>3, <2>4
  <1> QED
    BY <1>2, <1>3

LEMMA NextPaid ==
    TypeOK /\ DiskType /\ Backed /\ GrantsPaid /\ [TrailNext]_trailVars => GrantsPaid'
  <1> SUFFICES ASSUME TypeOK, DiskType, Backed, GrantsPaid, [TrailNext]_trailVars, DualAuthRequired,
                      NEW a \in Agent, NEW c \in Capability
               PROVE  Cardinality(Grants(a, c)') <= Cardinality(Payments(a, c)')
    BY DEF GrantsPaid
  <1>1. ApprovalStep /\ Writing
    BY TrailApprovals, TrailWrites
  <1>2. Backed'
    BY <1>1, StepBacked
  <1>3. IsFiniteSet(Grants(a, c)) /\ IsFiniteSet(Payments(a, c)')
    <2>1. IsFiniteSet(1 .. Len(trace)) /\ Grants(a, c) \subseteq 1 .. Len(trace)
      <3>1. trace \in Seq(Event)
        BY DEF TypeOK
      <3>2. Len(trace) \in Nat /\ DOMAIN trace = 1 .. Len(trace)
        BY <3>1
      <3> QED
        BY <3>2, FS_Interval DEF Grants, At
    <2>2. IsFiniteSet(issued') /\ Payments(a, c)' \subseteq issued'
      BY <1>2 DEF Backed, Payments
    <2> QED
      BY <2>1, <2>2, FS_Subset
  <1>4. Cardinality(Grants(a, c)) <= Cardinality(Payments(a, c))
    BY DEF GrantsPaid
  <1>5. Payments(a, c) \subseteq Payments(a, c)'
    BY <1>1, PaymentsGrow
  <1>6. \/ Grants(a, c)' \subseteq Grants(a, c)
        \/ /\ Grants(a, c)' \subseteq Grants(a, c) \cup {Len(trace) + 3}
           /\ \E r : r \in Payments(a, c)' /\ r \notin Payments(a, c)
    BY <1>1, GrantSteps, GrantIsPaid
  <1> DEFINE S == Grants(a, c)
             T == Grants(a, c)'
             P == Payments(a, c)
             Q == Payments(a, c)'
             last == Len(trace) + 3
  <1> HIDE DEF S, T, P, Q, last
  <1>7. Cardinality(T) <= Cardinality(Q)
    <2>1. IsFiniteSet(S) /\ IsFiniteSet(Q) /\ Cardinality(S) <= Cardinality(P) /\ P \subseteq Q
      BY <1>3, <1>4, <1>5 DEF S, P, Q
    <2>2. CASE T \subseteq S
      BY <2>1, <2>2, OneMore
    <2>3. CASE T \subseteq S \cup {last} /\ \E r : r \in Q /\ r \notin P
      <3>1. PICK r : r \in Q /\ r \notin P
        BY <2>3
      <3>2. T \subseteq S \cup {last} /\ r \in Q /\ r \notin P
        BY <2>3, <3>1
      <3> QED
        BY <2>1, <3>2, OneMore
    <2> QED
      BY <1>6, <2>2, <2>3 DEF S, T, P, Q, last
  <1> QED
    BY <1>7 DEF T, Q

LEMMA InitPaid == Init => GrantsPaid
  <1> SUFFICES ASSUME Init, NEW a \in Agent, NEW c \in Capability
               PROVE  Cardinality(Grants(a, c)) <= Cardinality(Payments(a, c))
    BY DEF GrantsPaid
  <1>1. Grants(a, c) = {}
    <2>1. Of(trace, "transition") = {}
      BY InitTrail DEF Types
    <2>2. At(trace, "transition") = {}
      BY <2>1 DEF Of
    <2> QED
      BY <2>2 DEF Grants
  <1>2. Payments(a, c) = {}
    BY DEF Init, Payments
  <1>3. Cardinality({}) = 0
    BY FS_EmptySet
  <1> QED
    BY <1>1, <1>2, <1>3

(* governor_process.py:501-526, authorization.py:1-7: where a second        *)
(* approval is required, an agent is recorded to have been granted a        *)
(* capability no more often than the host's approvals of it for exactly     *)
(* that agent were used up in time, also when lines could not be written.   *)
THEOREM GrantsArePaid == TrailSpec => []GrantsPaid
  <1>1. TrailInit => GrantsPaid
    BY InitPaid DEF TrailInit
  <1> QED
    BY <1>1, NextPaid, TrailBacked, PTL DEF TrailSpec

-------------------------------------------------------------------------------
(* The governor's use of the approvals, seen as the abstract approvals: an  *)
(* approval of a capability is one of the scope {capability}, and a use is  *)
(* one that a capability_request made (governor_process.py:501-512).        *)
Promise == INSTANCE Approvals WITH Owner <- Agent, Scope <- SUBSET Capability, uses <- spent

LEMMA PromiseStep ==
    ASSUME TypeOK, Backed, ApprovalStep
    PROVE  [Promise!Next]_(Promise!specVars)
  <1>1. CASE Ticking
    BY <1>1 DEF Ticking, Promise!Next, Promise!Tick
  <1>2. ASSUME NEW token \in Token, NEW a \in Agent, NEW c \in Requested, NEW ttl \in 0 .. MaxTtl + 1,
               Issuing(token, a, c, ttl)
        PROVE  Promise!Next
    <2> DEFINE new == Approved(token, a, c, ttl)
    <2>1. c \in Capability /\ ttl \in 0 .. MaxTtl /\ clock \in Nat /\ MaxTtl \in Nat
      BY <1>2, GovernorAssumption, RegistryAssumption
         DEF GovernorAssumption, RegistryAssumption, Issuing, Issue, ValidTtl, TypeOK
    <2>2. clock + ttl \in 0 .. clock + MaxTtl
      BY <2>1
    <2>3. new \in Promise!Issuable
      BY <2>1, <2>2 DEF Promise!Issuable, Approved
    <2>4. Promise!Issue(new)
      BY <1>2 DEF Issuing, Issue, Fresh, Approved, Promise!Issue
    <2> QED
      BY <2>3, <2>4 DEF Promise!Next
  <1>3. CASE Pruning
    BY <1>3 DEF Pruning, Promise!specVars
  <1>4. ASSUME NEW a \in Agent, NEW c \in Requested, NEW token \in handed \cup {NoToken},
               ConsumeToken(a, c, token)
        PROVE  [Promise!Next]_(Promise!specVars)
    <2> DEFINE t == TokenUsed(a, c, token)
    <2>1. c \in Capability
      BY GovernorAssumption DEF GovernorAssumption
    <2>2. UNCHANGED <<clock, issued>>
      BY <1>4, <2>1, ConsumeEffect
    <2>3. CASE spent' = spent
      BY <2>2, <2>3 DEF Promise!specVars
    <2>4. CASE spent' # spent
      <3>1. /\ spent' = Append(spent, [token |-> t, owner |-> a, scope |-> {c}, at |-> clock])
            /\ \E r \in approvals : r.token = t /\ ~Expired(r, clock) /\ Matches(r, a, {c})
        BY <1>4, <2>1, <2>4, ConsumeEffect
      <3> HIDE DEF t
      <3>2. PICK r \in approvals : r.token = t /\ ~Expired(r, clock) /\ Matches(r, a, {c})
        BY <3>1
      <3>3. /\ r \in issued /\ r.token \notin Promise!Spent
            /\ clock \in Nat /\ r.expires \in Nat
        BY DEF TypeOK, Backed, SpentTokens, Promise!Spent, Approval
      <3>4. r.expires > clock
        BY <3>2, <3>3 DEF Expired
      <3>5. Promise!Honour(r)
        BY <2>2, <3>1, <3>2, <3>3, <3>4 DEF Promise!Honour, Matches
      <3> QED
        BY <3>3, <3>5 DEF Promise!Next
    <2> QED
      BY <2>3, <2>4
  <1> QED
    BY <1>1, <1>2, <1>3, <1>4 DEF ApprovalStep

(* authorization.py:1-7, governor_process.py:181-222, 501-512: the governor *)
(* keeps what the approval mechanism promises.  However its methods and the *)
(* agents' requests interleave, and whichever lines cannot be written, an   *)
(* approval is used by its owner, for its exact scope, before it expires    *)
(* and once.                                                                *)
THEOREM GovernorKeepsPromise == TrailSpec => Promise!Spec
  <1>1. TrailInit => Promise!Init
    BY DEF TrailInit, Init, Promise!Init
  <1>2. TypeOK /\ Backed /\ [TrailNext]_trailVars => [Promise!Next]_(Promise!specVars)
    BY TrailApprovals, PromiseStep
  <1> QED
    BY <1>1, <1>2, TrailBacked, PTL DEF TrailSpec, Promise!Spec
===============================================================================
