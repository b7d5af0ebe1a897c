--------------------------- MODULE FailingTrailProofs ---------------------------
(***************************************************************************)
(* Proofs about the governor on a disk that may refuse any line of the      *)
(* trail, any number of times: the types hold, and so does the promise that *)
(* nobody holds a capability the trail on disk does not account for.        *)
(***************************************************************************)
EXTENDS FailingTrail, RealGovernorProofs

-------------------------------------------------------------------------------
(* The lines on disk are a part of those written, which is all that can be  *)
(* said of them in general.                                                 *)
DiskType == durable \in 0 .. Len(trace) /\ faults \in Nat

(* A line that fails keeps what was on disk there. *)
DiskKept ==
    /\ trace' \in Seq(Event)
    /\ durable' \in durable .. Len(trace')
    /\ \A i \in 1 .. durable : trace'[i] = trace[i]
    /\ faults' \in Nat \ {0}

LEMMA Extends ==
    ASSUME NEW S, NEW s \in Seq(S), NEW t \in Seq(S)
    PROVE  /\ s \o t \in Seq(S) /\ Len(s \o t) = Len(s) + Len(t)
           /\ \A i \in 1 .. Len(s) : (s \o t)[i] = s[i]
  OBVIOUS

LEMMA FailureKeeps ==
    ASSUME trace \in Seq(Event), DiskType, NEW lines \in Seq(Event), FailsWriting(lines)
    PROVE  DiskKept
  <1>1. faults' \in Nat \ {0} /\ faults' = faults + 1
    BY DEF FailsWriting, DiskType
  <1>2. CASE Dropped
    BY <1>1, <1>2 DEF Dropped, DiskType, DiskKept
  <1>3. ASSUME NEW k \in DOMAIN lines,
               trace' = trace \o SubSeq(lines, 1, k),
               durable' = IF k = 1 THEN durable ELSE Len(trace) + k - 1
        PROVE  DiskKept
    <2> DEFINE written == SubSeq(lines, 1, k)
    <2>1. k \in 1 .. Len(lines) /\ Len(lines) \in Nat
      OBVIOUS
    <2>2. written \in Seq(Event) /\ Len(written) = k
      BY <2>1
    <2> HIDE DEF written
    <2>3. trace' = trace \o written
      BY <1>3 DEF written
    <2>4. /\ trace' \in Seq(Event) /\ Len(trace') = Len(trace) + k
          /\ \A i \in 1 .. Len(trace) : trace'[i] = trace[i]
      BY <2>2, <2>3, Extends
    <2> QED
      BY <1>1, <1>3, <2>1, <2>4 DEF DiskKept, DiskType
  <1> QED
    BY <1>2, <1>3 DEF FailsWriting, KeptBack

(* Then every event on disk stays there. *)
LEMMA DiskGrows ==
    ASSUME trace \in Seq(Event), DiskType, DiskKept, NEW type
    PROVE  Of(OnDisk, type) \subseteq Of(OnDisk', type)
  <1>1. /\ durable \in Nat /\ durable' \in Nat /\ durable <= durable'
        /\ durable <= Len(trace) /\ durable' <= Len(trace')
        /\ trace' \in Seq(Event) /\ \A i \in 1 .. durable : trace'[i] = trace[i]
    BY DEF DiskType, DiskKept
  <1>2. /\ DOMAIN OnDisk = 1 .. durable /\ \A i \in 1 .. durable : OnDisk[i] = trace[i]
        /\ DOMAIN OnDisk' = 1 .. durable' /\ \A i \in 1 .. durable' : OnDisk'[i] = trace'[i]
    BY <1>1 DEF OnDisk
  <1>3. \A i \in 1 .. durable : i \in DOMAIN OnDisk' /\ OnDisk'[i] = OnDisk[i]
    BY <1>1, <1>2
  <1> QED
    BY <1>2, <1>3 DEF Of, At

-------------------------------------------------------------------------------
(* What a call that cannot record its line has changed all the same. *)
LEMMA LineTypes ==
    /\ \A e \in Event : <<e>> \in Seq(Event)
    /\ \A a, b, c \in Event : <<a, b, c>> \in Seq(Event)
  OBVIOUS

Kept == DiskKept /\ TypeOK' /\ UNCHANGED <<held, hostGrants>>

LEMMA DeclareKeeps ==
    ASSUME TypeOK, DiskType, NEW p \in Declarable, DeclareUnrecorded(p[1], p[2])
    PROVE  Kept
  <1>1. p[1] \in Agent /\ p[2] \in Agent
    BY GovernorAssumption DEF GovernorAssumption
  <1>2. <<DeclaredEvent(p[1], p[2])>> \in Seq(Event)
    BY <1>1, EventTypes, LineTypes
  <1>3. DiskKept
    BY <1>2, FailureKeeps DEF DeclareUnrecorded, TypeOK
  <1> QED
    BY <1>1, <1>3 DEF Kept, DiskKept, DeclareUnrecorded, DeclareRelationship, TypeOK, PolicyTypeOK,
       historyVars

LEMMA DenialKeeps ==
    ASSUME TypeOK, DiskType, NEW a \in Agent,
           NEW op \in Operation \cup {"delegate", "differential_query"},
           DenialUnrecorded(a, op)
    PROVE  Kept
  <1>1. seq + 1 \in Nat /\ seq' = seq + 1
    BY DEF TypeOK, DenialUnrecorded
  <1>2. <<DeniedEvent(seq + 1, a, op)>> \in Seq(Event)
    BY <1>1, EventTypes, LineTypes DEF Operation
  <1>3. DiskKept
    BY <1>2, FailureKeeps DEF DenialUnrecorded, TypeOK
  <1> QED
    BY <1>1, <1>3 DEF Kept, DiskKept, DenialUnrecorded, TypeOK, PolicyTypeOK, historyVars

LEMMA AccessKeeps ==
    ASSUME TypeOK, DiskType, NEW a \in Agent, NEW name \in ResourceName,
           WriteUnrecorded(a, name) \/ ReadUnrecorded(a, name)
    PROVE  Kept
  <1>1. PICK op \in Operation : AccessUnrecorded(a, op, name)
    BY DEF WriteUnrecorded, ReadUnrecorded, Operation
  <1>2. seq + 1 \in Nat /\ seq' = seq + 1
    BY <1>1 DEF TypeOK, AccessUnrecorded
  <1>3. <<AccessEvent(seq + 1, a, name, op)>> \in Seq(Event)
    BY <1>2, EventTypes, LineTypes
  <1>4. DiskKept
    BY <1>1, <1>3, FailureKeeps DEF AccessUnrecorded, TypeOK
  <1>5. writer' \in [File -> Agent \cup NotAgents] /\ flows' = flows
    <2>1. writer \in [File -> Agent \cup NotAgents]
      BY DEF TypeOK
    <2>2. \/ writer' = [writer EXCEPT ![FileOf[name]] = a]
          \/ writer' = writer
      BY DEF WriteUnrecorded, ReadUnrecorded
    <2>3. [writer EXCEPT ![FileOf[name]] = a] \in [File -> Agent \cup NotAgents]
      BY <2>1
    <2> QED
      BY <2>1, <2>2, <2>3 DEF WriteUnrecorded, ReadUnrecorded
  <1> QED
    BY <1>1, <1>2, <1>4, <1>5 DEF Kept, DiskKept, AccessUnrecorded, TypeOK, PolicyTypeOK

LEMMA QueryKeeps ==
    ASSUME TypeOK, DiskType, NEW q \in Query, NEW b \in Backing, QueryUnrecorded(q, b)
    PROVE  Kept
  <1>1. <<QueryEvent(q, b, Answer[<<b, q>>])>> \in Seq(Event)
    BY EventTypes, LineTypes
  <1>2. DiskKept
    BY <1>1, FailureKeeps DEF QueryUnrecorded, TypeOK
  <1> QED
    BY <1>2 DEF Kept, DiskKept, QueryUnrecorded, TypeOK, PolicyTypeOK, historyVars

LEMMA DelegationKeeps ==
    ASSUME TypeOK, DiskType, NEW a \in Agent, NEW b \in Agent, NEW list \in AuthorityList,
           DelegationUnrecorded(a, b, list)
    PROVE  Kept
  <1>1. <<DelegationEvent(a, b, list)>> \in Seq(Event)
    BY EventTypes, LineTypes
  <1>2. DiskKept
    BY <1>1, FailureKeeps DEF DelegationUnrecorded, TypeOK
  <1> QED
    BY <1>2 DEF Kept, DiskKept, DelegationUnrecorded, TypeOK, PolicyTypeOK, historyVars

LEMMA RequestKeeps ==
    ASSUME TypeOK, DiskType, NEW a \in Agent, NEW c \in Requested, NEW token \in handed \cup {NoToken},
           GrantUnrecorded(a, c, token) \/ ReflectionUnrecorded(a, c, token)
    PROVE  Kept
  <1>1. c \in Capability /\ held[a] \in SUBSET Capability /\ held[a] \cup {c} \in SUBSET Capability
        /\ seq + 1 \in Nat /\ seq + 2 \in Nat
    BY GovernorAssumption DEF GovernorAssumption, TypeOK
  <1>2. /\ Pre(a, seq + 1) \in StateIds /\ Post(a, seq + 2) \in StateIds
        /\ Mirror(Pre(a, seq + 1), c) \in StateIds /\ ApparentFacts(c) \in SUBSET Facts
    BY <1>1, EventTypes DEF ApparentFacts, Facts
  <1>3. GrantLines(a, c) \in Seq(Event)
    <2>1. /\ StateEvent(Pre(a, seq + 1), held[a], {}) \in Event
          /\ StateEvent(Post(a, seq + 2), held[a] \cup {c}, {}) \in Event
          /\ TransitionEvent(Pre(a, seq + 1), Post(a, seq + 2), a, {c}, {}) \in Event
      BY <1>1, <1>2, EventTypes
    <2> QED
      BY <2>1, LineTypes DEF GrantLines
  <1>4. ReflectionLines(a, c) \in Seq(Event)
    <2>1. /\ StateEvent(Pre(a, seq + 1), held[a], {}) \in Event
          /\ StateEvent(Mirror(Pre(a, seq + 1), c), held[a], ApparentFacts(c)) \in Event
          /\ TransitionEvent(Pre(a, seq + 1), Mirror(Pre(a, seq + 1), c), a, {}, ApparentFacts(c)) \in Event
      BY <1>1, <1>2, EventTypes
    <2> QED
      BY <2>1, LineTypes DEF ReflectionLines
  <1>5. DiskKept
    BY <1>3, <1>4, FailureKeeps DEF GrantUnrecorded, ReflectionUnrecorded, TypeOK
  <1>6. ConsumeToken(a, c, token) /\ seq' \in Nat /\ held' = held
    BY <1>1 DEF GrantUnrecorded, ReflectionUnrecorded, GrantDecided, ReflectionDecided
  <1>7. /\ approvals' \subseteq approvals
        /\ preapproved' \in [Agent \X Capability -> Token \cup {NoToken}]
        /\ spent' \in Seq(Use)
        /\ UNCHANGED <<resources, relationships, clock, writer, hostGrants, issued, handed, flows>>
    BY <1>1, <1>6, ConsumeType
  <1> QED
    BY <1>5, <1>6, <1>7 DEF Kept, DiskKept, TypeOK, PolicyTypeOK

LEMMA UnrecordedKeeps == ASSUME TypeOK, DiskType, Unrecorded PROVE Kept
  BY DeclareKeeps, DenialKeeps, AccessKeeps, QueryKeeps, DelegationKeeps, RequestKeeps DEF Unrecorded

-------------------------------------------------------------------------------
(* Types. *)
LEMMA TrailInitType == TrailInit => TypeOK /\ DiskType
  <1> SUFFICES ASSUME TrailInit PROVE TypeOK /\ DiskType
    OBVIOUS
  <1>1. TypeOK
    BY InitType DEF TrailInit
  <1>2. Len(trace) \in Nat
    BY <1>1 DEF TypeOK
  <1> QED
    BY <1>1, <1>2 DEF TrailInit, DiskType

LEMMA TrailNextType == TypeOK /\ DiskType /\ [TrailNext]_trailVars => TypeOK' /\ DiskType'
  <1> SUFFICES ASSUME TypeOK, DiskType, [TrailNext]_trailVars PROVE TypeOK' /\ DiskType'
    OBVIOUS
  <1>1. CASE Unrecorded
    BY <1>1, UnrecordedKeeps DEF Kept, DiskKept, DiskType
  <1>2. CASE Recorded
    <2>1. TypeOK'
      BY <1>2, NextType DEF Recorded
    <2>2. Len(trace') \in Nat
      BY <2>1 DEF TypeOK
    <2> QED
      BY <1>2, <2>1, <2>2 DEF Recorded, DiskType
  <1>3. CASE UNCHANGED trailVars
    BY <1>3, NextType DEF trailVars, DiskType, vars, governorVars
  <1> QED
    BY <1>1, <1>2, <1>3 DEF TrailNext

(* governor_process.py:170-172: the tables and the trail stay well typed    *)
(* when any write of a line fails.                                          *)
THEOREM TypeCorrectOnFailure == TrailSpec => []TypeOK
  BY TrailInitType, TrailNextType, PTL DEF TrailSpec

-------------------------------------------------------------------------------
(* What is held is on disk. *)
LEMMA RecordedGrows ==
    ASSUME \A type \in Types : Of(OnDisk, type) \subseteq Of(OnDisk', type), NEW a \in Agent
    PROVE  RecordedFor(a) \subseteq RecordedFor(a)'
  <1>1. /\ Transitions(OnDisk) \subseteq Transitions(OnDisk')
        /\ Of(OnDisk, "delegation") \subseteq Of(OnDisk', "delegation")
    BY DEF Transitions, Types
  <1> QED
    BY <1>1 DEF RecordedFor, GrantedOnDisk, DelegatedOnDisk

(* After a call that was recorded everything written is on disk. *)
LEMMA AllRecorded ==
    ASSUME TypeOK, TypeOK', DiskType, Recorded, NEW a \in Agent
    PROVE  /\ trace' # trace => RecordedFor(a)' = GrantedTo(a)' \cup DelegatedTo(a)'
           /\ RecordedFor(a) \subseteq GrantedTo(a) \cup DelegatedTo(a)
           /\ trace' = trace => RecordedFor(a)' = RecordedFor(a)
  <1>1. trace' # trace => OnDisk' = trace'
    BY DEF Recorded, OnDisk, TypeOK
  <1>2. trace' = trace => OnDisk' = OnDisk
    BY DEF Recorded, OnDisk
  <1>3. \A type : Of(OnDisk, type) \subseteq Of(trace, type)
    <2>1. /\ DOMAIN OnDisk \subseteq DOMAIN trace
          /\ \A i \in DOMAIN OnDisk : OnDisk[i] = trace[i]
      BY DEF OnDisk, DiskType, TypeOK
    <2> QED
      BY <2>1 DEF Of, At
  <1>4. RecordedFor(a) \subseteq GrantedTo(a) \cup DelegatedTo(a)
    <2>1. /\ Transitions(OnDisk) \subseteq Transitions(trace)
          /\ Of(OnDisk, "delegation") \subseteq Of(trace, "delegation")
      BY <1>3 DEF Transitions
    <2>2. GrantedOnDisk(a) \subseteq GrantedTo(a)
      BY <2>1 DEF GrantedTo, GrantedOnDisk
    <2>3. DelegatedOnDisk(a) \subseteq DelegatedTo(a)
      BY <2>1 DEF DelegatedTo, DelegatedOnDisk
    <2> QED
      BY <2>2, <2>3 DEF RecordedFor
  <1>5. ASSUME OnDisk' = trace' PROVE RecordedFor(a)' = GrantedTo(a)' \cup DelegatedTo(a)'
    <2>1. /\ Transitions(OnDisk') = Transitions(trace')
          /\ Of(OnDisk', "delegation") = Of(trace', "delegation")
      BY <1>5
    <2>2. GrantedOnDisk(a)' = GrantedTo(a)'
      BY <2>1 DEF GrantedTo, GrantedOnDisk
    <2>3. DelegatedOnDisk(a)' = DelegatedTo(a)'
      BY <2>1 DEF DelegatedTo, DelegatedOnDisk
    <2> QED
      BY <2>2, <2>3 DEF RecordedFor
  <1>6. ASSUME OnDisk' = OnDisk PROVE RecordedFor(a)' = RecordedFor(a)
    BY <1>6 DEF RecordedFor, GrantedOnDisk, DelegatedOnDisk, Transitions, Of, At
  <1> QED
    BY <1>1, <1>2, <1>4, <1>5, <1>6

(* A call that writes nothing leaves the table, unless it is the host's.    *)
LEMMA QuietTable ==
    ASSUME TypeOK, Next, trace' = trace
    PROVE  \/ held' = held /\ hostGrants' = hostGrants
           \/ \E agent \in Agent, cs \in BaseGrant : GrantBaseCapabilities(agent, cs)
  <1>1. trace \in Seq(Event) /\ Len(trace) \in Nat
    BY DEF TypeOK
  <1>2. \A x, y, z : trace' # Append(trace, x) /\ trace' # trace \o <<x, y, z>>
    <2> SUFFICES ASSUME NEW x, NEW y, NEW z
                 PROVE  trace # Append(trace, x) /\ trace # trace \o <<x, y, z>>
      OBVIOUS
    <2>1. Len(Append(trace, x)) = Len(trace) + 1 /\ Len(trace \o <<x, y, z>>) = Len(trace) + 3
      BY <1>1
    <2> QED
      BY <1>1, <2>1
  <1>3. ASSUME NEW a \in Agent, NEW c, NEW token, RequestCapability(a, c, token)
        PROVE  held' = held /\ hostGrants' = hostGrants
    BY <1>2, <1>3 DEF RequestCapability, RequestHeld, RequestGranted, RequestReflected, GrantDecided,
       ReflectionDecided, GrantLines, ReflectionLines, ConsumeToken
  <1>4. ASSUME NEW a, NEW b, NEW list, DelegateAuthority(a, b, list) PROVE FALSE
    BY <1>2, <1>4 DEF DelegateAuthority
  <1>5. ASSUME NEW a, NEW name, WriteResource(a, name) \/ ReadResource(a, name)
        PROVE  held' = held /\ hostGrants' = hostGrants
    BY <1>5 DEF WriteResource, ReadResource, RecordAccess
  <1>6. CASE Tick \/ IssueRefused
    BY <1>6 DEF Tick, IssueRefused, governorVars, historyVars
  <1>7. ASSUME NEW a, NEW op, Deny(a, op) PROVE held' = held /\ hostGrants' = hostGrants
    BY <1>7 DEF Deny, historyVars
  <1>8. ASSUME NEW q, NEW b, DifferentialQuery(q, b) PROVE held' = held /\ hostGrants' = hostGrants
    BY <1>8 DEF DifferentialQuery, historyVars
  <1>9. CASE Requests
    BY <1>3, <1>4, <1>5, <1>7, <1>8, <1>9 DEF Requests, DenyAccess, DenyDelegation, DenyQuery
  <1>10. ASSUME NEW a, NEW b, DeclareAgents(a, b) PROVE held' = held /\ hostGrants' = hostGrants
    BY <1>10 DEF DeclareAgents, historyVars
  <1>11. ASSUME NEW token, NEW a, NEW c, NEW ttl,
                IssueAuthorization(token, a, c, ttl) \/ ApproveCapability(token, a, c, ttl)
         PROVE  held' = held /\ hostGrants' = hostGrants
    BY <1>11 DEF IssueAuthorization, ApproveCapability
  <1>12. ASSUME NEW a, NEW name, NEW ops, GrantResourceAccess(a, name, ops)
         PROVE  held' = held /\ hostGrants' = hostGrants
    BY <1>12 DEF GrantResourceAccess, governorVars, historyVars
  <1> QED
    BY <1>6, <1>9, <1>10, <1>11, <1>12 DEF Next, Host

Covered == \A a \in Agent : held[a] \subseteq hostGrants[a] \cup RecordedFor(a)

LEMMA RecordedCovers ==
    ASSUME TypeOK, TypeOK', DiskType, Covered, Recorded
    PROVE  Covered'
  <1> SUFFICES ASSUME NEW a \in Agent PROVE held'[a] \subseteq hostGrants'[a] \cup RecordedFor(a)'
    BY DEF Covered
  <1>1. /\ held \in [Agent -> SUBSET Capability] /\ hostGrants \in [Agent -> SUBSET Capability]
        /\ held[a] \subseteq hostGrants[a] \cup RecordedFor(a)
    BY DEF TypeOK, Covered
  <1>2. /\ trace' # trace => RecordedFor(a)' = GrantedTo(a)' \cup DelegatedTo(a)'
        /\ RecordedFor(a) \subseteq GrantedTo(a) \cup DelegatedTo(a)
        /\ trace' = trace => RecordedFor(a)' = RecordedFor(a)
    BY AllRecorded
  <1>3. [Next]_vars
    BY DEF Recorded
  <1>8. CASE trace' = trace
    <2>1. RecordedFor(a)' = RecordedFor(a)
      BY <1>2, <1>8
    <2>2. \/ held' = held /\ hostGrants' = hostGrants
          \/ \E agent \in Agent, cs \in BaseGrant : GrantBaseCapabilities(agent, cs)
      BY <1>8, QuietTable DEF Recorded
    <2> QED
      BY <1>1, <2>1, <2>2 DEF GrantBaseCapabilities
  <1>4. ASSUME NEW agent \in Agent, NEW c \in Capability, Granting(agent, c)
        PROVE  held'[a] \subseteq hostGrants'[a] \cup RecordedFor(a)'
    <2>1. held'[a] = held[a] \cup (IF a = agent THEN {c} ELSE {}) /\ hostGrants' = hostGrants
      BY <1>1, <1>4 DEF Granting
    <2>2. /\ GrantedTo(a)' = GrantedTo(a) \cup (IF a = agent THEN {c} ELSE {})
          /\ DelegatedTo(a)' = DelegatedTo(a)
      BY <1>4 DEF Granting
    <2>3. CASE trace' = trace
      BY <1>2, <1>8, <2>3
    <2> QED
      BY <1>1, <1>2, <2>1, <2>2, <2>3
  <1>5. ASSUME NEW from \in Agent, NEW to \in Agent, NEW list \in AuthorityList,
               Delegating(from, to, list)
        PROVE  held'[a] \subseteq hostGrants'[a] \cup RecordedFor(a)'
    BY <1>1, <1>2, <1>5 DEF Delegating, DelegateAuthority
  <1>6. ASSUME NEW agent \in Agent, NEW cs \in BaseGrant, Giving(agent, cs)
        PROVE  held'[a] \subseteq hostGrants'[a] \cup RecordedFor(a)'
    BY <1>1, <1>2, <1>6 DEF Giving, GrantBaseCapabilities
  <1>7. CASE Keeping
    BY <1>1, <1>2, <1>7 DEF Keeping
  <1> QED
    BY <1>3, <1>4, <1>5, <1>6, <1>7, TableEffects

LEMMA TrailNextCovered ==
    TypeOK /\ DiskType /\ HeldRecorded /\ [TrailNext]_trailVars => HeldRecorded'
  <1> SUFFICES ASSUME TypeOK, DiskType, HeldRecorded, [TrailNext]_trailVars PROVE HeldRecorded'
    OBVIOUS
  <1>1. Covered /\ (faults = 0 => HeldExplained) /\ TypeOK'
    BY TrailNextType DEF HeldRecorded, Covered
  <1>2. CASE Unrecorded
    <2>1. Kept
      BY <1>2, UnrecordedKeeps
    <2>2. \A type \in Types : Of(OnDisk, type) \subseteq Of(OnDisk', type)
      BY <2>1, DiskGrows DEF Kept, TypeOK
    <2>3. \A a \in Agent : RecordedFor(a) \subseteq RecordedFor(a)'
      BY <2>2, RecordedGrows
    <2> QED
      BY <1>1, <2>1, <2>3 DEF HeldRecorded, Covered, Kept, DiskKept
  <1>3. CASE Recorded
    <2>1. Covered'
      BY <1>1, <1>3, RecordedCovers
    <2>2. faults' = 0 => HeldExplained'
      BY <1>1, <1>3, NextHeldExplained DEF Recorded
    <2> QED
      BY <2>1, <2>2 DEF HeldRecorded, Covered
  <1>4. CASE UNCHANGED trailVars
    <2>1. UNCHANGED <<vars, held, hostGrants, trace, durable, faults>>
      BY <1>4 DEF trailVars, vars, governorVars, historyVars
    <2>2. HeldExplained => HeldExplained'
      BY <2>1, NextHeldExplained
    <2>3. \A type : Of(OnDisk, type) = Of(OnDisk', type)
      BY <2>1 DEF OnDisk
    <2>4. \A a \in Agent : RecordedFor(a)' = RecordedFor(a)
      BY <2>3 DEF RecordedFor, GrantedOnDisk, DelegatedOnDisk, Transitions
    <2> QED
      BY <1>1, <2>1, <2>2, <2>4 DEF HeldRecorded, Covered
  <1> QED
    BY <1>2, <1>3, <1>4 DEF TrailNext

LEMMA InitCovered == TrailInit => HeldRecorded
  BY InitHeld DEF TrailInit, Init, HeldRecorded

(* governor_process.py:513-526, 591-601: the line comes before the change   *)
(* of the table, so a capability is never held that the lines on disk and   *)
(* the host's own grants do not account for.                                *)
THEOREM NothingHeldUnrecorded == TrailSpec => []HeldRecorded
  BY TrailInitType, TrailNextType, InitCovered, TrailNextCovered, PTL DEF TrailSpec
===============================================================================
