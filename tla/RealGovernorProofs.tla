--------------------------- MODULE RealGovernorProofs ---------------------------
(***************************************************************************)
(* Proofs about RealGovernor, for any agents, capabilities, names, files    *)
(* and lists, any length of the trail and any lifetime of the approvals.    *)
(***************************************************************************)
EXTENDS RealGovernor, SequenceTheorems, TLAPS

-------------------------------------------------------------------------------
(* Appending an event adds it to the events of its own type. *)
LEMMA OfAppend ==
    ASSUME NEW S, NEW tr \in Seq(S), NEW e \in S, NEW type
    PROVE  Of(Append(tr, e), type) = Of(tr, type) \cup (IF e.type = type THEN {e} ELSE {})
  <1> DEFINE new == Append(tr, e)
  <1>1. /\ DOMAIN tr = 1 .. Len(tr) /\ DOMAIN new = 1 .. Len(tr) + 1 /\ Len(tr) \in Nat
        /\ \A i \in DOMAIN tr : new[i] = tr[i]
        /\ new[Len(tr) + 1] = e
    OBVIOUS
  <1> HIDE DEF new
  <1>2. At(new, type) = At(tr, type) \cup (IF e.type = type THEN {Len(tr) + 1} ELSE {})
    BY <1>1 DEF At
  <1>3. \A i \in At(tr, type) : new[i] = tr[i]
    BY <1>1 DEF At
  <1>4. Of(new, type) = Of(tr, type) \cup (IF e.type = type THEN {e} ELSE {})
    BY <1>1, <1>2, <1>3 DEF Of
  <1> QED
    BY <1>4 DEF new

(* The three events of a capability request are three appends. *)
LEMMA ThreeAppends ==
    ASSUME NEW S, NEW tr \in Seq(S), NEW a \in S, NEW b \in S, NEW c \in S
    PROVE  /\ tr \o <<a, b, c>> = Append(Append(Append(tr, a), b), c)
           /\ tr \o <<a, b, c>> \in Seq(S)
  <1>1. Append(tr, a) \in Seq(S) /\ Append(Append(tr, a), b) \in Seq(S)
    OBVIOUS
  <1> QED
    BY <1>1

LEMMA OfThree ==
    ASSUME NEW S, NEW tr \in Seq(S), NEW a \in S, NEW b \in S, NEW c \in S, NEW type
    PROVE  Of(tr \o <<a, b, c>>, type) =
               Of(tr, type) \cup {e \in {a, b, c} : e.type = type}
  <1> DEFINE one == Append(tr, a)
             two == Append(one, b)
             three == Append(two, c)
  <1>1. one \in Seq(S) /\ two \in Seq(S)
    OBVIOUS
  <1>2. Of(one, type) = Of(tr, type) \cup (IF a.type = type THEN {a} ELSE {})
    BY OfAppend
  <1> HIDE DEF one
  <1>3. Of(two, type) = Of(one, type) \cup (IF b.type = type THEN {b} ELSE {})
    BY <1>1, OfAppend
  <1> HIDE DEF two
  <1>4. Of(three, type) = Of(two, type) \cup (IF c.type = type THEN {c} ELSE {})
    BY <1>1, OfAppend
  <1>5. three = tr \o <<a, b, c>>
    BY ThreeAppends DEF one, two
  <1> HIDE DEF three
  <1>6. {e \in {a, b, c} : e.type = type} =
            (IF a.type = type THEN {a} ELSE {}) \cup (IF b.type = type THEN {b} ELSE {})
                \cup (IF c.type = type THEN {c} ELSE {})
    OBVIOUS
  <1> QED
    BY <1>2, <1>3, <1>4, <1>5, <1>6

(* The events the governor writes are events of the trail's schema. *)
LEMMA EventTypes ==
    /\ InitEvent(Entry) \in Event
    /\ StateEvent(Entry, {}, {}) \in Event
    /\ RootEvent({"fs:read", "fs:write"}) \in Event
    /\ \A a, b \in Agent : DeclaredEvent(a, b) \in Event
    /\ \A n \in Nat, a \in Agent, op \in {"read", "write", "delegate", "differential_query"} :
          DeniedEvent(n, a, op) \in Event
    /\ \A n \in Nat, a \in Agent, name \in ResourceName, op \in Operation :
          AccessEvent(n, a, name, op) \in Event
    /\ \A a, b \in Agent, list \in AuthorityList : DelegationEvent(a, b, list) \in Event
    /\ \A q \in Query, b \in Backing : QueryEvent(q, b, Answer[<<b, q>>]) \in Event
    /\ \A id \in StateIds, cs \in SUBSET Capability, fs \in SUBSET Facts :
          StateEvent(id, cs, fs) \in Event
    /\ \A src, dst \in StateIds, a \in Agent, cs \in SUBSET Capability, fs \in SUBSET Facts :
          TransitionEvent(src, dst, a, cs, fs) \in Event
    /\ \A a \in Agent, n \in Nat, c \in Capability :
          /\ Pre(a, n) \in StateIds /\ Post(a, n) \in StateIds
          /\ Mirror(Pre(a, n), c) \in StateIds
  <1> USE GovernorAssumption, PolicyAssumption
  <1>1. \A q \in Query, b \in Backing : Answer[<<b, q>>] \in STRING
    BY DEF GovernorAssumption
  <1>2. Entry \in StateIds
    BY DEF Entry, StateIds
  <1>3. {"fs:read", "fs:write"} \in SUBSET Capability
    BY DEF PolicyAssumption
  <1>4. \A a \in Agent, n \in Nat, c \in Capability :
          /\ Pre(a, n) \in StateIds /\ Post(a, n) \in StateIds
          /\ Mirror(Pre(a, n), c) \in StateIds
    BY DEF Pre, Post, Mirror, StateIds
  <1> QED
    BY <1>1, <1>2, <1>3, <1>4
    DEF Event, InitEvent, StateEvent, RootEvent, DeclaredEvent, DeniedEvent, AccessEvent,
        DelegationEvent, QueryEvent, TransitionEvent

-------------------------------------------------------------------------------
(* Type correctness.  It needs no other invariant. *)
LEMMA InitType == Init => TypeOK
  <1> SUFFICES ASSUME Init PROVE TypeOK
    OBVIOUS
  <1>1. trace \in Seq(Event)
    BY EventTypes DEF Init
  <1> QED
    BY <1>1, GovernorAssumption DEF Init, TypeOK, PolicyInit, PolicyTypeOK, Approval, Use,
       GovernorAssumption

(* What a request does to the approvals keeps their types. *)
LEMMA ConsumeType ==
    ASSUME TypeOK, NEW a \in Agent, NEW c \in Capability, NEW token \in handed \cup {NoToken},
           ConsumeToken(a, c, token)
    PROVE  /\ approvals' \subseteq approvals
           /\ preapproved' \in [Agent \X Capability -> Token \cup {NoToken}]
           /\ spent' \in Seq(Use)
           /\ UNCHANGED <<resources, relationships, clock, writer, hostGrants, issued, handed, flows>>
  <1> DEFINE t == TokenUsed(a, c, token)
             use == [token |-> t, owner |-> a, scope |-> {c}, at |-> clock]
  <1>1. /\ approvals' \subseteq approvals
        /\ preapproved' \in [Agent \X Capability -> Token \cup {NoToken}]
        /\ UNCHANGED <<resources, relationships, clock, writer, hostGrants, issued, handed, flows>>
    BY DEF ConsumeToken, AfterConsume, TypeOK
  <1>2. IsApproved(a, c, token) => t \in Token
    BY DEF IsApproved, Accepts, Lookup, TypeOK, Approval
  <1>3. IsApproved(a, c, token) => use \in Use
    BY <1>2 DEF Use, TypeOK
  <1>4. spent' = IF IsApproved(a, c, token) THEN Append(spent, use) ELSE spent
    BY DEF ConsumeToken
  <1>5. spent \in Seq(Use)
    BY DEF TypeOK
  <1> HIDE DEF use
  <1>6. spent' \in Seq(Use)
    BY <1>3, <1>4, <1>5
  <1> QED
    BY <1>1, <1>6

LEMMA IssueType ==
    ASSUME TypeOK, NEW token \in Token, NEW a \in Agent, NEW c \in Capability,
           NEW ttl \in 0 .. MaxTtl + 1, Issue(token, a, c, ttl)
    PROVE  /\ approvals' \subseteq issued'
           /\ issued' \subseteq Approval(Token, Agent, SUBSET Capability)
           /\ \A r, q \in issued' : r.token = q.token => r = q
  <1>1. Approved(token, a, c, ttl) \in Approval(Token, Agent, SUBSET Capability)
    BY RegistryAssumption DEF Approved, Approval, TypeOK, RegistryAssumption
  <1>2. Approved(token, a, c, ttl).token = token
    BY DEF Approved
  <1> QED
    BY <1>1, <1>2 DEF Issue, Fresh, TypeOK, Live

LEMMA NextType == TypeOK /\ [Next]_vars => TypeOK'
  <1> SUFFICES ASSUME TypeOK, [Next]_vars PROVE TypeOK'
    OBVIOUS
  <1> USE DEF governorVars, historyVars
  <1>1. CASE Tick
    <2>1. clock' \in Nat
      BY <1>1 DEF Tick, TypeOK
    <2> QED
      BY <1>1, <2>1 DEF Tick, TypeOK, PolicyTypeOK
  <1>2. ASSUME NEW a \in Agent, NEW cs \in BaseGrant, GrantBaseCapabilities(a, cs) PROVE TypeOK'
    <2>1. cs \subseteq Capability
      BY GovernorAssumption DEF GovernorAssumption
    <2> QED
      BY <1>2, <2>1 DEF GrantBaseCapabilities, TypeOK, PolicyTypeOK
  <1>3. ASSUME NEW a \in Agent, NEW name \in ResourceName, NEW ops \in SUBSET Operation,
               GrantResourceAccess(a, name, ops)
        PROVE  TypeOK'
    BY <1>3 DEF GrantResourceAccess, AllowResource, TypeOK, PolicyTypeOK
  <1>4. ASSUME NEW p \in Declarable, DeclareAgents(p[1], p[2]) PROVE TypeOK'
    <2>1. p[1] \in Agent /\ p[2] \in Agent
      BY GovernorAssumption DEF GovernorAssumption
    <2>2. trace' \in Seq(Event)
      BY <1>4, <2>1, EventTypes DEF DeclareAgents, TypeOK
    <2> QED
      BY <1>4, <2>1, <2>2 DEF DeclareAgents, DeclareRelationship, TypeOK, PolicyTypeOK
  <1>5. ASSUME NEW token \in Token, NEW a \in Agent, NEW c \in Requested, NEW ttl \in 0 .. MaxTtl + 1,
               IssueAuthorization(token, a, c, ttl)
        PROVE  TypeOK'
    <2>1. c \in Capability /\ Issue(token, a, c, ttl)
      BY <1>5, GovernorAssumption DEF GovernorAssumption, IssueAuthorization
    <2>2. /\ approvals' \subseteq issued'
          /\ issued' \subseteq Approval(Token, Agent, SUBSET Capability)
          /\ \A r, q \in issued' : r.token = q.token => r = q
      BY <2>1, IssueType
    <2> QED
      BY <1>5, <2>2 DEF IssueAuthorization, TypeOK, PolicyTypeOK
  <1>6. ASSUME NEW token \in Token, NEW a \in Agent, NEW c \in Requested, NEW ttl \in 0 .. MaxTtl + 1,
               ApproveCapability(token, a, c, ttl)
        PROVE  TypeOK'
    <2>1. c \in Capability /\ Issue(token, a, c, ttl)
      BY <1>6, GovernorAssumption DEF GovernorAssumption, ApproveCapability
    <2>2. /\ approvals' \subseteq issued'
          /\ issued' \subseteq Approval(Token, Agent, SUBSET Capability)
          /\ \A r, q \in issued' : r.token = q.token => r = q
      BY <2>1, IssueType
    <2> QED
      BY <1>6, <2>1, <2>2 DEF ApproveCapability, TypeOK, PolicyTypeOK
  <1>7. CASE IssueRefused
    BY <1>7 DEF IssueRefused, Live, TypeOK, PolicyTypeOK
  <1>8. ASSUME NEW a \in Agent, NEW op \in {"read", "write", "delegate", "differential_query"}, Deny(a, op)
        PROVE  TypeOK'
    <2>1. trace' \in Seq(Event)
      BY <1>8, EventTypes DEF Deny, TypeOK
    <2>2. seq' \in Nat
      BY <1>8 DEF Deny, TypeOK
    <2> QED
      BY <1>8, <2>1, <2>2 DEF Deny, TypeOK, PolicyTypeOK
  <1>9. ASSUME NEW a \in Agent, NEW name \in ResourceName, WriteResource(a, name) PROVE TypeOK'
    <2>1. trace' \in Seq(Event)
      BY <1>9, EventTypes DEF WriteResource, RecordAccess, TypeOK, Operation
    <2>2. seq' \in Nat
      BY <1>9 DEF WriteResource, RecordAccess, TypeOK
    <2>3. writer' \in [File -> Agent \cup NotAgents]
      <3>1. writer \in [File -> Agent \cup NotAgents]
        BY DEF TypeOK
      <3>2. writer' = [writer EXCEPT ![FileOf[name]] = a]
        BY <1>9 DEF WriteResource
      <3> QED
        BY <3>1, <3>2
    <2> QED
      BY <1>9, <2>1, <2>2, <2>3 DEF WriteResource, RecordAccess, TypeOK, PolicyTypeOK
  <1>10. ASSUME NEW a \in Agent, NEW name \in ResourceName, ReadResource(a, name) PROVE TypeOK'
    <2>1. trace' \in Seq(Event)
      BY <1>10, EventTypes DEF ReadResource, RecordAccess, TypeOK, Operation
    <2>2. flows' \subseteq ResourceName \X SUBSET Agent
      BY <1>10 DEF ReadResource, TypeOK
    <2>3. seq' \in Nat
      BY <1>10 DEF ReadResource, RecordAccess, TypeOK
    <2> QED
      BY <1>10, <2>1, <2>2, <2>3 DEF ReadResource, RecordAccess, TypeOK, PolicyTypeOK
  <1>11. ASSUME NEW q \in Query, NEW b \in Backing, DifferentialQuery(q, b) PROVE TypeOK'
    <2>1. trace' \in Seq(Event)
      BY <1>11, EventTypes DEF DifferentialQuery, TypeOK
    <2> QED
      BY <1>11, <2>1 DEF DifferentialQuery, TypeOK, PolicyTypeOK
  <1>12. ASSUME NEW a \in Agent, NEW b \in Agent, NEW list \in AuthorityList,
                DelegateAuthority(a, b, list)
         PROVE  TypeOK'
    <2>1. trace' \in Seq(Event)
      BY <1>12, EventTypes DEF DelegateAuthority, TypeOK
    <2>2. Range(list) \subseteq Capability
      BY GovernorAssumption DEF GovernorAssumption, Range
    <2>3. held' \in [Agent -> SUBSET Capability]
      <3>1. held \in [Agent -> SUBSET Capability] /\ held[b] \cup Range(list) \in SUBSET Capability
        BY <2>2 DEF TypeOK
      <3>2. held' = held \/ held' = [held EXCEPT ![b] = held[b] \cup Range(list)]
        BY <1>12 DEF DelegateAuthority
      <3> QED
        BY <3>1, <3>2
    <2> QED
      BY <1>12, <2>1, <2>3 DEF DelegateAuthority, TypeOK, PolicyTypeOK
  <1>13. ASSUME NEW a \in Agent, NEW c \in Requested, NEW token \in handed \cup {NoToken},
                RequestCapability(a, c, token)
         PROVE  TypeOK'
    <2>1. c \in Capability
      BY GovernorAssumption DEF GovernorAssumption
    <2>2. ConsumeToken(a, c, token)
      BY <1>13 DEF RequestCapability, RequestHeld, RequestGranted, RequestReflected, GrantDecided,
                    ReflectionDecided
    <2>3. /\ approvals' \subseteq approvals
          /\ preapproved' \in [Agent \X Capability -> Token \cup {NoToken}]
          /\ spent' \in Seq(Use)
          /\ UNCHANGED <<resources, relationships, clock, writer, hostGrants, issued, handed, flows>>
      BY <2>1, <2>2, ConsumeType
    <2>4. /\ held' \in [Agent -> SUBSET Capability] /\ seq' \in Nat /\ trace' \in Seq(Event)
      <3>1. /\ trace \in Seq(Event) /\ held[a] \in SUBSET Capability /\ seq + 1 \in Nat /\ seq + 2 \in Nat
            /\ held[a] \cup {c} \in SUBSET Capability
        BY <2>1 DEF TypeOK
      <3>2. CASE RequestHeld(a, c, token)
        BY <3>2 DEF RequestHeld, TypeOK
      <3>3. CASE RequestGranted(a, c, token)
        <4> DEFINE src == Pre(a, seq + 1)
                   dst == Post(a, seq + 2)
        <4>1. src \in StateIds /\ dst \in StateIds
          BY <2>1, <3>1, EventTypes
        <4>2. /\ StateEvent(src, held[a], {}) \in Event
              /\ StateEvent(dst, held[a] \cup {c}, {}) \in Event
              /\ TransitionEvent(src, dst, a, {c}, {}) \in Event
          BY <2>1, <3>1, <4>1, EventTypes
        <4>3. trace' \in Seq(Event)
          BY <3>1, <3>3, <4>2, ThreeAppends DEF RequestGranted, GrantLines
        <4> QED
          BY <2>1, <3>1, <3>3, <4>3 DEF RequestGranted, GrantDecided, TypeOK
      <3>4. CASE RequestReflected(a, c, token)
        <4> DEFINE src == Pre(a, seq + 1)
                   mirror == Mirror(src, c)
                   facts == ApparentFacts(c)
        <4>1. src \in StateIds /\ mirror \in StateIds /\ facts \in SUBSET Facts
          BY <2>1, <3>1, EventTypes DEF ApparentFacts, Facts
        <4>2. /\ StateEvent(src, held[a], {}) \in Event
              /\ StateEvent(mirror, held[a], facts) \in Event
              /\ TransitionEvent(src, mirror, a, {}, facts) \in Event
          BY <2>1, <3>1, <4>1, EventTypes
        <4>3. trace' \in Seq(Event)
          BY <3>1, <3>4, <4>2, ThreeAppends DEF RequestReflected, ReflectionLines
        <4> QED
          BY <3>1, <3>4, <4>3 DEF RequestReflected, ReflectionDecided, TypeOK
      <3> QED
        BY <1>13, <3>2, <3>3, <3>4 DEF RequestCapability
    <2> QED
      BY <2>3, <2>4 DEF TypeOK, PolicyTypeOK
  <1>14. CASE UNCHANGED vars
    BY <1>14 DEF vars, TypeOK, PolicyTypeOK
  <1> QED
    BY <1>1, <1>2, <1>3, <1>4, <1>5, <1>6, <1>7, <1>8, <1>9, <1>10, <1>11, <1>12, <1>13, <1>14
    DEF Next, Host, Requests, DenyAccess, DenyDelegation, DenyQuery, Operation

(* The governor's tables, the trail and the history stay well typed through *)
(* every call of the host and every request (governor_process.py:174-601).  *)
THEOREM TypeCorrect == Spec => []TypeOK
  BY InitType, NextType, PTL DEF Spec

-------------------------------------------------------------------------------
(* What a step does to the events of one kind: which step adds one, and     *)
(* what it adds; every other step leaves them, and what goes with them.     *)
DeclaredEffect ==
    \/ \E p \in Declarable :
          /\ DeclareAgents(p[1], p[2])
          /\ Of(trace', "declared_relationship") =
                 Of(trace, "declared_relationship") \cup {DeclaredEvent(p[1], p[2])}
    \/ /\ Of(trace', "declared_relationship") = Of(trace, "declared_relationship")
       /\ relationships' = relationships

AccessEffect ==
    \/ \E a \in Agent, name \in ResourceName, op \in Operation :
          /\ MayAccess(a, op, name)
          /\ Accesses(trace') = Accesses(trace) \cup {AccessEvent(seq + 1, a, name, op)}
          /\ resources' = resources /\ relationships' = relationships
          /\ \/ op = "write" /\ WriteResource(a, name)
             \/ op = "read" /\ ReadResource(a, name)
    \/ /\ Accesses(trace') = Accesses(trace)
       /\ writer' = writer /\ flows' = flows

DelegationEffect ==
    \/ \E a, b \in Agent, list \in AuthorityList :
          /\ DelegateAuthority(a, b, list)
          /\ Of(trace', "delegation") = Of(trace, "delegation") \cup {DelegationEvent(a, b, list)}
          /\ Transitions(trace') = Transitions(trace)
    \/ Of(trace', "delegation") = Of(trace, "delegation")

TransitionEffect ==
    \/ \E a \in Agent, c \in Capability :
          /\ held' = [held EXCEPT ![a] = @ \cup {c}]
          /\ \E src, dst \in StateIds :
                Transitions(trace') = Transitions(trace) \cup {TransitionEvent(src, dst, a, {c}, {})}
          /\ Of(trace', "delegation") = Of(trace, "delegation")
          /\ hostGrants' = hostGrants
    \/ \E a \in Agent, facts \in SUBSET Facts :
          /\ held' = held
          /\ \E src, dst \in StateIds :
                Transitions(trace') = Transitions(trace) \cup {TransitionEvent(src, dst, a, {}, facts)}
          /\ Of(trace', "delegation") = Of(trace, "delegation")
          /\ hostGrants' = hostGrants
    \/ /\ Transitions(trace') = Transitions(trace)
       /\ \/ held' = held /\ hostGrants' = hostGrants
          \/ \E a \in Agent, cs \in BaseGrant : GrantBaseCapabilities(a, cs) /\ trace' = trace
          \/ \E a, b \in Agent, list \in AuthorityList : DelegateAuthority(a, b, list)

Effects == DeclaredEffect /\ AccessEffect /\ DelegationEffect /\ TransitionEffect

Types == {"declared_relationship", "resource_access", "delegation", "transition"}

LEMMA SameTrail ==
    ASSUME trace' = trace, UNCHANGED <<relationships, writer, flows, held, hostGrants>>
    PROVE  Effects
  BY DEF Effects, DeclaredEffect, AccessEffect, DelegationEffect, TransitionEffect, Accesses, Transitions

LEMMA OneEvent ==
    ASSUME TypeOK, NEW e \in Event, trace' = Append(trace, e), NEW type
    PROVE  Of(trace', type) = Of(trace, type) \cup (IF e.type = type THEN {e} ELSE {})
  BY OfAppend DEF TypeOK

LEMMA StepEffects == TypeOK /\ [Next]_vars => Effects
  <1> SUFFICES ASSUME TypeOK, [Next]_vars PROVE Effects
    OBVIOUS
  <1> USE DEF governorVars, historyVars
  <1>1. CASE Tick
    BY <1>1, SameTrail DEF Tick
  <1>2. ASSUME NEW a \in Agent, NEW cs \in BaseGrant, GrantBaseCapabilities(a, cs) PROVE Effects
    <2>1. trace' = trace /\ UNCHANGED <<relationships, writer, flows>>
      BY <1>2 DEF GrantBaseCapabilities
    <2> QED
      BY <1>2, <2>1 DEF Effects, DeclaredEffect, AccessEffect, DelegationEffect, TransitionEffect,
         Accesses, Transitions
  <1>3. ASSUME NEW a \in Agent, NEW name \in ResourceName, NEW ops \in SUBSET Operation,
               GrantResourceAccess(a, name, ops)
        PROVE  Effects
    BY <1>3, SameTrail DEF GrantResourceAccess, AllowResource
  <1>4. ASSUME NEW p \in Declarable, DeclareAgents(p[1], p[2]) PROVE Effects
    <2> DEFINE e == DeclaredEvent(p[1], p[2])
    <2>1. e \in Event /\ e.type = "declared_relationship"
      BY EventTypes, GovernorAssumption DEF GovernorAssumption, DeclaredEvent
    <2>2. trace' = Append(trace, e) /\ UNCHANGED <<held, writer, hostGrants, flows>>
      BY <1>4 DEF DeclareAgents
    <2>3. \A type \in Types : Of(trace', type) = Of(trace, type) \cup (IF e.type = type THEN {e} ELSE {})
      BY <2>1, <2>2, OneEvent
    <2> QED
      BY <1>4, <2>1, <2>2, <2>3 DEF Types, Effects, DeclaredEffect, AccessEffect, DelegationEffect,
         TransitionEffect, Accesses, Transitions
  <1>5. CASE \E token \in Token, a \in Agent, c \in Requested, ttl \in 0 .. MaxTtl + 1 :
               IssueAuthorization(token, a, c, ttl) \/ ApproveCapability(token, a, c, ttl)
    BY <1>5, SameTrail DEF IssueAuthorization, ApproveCapability
  <1>6. CASE IssueRefused
    BY <1>6, SameTrail DEF IssueRefused
  <1>7. ASSUME NEW a \in Agent, NEW op \in {"read", "write", "delegate", "differential_query"}, Deny(a, op)
        PROVE  Effects
    <2> DEFINE e == DeniedEvent(seq + 1, a, op)
    <2>0. seq + 1 \in Nat
      BY DEF TypeOK
    <2>1. e \in Event /\ e.type = "operation_denied"
      BY <2>0, EventTypes DEF DeniedEvent
    <2>2. trace' = Append(trace, e) /\ UNCHANGED <<relationships, held, writer, hostGrants, flows>>
      BY <1>7 DEF Deny
    <2> HIDE DEF e
    <2>3. ASSUME NEW type \in Types PROVE Of(trace', type) = Of(trace, type)
      <3>1. type # e.type
        BY <2>1 DEF Types
      <3>2. Of(trace', type) = Of(trace, type) \cup (IF e.type = type THEN {e} ELSE {})
        BY <2>1, <2>2, OneEvent
      <3> QED
        BY <3>1, <3>2
    <2> QED
      BY <2>2, <2>3 DEF Types, Effects, DeclaredEffect, AccessEffect, DelegationEffect,
         TransitionEffect, Accesses, Transitions
  <1>8. ASSUME NEW a \in Agent, NEW name \in ResourceName, NEW op \in Operation,
               \/ op = "write" /\ WriteResource(a, name)
               \/ op = "read" /\ ReadResource(a, name)
        PROVE  Effects
    <2> DEFINE e == AccessEvent(seq + 1, a, name, op)
    <2>0. seq + 1 \in Nat
      BY DEF TypeOK
    <2>1. e \in Event /\ e.type = "resource_access"
      BY <2>0, EventTypes DEF AccessEvent
    <2>2. /\ trace' = Append(trace, e) /\ MayAccess(a, op, name)
          /\ UNCHANGED <<resources, relationships, held, hostGrants>>
      BY <1>8 DEF WriteResource, ReadResource, RecordAccess
    <2>3. \A type \in Types : Of(trace', type) = Of(trace, type) \cup (IF e.type = type THEN {e} ELSE {})
      BY <2>1, <2>2, OneEvent
    <2>4. AccessEffect
      BY <1>8, <2>1, <2>2, <2>3 DEF AccessEffect, Accesses, Types
    <2> QED
      BY <2>1, <2>2, <2>3, <2>4 DEF Types, Effects, DeclaredEffect, DelegationEffect,
         TransitionEffect, Transitions
  <1>9. ASSUME NEW q \in Query, NEW b \in Backing, DifferentialQuery(q, b) PROVE Effects
    <2> DEFINE e == QueryEvent(q, b, Answer[<<b, q>>])
    <2>1. e \in Event /\ e.type = "differential_query"
      BY EventTypes DEF QueryEvent
    <2>2. trace' = Append(trace, e) /\ UNCHANGED <<relationships, held, writer, hostGrants, flows>>
      BY <1>9 DEF DifferentialQuery
    <2> HIDE DEF e
    <2>3. ASSUME NEW type \in Types PROVE Of(trace', type) = Of(trace, type)
      <3>1. type # e.type
        BY <2>1 DEF Types
      <3>2. Of(trace', type) = Of(trace, type) \cup (IF e.type = type THEN {e} ELSE {})
        BY <2>1, <2>2, OneEvent
      <3> QED
        BY <3>1, <3>2
    <2> QED
      BY <2>2, <2>3 DEF Types, Effects, DeclaredEffect, AccessEffect, DelegationEffect,
         TransitionEffect, Accesses, Transitions
  <1>10. ASSUME NEW a \in Agent, NEW b \in Agent, NEW list \in AuthorityList,
                DelegateAuthority(a, b, list)
         PROVE  Effects
    <2> DEFINE e == DelegationEvent(a, b, list)
    <2>1. e \in Event /\ e.type = "delegation"
      BY EventTypes DEF DelegationEvent
    <2>2. trace' = Append(trace, e) /\ UNCHANGED <<relationships, writer, hostGrants, flows>>
      BY <1>10 DEF DelegateAuthority
    <2>3. \A type \in Types : Of(trace', type) = Of(trace, type) \cup (IF e.type = type THEN {e} ELSE {})
      BY <2>1, <2>2, OneEvent
    <2> QED
      BY <1>10, <2>1, <2>2, <2>3 DEF Types, Effects, DeclaredEffect, AccessEffect, DelegationEffect,
         TransitionEffect, Accesses, Transitions
  <1>11. ASSUME NEW a \in Agent, NEW c \in Requested, NEW token \in handed \cup {NoToken},
                RequestCapability(a, c, token)
         PROVE  Effects
    <2>1. c \in Capability /\ trace \in Seq(Event) /\ held[a] \in SUBSET Capability
          /\ held[a] \cup {c} \in SUBSET Capability /\ seq + 1 \in Nat /\ seq + 2 \in Nat
      BY GovernorAssumption DEF GovernorAssumption, TypeOK
    <2>2. UNCHANGED <<relationships, writer, hostGrants, flows>>
      BY <1>11 DEF RequestCapability, RequestHeld, RequestGranted, RequestReflected, GrantDecided,
                    ReflectionDecided, ConsumeToken
    <2>3. CASE RequestHeld(a, c, token)
      BY <2>2, <2>3, SameTrail DEF RequestHeld
    <2>4. CASE RequestGranted(a, c, token)
      <3> DEFINE src == Pre(a, seq + 1)
                 dst == Post(a, seq + 2)
                 one == StateEvent(src, held[a], {})
                 two == StateEvent(dst, held[a] \cup {c}, {})
                 three == TransitionEvent(src, dst, a, {c}, {})
      <3>1. src \in StateIds /\ dst \in StateIds
        BY <2>1, EventTypes
      <3>2. one \in Event /\ two \in Event /\ three \in Event
        BY <2>1, <3>1, EventTypes
      <3>3. trace' = trace \o <<one, two, three>> /\ held' = [held EXCEPT ![a] = @ \cup {c}]
        BY <2>4 DEF RequestGranted, GrantLines
      <3>4. one.type = "state" /\ two.type = "state" /\ three.type = "transition"
        BY DEF StateEvent, TransitionEvent
      <3> HIDE DEF one, two, three, src, dst
      <3>5. \A type \in Types :
               Of(trace', type) = Of(trace, type) \cup {e \in {one, two, three} : e.type = type}
        BY <2>1, <3>2, <3>3, OfThree
      <3>6. /\ Of(trace', "declared_relationship") = Of(trace, "declared_relationship")
            /\ Accesses(trace') = Accesses(trace)
            /\ Of(trace', "delegation") = Of(trace, "delegation")
            /\ Transitions(trace') = Transitions(trace) \cup {three}
        BY <3>4, <3>5 DEF Types, Accesses, Transitions
      <3>7. TransitionEffect
        BY <2>1, <2>2, <3>1, <3>3, <3>6 DEF TransitionEffect, three
      <3> QED
        BY <2>2, <3>6, <3>7 DEF Effects, DeclaredEffect, AccessEffect, DelegationEffect
    <2>5. CASE RequestReflected(a, c, token)
      <3> DEFINE src == Pre(a, seq + 1)
                 dst == Mirror(src, c)
                 facts == ApparentFacts(c)
                 one == StateEvent(src, held[a], {})
                 two == StateEvent(dst, held[a], facts)
                 three == TransitionEvent(src, dst, a, {}, facts)
      <3>1. src \in StateIds /\ dst \in StateIds /\ facts \in SUBSET Facts
        BY <2>1, EventTypes DEF ApparentFacts, Facts
      <3>2. one \in Event /\ two \in Event /\ three \in Event
        BY <2>1, <3>1, EventTypes
      <3>3. trace' = trace \o <<one, two, three>> /\ held' = held
        BY <2>5 DEF RequestReflected, ReflectionLines
      <3>4. one.type = "state" /\ two.type = "state" /\ three.type = "transition"
        BY DEF StateEvent, TransitionEvent
      <3> HIDE DEF one, two, three, src, dst, facts
      <3>5. \A type \in Types :
               Of(trace', type) = Of(trace, type) \cup {e \in {one, two, three} : e.type = type}
        BY <2>1, <3>2, <3>3, OfThree
      <3>6. /\ Of(trace', "declared_relationship") = Of(trace, "declared_relationship")
            /\ Accesses(trace') = Accesses(trace)
            /\ Of(trace', "delegation") = Of(trace, "delegation")
            /\ Transitions(trace') = Transitions(trace) \cup {three}
        BY <3>4, <3>5 DEF Types, Accesses, Transitions
      <3>7. TransitionEffect
        BY <2>2, <3>1, <3>3, <3>6 DEF TransitionEffect, three
      <3> QED
        BY <2>2, <3>6, <3>7 DEF Effects, DeclaredEffect, AccessEffect, DelegationEffect
    <2> QED
      BY <1>11, <2>3, <2>4, <2>5 DEF RequestCapability
  <1>12. CASE UNCHANGED vars
    BY <1>12, SameTrail DEF vars
  <1> QED
    BY <1>1, <1>2, <1>3, <1>4, <1>5, <1>6, <1>7, <1>8, <1>9, <1>10, <1>11, <1>12
    DEF Next, Host, Requests, DenyAccess, DenyDelegation, DenyQuery, Operation

-------------------------------------------------------------------------------
(* Sharing.  That content flows only between related agents follows from    *)
(* what is on the access lists: who has accessed a name, or is the author   *)
(* of what it opens, has an entry for the name and never loses it, and two  *)
(* agents with entries for one name are related.                            *)
AccessesAllowed ==
    EnforcePolicy =>
        \A e \in Accesses(trace) :
            /\ e.agent \in Agent /\ e.resource \in ResourceName
            /\ resources[<<e.agent, e.resource>>] # {}

WriterAllowed ==
    EnforcePolicy =>
        \A n \in Canonical, a \in Agent :
            writer[FileOf[n]] = a => resources[<<a, n>>] # {}

RelationshipsRecorded == relationships = DeclaredPairs(trace)

Sharing ==
    /\ SharersRelated
    /\ NoUndeclaredFlow
    /\ AccessesAllowed
    /\ WriterAllowed
    /\ RelationshipsRecorded

(* The events of the initial trail. *)
LEMMA InitTrail ==
    ASSUME Init
    PROVE  \A type \in Types : Of(trace, type) = {}
  <1>1. /\ DOMAIN trace = 1 .. 3
        /\ trace[1].type = "init" /\ trace[2].type = "state" /\ trace[3].type = "root_authority"
    BY DEF Init, InitEvent, StateEvent, RootEvent
  <1>2. \A type \in Types : At(trace, type) = {}
    BY <1>1 DEF At, Types
  <1> QED
    BY <1>2 DEF Of

LEMMA InitSharing == Init => Sharing
  <1> SUFFICES ASSUME Init PROVE Sharing
    OBVIOUS
  <1>1. Of(trace, "declared_relationship") = {} /\ Accesses(trace) = {}
    BY InitTrail DEF Types, Accesses
  <1>2. \A n \in Canonical : FileOf[n] \in File
    BY NamesAssumption, PolicyAssumption DEF NamesAssumption, PolicyAssumption
  <1> QED
    BY <1>1, <1>2, GovernorAssumption
    DEF Init, PolicyInit, Sharing, SharersRelated, NoUndeclaredFlow, AccessesAllowed, WriterAllowed,
        RelationshipsRecorded, DeclaredPairs, GovernorAssumption

(* An access list entry, once there, is replaced but never emptied. *)
LEMMA ListsOnlyGrow ==
    ASSUME TypeOK, [Next]_vars
    PROVE  /\ relationships \subseteq relationships'
           /\ \A a \in Agent, n \in ResourceName :
                 resources[<<a, n>>] # {} => resources'[<<a, n>>] # {}
           /\ \A a \in Agent, n \in ResourceName :
                 resources[<<a, n>>] = {} /\ resources'[<<a, n>>] # {} =>
                     /\ relationships' = relationships
                     /\ ~UnrelatedSharer(a, n)
                     /\ \A b \in Agent, m \in ResourceName :
                           <<b, m>> # <<a, n>> => resources'[<<b, m>>] = resources[<<b, m>>]
  <1> USE DEF governorVars, historyVars
  <1>1. CASE \E a \in Agent, name \in ResourceName, ops \in SUBSET Operation :
               GrantResourceAccess(a, name, ops)
    <2>1. PICK a \in Agent, name \in ResourceName, ops \in SUBSET Operation :
              GrantResourceAccess(a, name, ops)
      BY <1>1
    <2>2. /\ ops # {} /\ ~UnrelatedSharer(a, name) /\ relationships' = relationships
          /\ resources' = [resources EXCEPT ![<<a, name>>] = ops]
      BY <2>1 DEF GrantResourceAccess, AllowResource
    <2>3. resources \in [Agent \X ResourceName -> SUBSET Operation]
      BY DEF TypeOK, PolicyTypeOK
    <2>4. /\ resources'[<<a, name>>] = ops
          /\ \A b \in Agent, m \in ResourceName :
                <<b, m>> # <<a, name>> => resources'[<<b, m>>] = resources[<<b, m>>]
      BY <2>2, <2>3
    <2>5. \A b \in Agent, m \in ResourceName :
              resources[<<b, m>>] # {} => resources'[<<b, m>>] # {}
      BY <2>2, <2>4
    <2>6. \A b \in Agent, m \in ResourceName :
              resources[<<b, m>>] = {} /\ resources'[<<b, m>>] # {} => b = a /\ m = name
      BY <2>4
    <2>7. \A b \in Agent, m \in ResourceName :
              resources[<<b, m>>] = {} /\ resources'[<<b, m>>] # {} =>
                  /\ relationships' = relationships
                  /\ ~UnrelatedSharer(b, m)
                  /\ \A c \in Agent, o \in ResourceName :
                        <<c, o>> # <<b, m>> => resources'[<<c, o>>] = resources[<<c, o>>]
      <3> SUFFICES ASSUME NEW b \in Agent, NEW m \in ResourceName,
                          resources[<<b, m>>] = {}, resources'[<<b, m>>] # {}
                   PROVE  /\ relationships' = relationships
                          /\ ~UnrelatedSharer(b, m)
                          /\ \A c \in Agent, o \in ResourceName :
                                <<c, o>> # <<b, m>> => resources'[<<c, o>>] = resources[<<c, o>>]
        OBVIOUS
      <3>1. b = a /\ m = name
        BY <2>6
      <3> QED
        BY <2>2, <2>4, <3>1
    <2> QED
      BY <2>2, <2>5, <2>7
  <1>2. CASE UNCHANGED resources /\ relationships \subseteq relationships'
    BY <1>2
  <1>3. ASSUME Tick \/ IssueRefused \/ UNCHANGED vars
        PROVE  UNCHANGED resources /\ relationships \subseteq relationships'
    BY <1>3 DEF Tick, IssueRefused, vars
  <1>4. ASSUME NEW a \in Agent,
               \/ \E capabilities \in BaseGrant : GrantBaseCapabilities(a, capabilities)
               \/ \E c \in Requested, token \in Token, ttl \in 0 .. MaxTtl + 1 :
                      IssueAuthorization(token, a, c, ttl) \/ ApproveCapability(token, a, c, ttl)
        PROVE  UNCHANGED resources /\ relationships \subseteq relationships'
    BY <1>4 DEF GrantBaseCapabilities, IssueAuthorization, ApproveCapability
  <1>5. ASSUME NEW p \in Declarable, DeclareAgents(p[1], p[2])
        PROVE  UNCHANGED resources /\ relationships \subseteq relationships'
    BY <1>5 DEF DeclareAgents, DeclareRelationship
  <1>6. ASSUME Requests
        PROVE  UNCHANGED resources /\ relationships \subseteq relationships'
    <2>1. ASSUME NEW a \in Agent, NEW op, Deny(a, op)
          PROVE  UNCHANGED <<resources, relationships>>
      BY <2>1 DEF Deny
    <2>2. ASSUME NEW a \in Agent, NEW name \in ResourceName,
                 WriteResource(a, name) \/ ReadResource(a, name)
          PROVE  UNCHANGED <<resources, relationships>>
      BY <2>2 DEF WriteResource, ReadResource, RecordAccess
    <2>3. ASSUME NEW q \in Query, NEW b \in Backing, DifferentialQuery(q, b)
          PROVE  UNCHANGED <<resources, relationships>>
      BY <2>3 DEF DifferentialQuery
    <2>4. ASSUME NEW a \in Agent, NEW b \in Agent, NEW list \in AuthorityList,
                 DelegateAuthority(a, b, list)
          PROVE  UNCHANGED <<resources, relationships>>
      BY <2>4 DEF DelegateAuthority
    <2>5. ASSUME NEW a \in Agent, NEW c \in Requested, NEW token, RequestCapability(a, c, token)
          PROVE  UNCHANGED <<resources, relationships>>
      BY <2>5 DEF RequestCapability, RequestHeld, RequestGranted, RequestReflected, GrantDecided,
                    ReflectionDecided, ConsumeToken
    <2> QED
      BY <1>6, <2>1, <2>2, <2>3, <2>4, <2>5 DEF Requests, DenyAccess, DenyDelegation, DenyQuery
  <1>7. CASE Next
    BY <1>7, <1>1, <1>2, <1>3, <1>4, <1>5, <1>6 DEF Next, Host
  <1> QED
    BY <1>2, <1>3, <1>7

(* Every relationship is on the trail, and no other.                        *)
LEMMA NextRelationships ==
    ASSUME TypeOK, RelationshipsRecorded, [Next]_vars
    PROVE  RelationshipsRecorded'
  <1>1. CASE Of(trace', "declared_relationship") = Of(trace, "declared_relationship")
             /\ relationships' = relationships
    BY <1>1 DEF RelationshipsRecorded, DeclaredPairs
  <1>2. ASSUME NEW p \in Declarable, DeclareAgents(p[1], p[2]),
               Of(trace', "declared_relationship") =
                   Of(trace, "declared_relationship") \cup {DeclaredEvent(p[1], p[2])}
        PROVE  RelationshipsRecorded'
    <2>1. relationships' = relationships \cup {{p[1], p[2]}}
      BY <1>2 DEF DeclareAgents, DeclareRelationship
    <2>2. DeclaredEvent(p[1], p[2]).agents[1] = p[1] /\ DeclaredEvent(p[1], p[2]).agents[2] = p[2]
      BY DEF DeclaredEvent
    <2>3. DeclaredPairs(trace') = DeclaredPairs(trace) \cup {{p[1], p[2]}}
      BY <1>2, <2>2 DEF DeclaredPairs
    <2> QED
      BY <2>1, <2>3 DEF RelationshipsRecorded
  <1> QED
    BY <1>1, <1>2, StepEffects DEF Effects, DeclaredEffect

LEMMA NextSharing == TypeOK /\ Sharing /\ [Next]_vars => Sharing'
  <1> SUFFICES ASSUME TypeOK, Sharing, [Next]_vars PROVE Sharing'
    OBVIOUS
  <1> USE DEF Sharing
  <1>1. DeclaredEffect /\ AccessEffect
    BY StepEffects DEF Effects
  <1>2. SharersRelated'
    <2> SUFFICES ASSUME NEW a \in Agent, NEW b \in Agent, NEW n \in ResourceName, a # b,
                        resources'[<<a, n>>] # {}, resources'[<<b, n>>] # {}
                 PROVE  {a, b} \in relationships'
      BY DEF SharersRelated
    <2>1. CASE resources[<<a, n>>] # {} /\ resources[<<b, n>>] # {}
      BY <2>1, ListsOnlyGrow DEF SharersRelated
    <2>2. CASE resources[<<a, n>>] = {}
      <3>1. ~UnrelatedSharer(a, n) /\ resources[<<b, n>>] # {} /\ relationships' = relationships
        BY <2>2, ListsOnlyGrow
      <3> QED
        BY <3>1 DEF UnrelatedSharer
    <2>3. CASE resources[<<b, n>>] = {}
      <3>1. ~UnrelatedSharer(b, n) /\ resources[<<a, n>>] # {} /\ relationships' = relationships
        BY <2>3, ListsOnlyGrow
      <3> QED
        BY <3>1 DEF UnrelatedSharer
    <2> QED
      BY <2>1, <2>2, <2>3
  <1>3. AccessesAllowed'
    <2> SUFFICES ASSUME EnforcePolicy, NEW e \in Accesses(trace')
                 PROVE  /\ e.agent \in Agent /\ e.resource \in ResourceName
                        /\ resources'[<<e.agent, e.resource>>] # {}
      BY DEF AccessesAllowed
    <2>1. CASE e \in Accesses(trace)
      BY <2>1, ListsOnlyGrow DEF AccessesAllowed
    <2>2. CASE e \notin Accesses(trace)
      <3>1. PICK a \in Agent, name \in ResourceName, op \in Operation :
               /\ MayAccess(a, op, name) /\ e = AccessEvent(seq + 1, a, name, op)
        BY <1>1, <2>2 DEF AccessEffect
      <3>2. e.agent = a /\ e.resource = name /\ resources[<<a, name>>] # {}
        BY <3>1 DEF AccessEvent, MayAccess, PermitsAccess
      <3> QED
        BY <3>2, ListsOnlyGrow
    <2> QED
      BY <2>1, <2>2
  <1>4. WriterAllowed'
    <2> SUFFICES ASSUME EnforcePolicy, NEW n \in Canonical, NEW a \in Agent, writer'[FileOf[n]] = a
                 PROVE  resources'[<<a, n>>] # {}
      BY DEF WriterAllowed
    <2>1. n \in ResourceName /\ FileOf[n] \in File
      BY NamesAssumption, PolicyAssumption DEF NamesAssumption, PolicyAssumption
    <2>2. CASE writer[FileOf[n]] = a
      BY <2>1, <2>2, ListsOnlyGrow DEF WriterAllowed
    <2>3. CASE writer[FileOf[n]] # a
      <3>1. PICK b \in Agent, name \in ResourceName :
               MayAccess(b, "write", name) /\ writer' = [writer EXCEPT ![FileOf[name]] = b]
        BY <1>1, <2>3 DEF AccessEffect, WriteResource, ReadResource
      <3>2. FileOf[name] = FileOf[n] /\ b = a
        BY <2>1, <2>3, <3>1 DEF TypeOK
      <3>3. name = n /\ resources[<<a, n>>] # {}
        BY <3>1, <3>2, NamesAssumption DEF NamesAssumption, MayAccess, ValidResourceName, PermitsAccess
      <3> QED
        BY <2>1, <3>3, ListsOnlyGrow
    <2> QED
      BY <2>2, <2>3
  <1>5. RelationshipsRecorded'
    BY NextRelationships
  <1>6. NoUndeclaredFlow'
    <2> SUFFICES ASSUME EnforcePolicy, NEW f \in flows' PROVE f[2] \in relationships'
      BY DEF NoUndeclaredFlow
    <2>1. CASE f \in flows
      BY <2>1, ListsOnlyGrow DEF NoUndeclaredFlow
    <2>2. CASE f \notin flows
      <3>1. PICK a \in Agent, name \in ResourceName :
               /\ MayAccess(a, "read", name) /\ ReadResource(a, name)
               /\ relationships' = relationships
        BY <1>1, <2>2 DEF AccessEffect, WriteResource
      <3> DEFINE author == writer[FileOf[name]]
      <3>2. author \in Agent /\ author # a /\ f[2] = {author, a}
        BY <2>2, <3>1 DEF ReadResource
      <3>3. name \in Canonical /\ resources[<<a, name>>] # {}
        BY <3>1 DEF MayAccess, ValidResourceName, PermitsAccess
      <3>4. resources[<<author, name>>] # {}
        BY <3>2, <3>3 DEF WriterAllowed
      <3> QED
        BY <3>1, <3>2, <3>3, <3>4 DEF SharersRelated
    <2> QED
      BY <2>1, <2>2
  <1> QED
    BY <1>2, <1>3, <1>4, <1>5, <1>6

LEMMA SharingInvariant == Spec => [](TypeOK /\ Sharing)
  BY InitType, NextType, InitSharing, NextSharing, PTL DEF Spec

(* policy.py:31-35: whatever the order of grants and declarations, agents   *)
(* that share a name are related.                                           *)
THEOREM SharingDeclared == Spec => []SharersRelated
  BY SharingInvariant, PTL DEF Sharing

(* With enforcement no content an agent wrote is ever read by an agent it   *)
(* is not related to, through any name or alias.                            *)
THEOREM FlowsDeclared == Spec => []NoUndeclaredFlow
  BY SharingInvariant, PTL DEF Sharing

(* Every exchange the auditor would count is between agents that both have  *)
(* an entry for the name, so it is declared on the trail.                   *)
LEMMA SharingClean == TypeOK /\ Sharing => ChannelClean
  <1> SUFFICES ASSUME TypeOK, Sharing, EnforcePolicy,
                      NEW w \in Accesses(trace), NEW r \in Accesses(trace),
                      Exchange(Accesses(trace), w, r, DeclaredPairs(trace))
               PROVE  FALSE
    BY DEF ChannelClean, Channels, EmergentChannels
  <1>1. w.agent # r.agent /\ w.resource = r.resource /\ {w.agent, r.agent} \notin DeclaredPairs(trace)
    BY DEF Exchange, LastWrite
  <1>2. /\ w.agent \in Agent /\ r.agent \in Agent /\ r.resource \in ResourceName
        /\ resources[<<w.agent, r.resource>>] # {} /\ resources[<<r.agent, r.resource>>] # {}
    BY <1>1 DEF Sharing, AccessesAllowed
  <1> QED
    BY <1>1, <1>2 DEF Sharing, SharersRelated, RelationshipsRecorded

(* Under enforcement Article V (channel.py:48-85) has nothing to report on  *)
(* any trail the governor writes, however long.                             *)
THEOREM ArticleVHolds == Spec => []ChannelClean
  BY SharingInvariant, SharingClean, PTL

-------------------------------------------------------------------------------
(* A delegation is on the trail after it was made, also when an equal one   *)
(* was there before.                                                        *)
LEMMA DelegationRecorded ==
    ASSUME TypeOK, NEW from \in Agent, NEW to \in Agent, NEW list \in AuthorityList,
           DelegateAuthority(from, to, list)
    PROVE  /\ Of(trace', "delegation") = Of(trace, "delegation") \cup {DelegationEvent(from, to, list)}
           /\ Transitions(trace') = Transitions(trace)
           /\ UNCHANGED <<relationships, hostGrants>>
  <1> DEFINE e == DelegationEvent(from, to, list)
  <1>1. e \in Event /\ e.type = "delegation"
    BY EventTypes DEF DelegationEvent
  <1>2. trace' = Append(trace, e) /\ UNCHANGED <<relationships, hostGrants>>
    BY DEF DelegateAuthority, historyVars
  <1> HIDE DEF e
  <1>3. \A type \in Types : Of(trace', type) = Of(trace, type) \cup (IF e.type = type THEN {e} ELSE {})
    BY <1>1, <1>2, OneEvent
  <1> QED
    BY <1>1, <1>2, <1>3 DEF Types, Transitions, e

(* The four things a step can do to the table, and what goes with each. *)
Granting(agent, c) ==
    /\ held' = [held EXCEPT ![agent] = @ \cup {c}]
    /\ \A a \in Agent : GrantedTo(a)' = GrantedTo(a) \cup (IF a = agent THEN {c} ELSE {})
    /\ \A a \in Agent : DelegatedTo(a)' = DelegatedTo(a)
    /\ hostGrants' = hostGrants

Delegating(from, to, list) ==
    /\ DelegateAuthority(from, to, list)
    /\ \A a \in Agent : GrantedTo(a)' = GrantedTo(a)
    /\ \A a \in Agent : DelegatedTo(a)' = DelegatedTo(a) \cup (IF a = to THEN Range(list) ELSE {})
    /\ hostGrants' = hostGrants

Giving(agent, capabilities) ==
    /\ GrantBaseCapabilities(agent, capabilities)
    /\ \A a \in Agent : GrantedTo(a)' = GrantedTo(a) /\ DelegatedTo(a)' = DelegatedTo(a)

Keeping ==
    /\ held' = held /\ hostGrants' = hostGrants
    /\ \A a \in Agent : GrantedTo(a)' = GrantedTo(a) /\ DelegatedTo(a)' = DelegatedTo(a)

LEMMA TableEffects ==
    ASSUME TypeOK, [Next]_vars
    PROVE  \/ \E agent \in Agent, c \in Capability : Granting(agent, c)
           \/ \E from, to \in Agent, list \in AuthorityList : Delegating(from, to, list)
           \/ \E agent \in Agent, cs \in BaseGrant : Giving(agent, cs)
           \/ Keeping
  <1>1. DelegationEffect /\ TransitionEffect
    BY StepEffects DEF Effects
  <1>2. ASSUME NEW agent \in Agent, NEW g, NEW facts, NEW src, NEW dst,
               Transitions(trace') = Transitions(trace) \cup {TransitionEvent(src, dst, agent, g, facts)}
        PROVE  \A a \in Agent : GrantedTo(a)' = GrantedTo(a) \cup (IF a = agent THEN g ELSE {})
    <2> DEFINE t == TransitionEvent(src, dst, agent, g, facts)
    <2>1. t.agent = agent /\ t.authorized_grant = g
      BY DEF TransitionEvent
    <2> HIDE DEF t
    <2>2. Transitions(trace') = Transitions(trace) \cup {t}
      BY <1>2 DEF t
    <2> QED
      BY <2>1, <2>2 DEF GrantedTo
  <1>3. Transitions(trace') = Transitions(trace) => \A a \in Agent : GrantedTo(a)' = GrantedTo(a)
    BY DEF GrantedTo
  <1>4. Of(trace', "delegation") = Of(trace, "delegation") =>
            \A a \in Agent : DelegatedTo(a)' = DelegatedTo(a)
    BY DEF DelegatedTo
  <1>5. ASSUME NEW from \in Agent, NEW to \in Agent, NEW list \in AuthorityList,
               DelegateAuthority(from, to, list)
        PROVE  Delegating(from, to, list)
    <2> DEFINE e == DelegationEvent(from, to, list)
    <2>1. e.to = to /\ e.authority = list
      BY DEF DelegationEvent
    <2> HIDE DEF e
    <2>2. /\ Of(trace', "delegation") = Of(trace, "delegation") \cup {e}
          /\ Transitions(trace') = Transitions(trace) /\ hostGrants' = hostGrants
      BY <1>5, DelegationRecorded DEF e
    <2>3. \A a \in Agent : DelegatedTo(a)' = DelegatedTo(a) \cup (IF a = to THEN Range(list) ELSE {})
      BY <2>1, <2>2 DEF DelegatedTo
    <2> QED
      BY <1>3, <1>5, <2>2, <2>3 DEF Delegating
  <1>6. ASSUME NEW agent \in Agent, NEW c \in Capability, NEW src, NEW dst,
               held' = [held EXCEPT ![agent] = @ \cup {c}],
               Transitions(trace') = Transitions(trace) \cup {TransitionEvent(src, dst, agent, {c}, {})},
               Of(trace', "delegation") = Of(trace, "delegation"), hostGrants' = hostGrants
        PROVE  Granting(agent, c)
    BY <1>2, <1>4, <1>6 DEF Granting
  <1>7. ASSUME NEW agent \in Agent, NEW facts, NEW src, NEW dst, held' = held,
               Transitions(trace') = Transitions(trace) \cup {TransitionEvent(src, dst, agent, {}, facts)},
               Of(trace', "delegation") = Of(trace, "delegation"), hostGrants' = hostGrants
        PROVE  Keeping
    BY <1>2, <1>4, <1>7 DEF Keeping
  <1>8. ASSUME NEW agent \in Agent, NEW cs \in BaseGrant, GrantBaseCapabilities(agent, cs), trace' = trace
        PROVE  Giving(agent, cs)
    BY <1>8 DEF Giving, GrantedTo, DelegatedTo
  <1>9. CASE \E from, to \in Agent, list \in AuthorityList : DelegateAuthority(from, to, list)
    BY <1>5, <1>9
  <1>10. CASE Of(trace', "delegation") = Of(trace, "delegation")
    BY <1>1, <1>3, <1>4, <1>5, <1>6, <1>7, <1>8, <1>10 DEF TransitionEffect, Keeping
  <1> QED
    BY <1>1, <1>9, <1>10 DEF DelegationEffect

-------------------------------------------------------------------------------
(* The trail and the base grants account for the table.                     *)
LEMMA InitHeld == Init => HeldExplained /\ Confined
  <1> SUFFICES ASSUME Init PROVE HeldExplained /\ Confined
    OBVIOUS
  <1>1. Of(trace, "transition") = {} /\ Of(trace, "delegation") = {}
    BY InitTrail DEF Types
  <1>2. \A a \in Agent : held[a] = {} /\ hostGrants[a] = {} /\ GrantedTo(a) = {} /\ DelegatedTo(a) = {}
    BY <1>1 DEF Init, GrantedTo, DelegatedTo, Transitions
  <1> QED
    BY <1>2 DEF HeldExplained, Confined

LEMMA NextHeldExplained == TypeOK /\ HeldExplained /\ [Next]_vars => HeldExplained'
  <1> SUFFICES ASSUME TypeOK, HeldExplained, [Next]_vars, NEW a \in Agent
               PROVE  held'[a] = hostGrants'[a] \cup GrantedTo(a)'
                                    \cup (IF EnforcePolicy THEN DelegatedTo(a)' ELSE {})
    BY DEF HeldExplained
  <1>1. /\ held \in [Agent -> SUBSET Capability]
        /\ hostGrants \in [Agent -> SUBSET Capability]
    BY DEF TypeOK
  <1>2. held[a] = hostGrants[a] \cup GrantedTo(a) \cup (IF EnforcePolicy THEN DelegatedTo(a) ELSE {})
    BY DEF HeldExplained
  <1>3. ASSUME NEW agent \in Agent, NEW c \in Capability, Granting(agent, c)
        PROVE  held'[a] = hostGrants'[a] \cup GrantedTo(a)'
                             \cup (IF EnforcePolicy THEN DelegatedTo(a)' ELSE {})
    BY <1>1, <1>2, <1>3 DEF Granting
  <1>4. ASSUME NEW from \in Agent, NEW to \in Agent, NEW list \in AuthorityList,
               Delegating(from, to, list)
        PROVE  held'[a] = hostGrants'[a] \cup GrantedTo(a)'
                             \cup (IF EnforcePolicy THEN DelegatedTo(a)' ELSE {})
    BY <1>1, <1>2, <1>4 DEF Delegating, DelegateAuthority
  <1>5. ASSUME NEW agent \in Agent, NEW cs \in BaseGrant, Giving(agent, cs)
        PROVE  held'[a] = hostGrants'[a] \cup GrantedTo(a)'
                             \cup (IF EnforcePolicy THEN DelegatedTo(a)' ELSE {})
    BY <1>1, <1>2, <1>5 DEF Giving, GrantBaseCapabilities
  <1>6. CASE Keeping
    BY <1>2, <1>6 DEF Keeping
  <1> QED
    BY <1>3, <1>4, <1>5, <1>6, TableEffects

(* governor_process.py:514, 601, 174-175: the audit trail and the host's    *)
(* grants explain every capability an agent holds, and nothing else does.   *)
THEOREM TableExplained == Spec => []HeldExplained
  BY InitType, NextType, InitHeld, NextHeldExplained, PTL DEF Spec

-------------------------------------------------------------------------------
(* Delegation creates nothing and crosses no boundary.                      *)
LEMMA NextConfined == TypeOK /\ Confined /\ [Next]_vars => Confined'
  <1> SUFFICES ASSUME TypeOK, Confined, [Next]_vars, EnforcePolicy,
                      NEW group \in SUBSET Agent, Isolated(group)',
                      NEW a \in group, NEW c \in held'[a]
               PROVE  \E b \in group : c \in hostGrants'[b] \cup GrantedTo(b)'
    BY DEF Confined
  <1>1. Isolated(group)
    BY ListsOnlyGrow DEF Isolated
  <1>2. \A x \in group : \A k \in held[x] : \E b \in group : k \in hostGrants[b] \cup GrantedTo(b)
    BY <1>1 DEF Confined
  <1>3. /\ held \in [Agent -> SUBSET Capability]
        /\ hostGrants \in [Agent -> SUBSET Capability]
    BY DEF TypeOK
  <1>4. ASSUME NEW agent \in Agent, NEW k \in Capability, Granting(agent, k)
        PROVE  \E b \in group : c \in hostGrants'[b] \cup GrantedTo(b)'
    <2>1. c \in held[a] \/ (a = agent /\ c = k)
      BY <1>3, <1>4 DEF Granting
    <2> QED
      BY <1>2, <1>4, <2>1 DEF Granting
  <1>5. ASSUME NEW from \in Agent, NEW to \in Agent, NEW list \in AuthorityList,
               Delegating(from, to, list)
        PROVE  \E b \in group : c \in hostGrants'[b] \cup GrantedTo(b)'
    <2>1. c \in held[a] \/ (a = to /\ c \in Range(list))
      BY <1>3, <1>5 DEF Delegating, DelegateAuthority
    <2>2. {from, to} \in relationships /\ Range(list) \subseteq held[from]
      BY <1>5 DEF Delegating, DelegateAuthority, PermitsDelegation
    <2>3. to \in group => from \in group
      BY <1>1, <2>2 DEF Isolated
    <2>4. \E x \in group : c \in held[x]
      BY <2>1, <2>2, <2>3
    <2> QED
      BY <1>2, <1>5, <2>4 DEF Delegating
  <1>6. ASSUME NEW agent \in Agent, NEW cs \in BaseGrant, Giving(agent, cs)
        PROVE  \E b \in group : c \in hostGrants'[b] \cup GrantedTo(b)'
    <2>1. c \in held[a] \/ (a = agent /\ c \in cs)
      BY <1>3, <1>6 DEF Giving, GrantBaseCapabilities
    <2> QED
      BY <1>2, <1>3, <1>6, <2>1 DEF Giving, GrantBaseCapabilities
  <1>7. CASE Keeping
    BY <1>2, <1>7 DEF Keeping
  <1> QED
    BY <1>4, <1>5, <1>6, <1>7, TableEffects

(* policy.py:51-54: whatever a group without relationships to the outside   *)
(* holds, the host gave or approved for one of its own members.             *)
THEOREM DelegationConfined == Spec => []Confined
  BY InitType, NextType, InitHeld, NextConfined, PTL DEF Spec
===============================================================================
