------------------------------ MODULE RealGovernor ------------------------------
(***************************************************************************)
(* RealGovernor (sandbox/governor_process.py): the trusted host configures  *)
(* it and hands out approvals, agents send it requests, and it answers each *)
(* request in one call of _handle, which decides, acts on the disk, the     *)
(* capability table and the approvals, and records what it did in the audit *)
(* trail.  The supervisor is sequential (SECURITY.md:64-65), so one call is *)
(* one step; between two calls time passes and the host may do anything it  *)
(* has a method for.  A request that fails validation or meets a disk error *)
(* changes nothing and is a stuttering step.                                *)
(***************************************************************************)
EXTENDS OperationPolicy, ApprovalRegistry, Articles, AuditTrace, Functions

CONSTANTS
    EnforcePolicy,      \* enforce_policy
    DualAuthRequired,   \* dual_auth_required
    Token, NoToken,     \* the tokens an approval can draw; the absence of one
    MaxPreapproved,     \* the limit of _pending_approval_tokens (1024)
    File, FileOf,       \* files on disk, and the one each name opens
    BaseGrant,          \* the sets of capabilities the host may grant
    Requested,          \* the capabilities agents ask for and the host approves
    Declarable,         \* the pairs of agents the host may declare related
    AuthorityList,      \* the lists a delegation request may carry
    SecretLike,         \* capabilities whose label speaks of a secret
    Query, Backing,     \* queries and backing states of the mirror server
    NulText,            \* of these and of the capabilities, those with U+0000
    Answer,             \* its response, per <<backing, query>>
    MaxClock, MaxTrace  \* bounds of the model: time, and length of the trail

(* What a file holds: nothing, what the host put there, something that is   *)
(* not a private regular file, or what an agent wrote.                      *)
NotAgents == {"absent", "host", "unsafe"}

ASSUME GovernorAssumption ==
    /\ EnforcePolicy \in BOOLEAN
    /\ DualAuthRequired \in BOOLEAN
    /\ EnforcePolicy => DualAuthRequired    \* governor_process.py:91-92
    /\ NoToken \notin Token
    /\ Agent \cap NotAgents = {}
    /\ MaxPreapproved \in Nat
    /\ BaseGrant \subseteq SUBSET Capability
    /\ Requested \subseteq Capability
    /\ Declarable \subseteq Agent \X Agent
    /\ AuthorityList \subseteq Seq(Capability)
    /\ NulText \subseteq Capability \cup Query \cup Backing
    /\ Answer \in [Backing \X Query -> STRING]

(* Canonical names open distinct files; other names may be aliases.         *)
ASSUME NamesAssumption ==
    /\ FileOf \in [ResourceName -> File]
    /\ \A m, n \in Canonical : FileOf[m] = FileOf[n] => m = n

VARIABLES
    clock,       \* time.monotonic()
    held,        \* agent_capabilities; no entry is the empty set
    approvals,   \* _approvals._pending
    preapproved, \* _pending_approval_tokens, per <<agent, capability>>
    seq,         \* _seq
    trace,       \* the lines of _trace_file
    writer,      \* who wrote what each file holds
    hostGrants,  \* history: base grants
    issued,      \* history: approvals stored
    handed,      \* history: tokens that issue_authorization gave out
    spent,       \* history: uses that consume answered True to
    flows        \* history: <<name, {writer, reader}>> of content an agent read

governorVars == <<held, approvals, preapproved, seq, trace, writer>>
historyVars == <<hostGrants, issued, handed, spent, flows>>
vars == <<resources, relationships, clock, governorVars, historyVars>>

-------------------------------------------------------------------------------
Use == [token: Token, owner: Agent, scope: SUBSET Capability, at: Nat]

Room(n) == Len(trace) + n <= MaxTrace

Init ==
    /\ PolicyInit
    /\ clock = 0
    /\ held = [a \in Agent |-> {}]
    /\ approvals = {}
    /\ preapproved = [p \in Agent \X Capability |-> NoToken]
    /\ seq = 0
    /\ trace = <<InitEvent(Entry), StateEvent(Entry, {}, {}), RootEvent({"fs:read", "fs:write"})>>
    /\ writer \in [File -> NotAgents]
    /\ hostGrants = [a \in Agent |-> {}]
    /\ issued = {}
    /\ handed = {}
    /\ spent = << >>
    /\ flows = {}

Tick ==
    /\ clock < MaxClock
    /\ clock' = clock + 1
    /\ UNCHANGED <<resources, relationships, governorVars, historyVars>>

-------------------------------------------------------------------------------
(* The trusted host. *)
GrantBaseCapabilities(agent, capabilities) ==
    /\ held' = [held EXCEPT ![agent] = @ \cup capabilities]
    /\ hostGrants' = [hostGrants EXCEPT ![agent] = @ \cup capabilities]
    /\ UNCHANGED <<resources, relationships, clock, approvals, preapproved, seq, trace, writer,
                   issued, handed, spent, flows>>

GrantResourceAccess(agent, name, operations) ==
    /\ AllowResource(agent, name, operations)
    /\ UNCHANGED <<clock, governorVars, historyVars>>

DeclareAgents(first, second) ==
    /\ Room(1)
    /\ DeclareRelationship(first, second)
    /\ trace' = Append(trace, DeclaredEvent(first, second))
    /\ UNCHANGED <<clock, held, approvals, preapproved, seq, writer, historyVars>>

(* A bug: tokens repeat. *)
FreshOrNot(token) == TRUE

(* secrets.token_urlsafe never returns a token twice. *)
Fresh(token) == \A r \in issued : r.token # token

(* CapabilityApprovals.issue, called by the methods below: what it stores   *)
(* and the history of it, or only the pruning when it raises.               *)
Approved(token, agent, capability, ttl) ==
    [token |-> token, owner |-> agent, scope |-> {capability}, expires |-> clock + ttl]

Issue(token, agent, capability, ttl) ==
    LET live == Live(approvals, clock)
        new == Approved(token, agent, capability, ttl)
    IN /\ ValidTtl(ttl)
       /\ Fresh(token)
       /\ HasRoom(live)
       /\ approvals' = live \cup {new}
       /\ issued' = issued \cup {new}

(* issue_authorization: the token goes to the agent. *)
IssueAuthorization(token, agent, capability, ttl) ==
    /\ Issue(token, agent, capability, ttl)
    /\ handed' = handed \cup {token}
    /\ UNCHANGED <<resources, relationships, clock, held, preapproved, seq, trace, writer,
                   hostGrants, spent, flows>>

(* approve_capability: the governor keeps the token. *)
ApproveCapability(token, agent, capability, ttl) ==
    /\ Cardinality({p \in Agent \X Capability : preapproved[p] # NoToken}) < MaxPreapproved
    /\ Issue(token, agent, capability, ttl)
    /\ preapproved' = [preapproved EXCEPT ![<<agent, capability>>] = token]
    /\ UNCHANGED <<resources, relationships, clock, held, seq, trace, writer,
                   hostGrants, handed, spent, flows>>

(* Either raises "too many outstanding approvals" after it has pruned. *)
IssueRefused ==
    LET live == Live(approvals, clock) IN
    /\ ~HasRoom(live)
    /\ approvals' = live
    /\ UNCHANGED <<resources, relationships, clock, held, preapproved, seq, trace, writer,
                   historyVars>>

-------------------------------------------------------------------------------
(* The agents: one request, handled by _handle.  Each operation's guard is  *)
(* the decision of permits; where permits refuses, under enforcement, the   *)
(* denial is recorded and nothing else happens.                             *)
Deny(agent, op) ==
    /\ EnforcePolicy
    /\ Room(1)
    /\ seq' = seq + 1
    /\ trace' = Append(trace, DeniedEvent(seq + 1, agent, op))
    /\ UNCHANGED <<resources, relationships, clock, held, approvals, preapproved, writer,
                   historyVars>>

DenyAccess(agent, operation, name) ==
    /\ ~PermitsAccess(agent, operation, name, held[agent])
    /\ Deny(agent, operation)

DenyDelegation(agent, to, authority) ==
    /\ ~PermitsDelegation(agent, to, Range(authority), held[agent])
    /\ Deny(agent, "delegate")

DenyQuery(agent) == ~PermitsQuery /\ Deny(agent, "differential_query")

(* A bug: the access lists are not consulted. *)
MayAccessByCapability(agent, operation, name) ==
    /\ Room(1)
    /\ EnforcePolicy => FsCapability(operation) \in held[agent]
    /\ ValidResourceName(name)
    /\ writer[FileOf[name]] # "unsafe"

(* What both resource operations ask before they touch the disk, and the    *)
(* event they write when the disk has done what was asked.                  *)
MayAccess(agent, operation, name) ==
    /\ Room(1)
    /\ EnforcePolicy => PermitsAccess(agent, operation, name, held[agent])
    /\ ValidResourceName(name)
    /\ writer[FileOf[name]] # "unsafe"

RecordAccess(agent, operation, name) ==
    /\ seq' = seq + 1
    /\ trace' = Append(trace, AccessEvent(seq + 1, agent, name, operation))
    /\ UNCHANGED <<resources, relationships, clock, held, approvals, preapproved,
                   hostGrants, issued, handed, spent>>

WriteResource(agent, name) ==
    /\ MayAccess(agent, "write", name)
    /\ writer' = [writer EXCEPT ![FileOf[name]] = agent]
    /\ RecordAccess(agent, "write", name)
    /\ UNCHANGED flows

ReadResource(agent, name) ==
    LET author == writer[FileOf[name]] IN
    /\ MayAccess(agent, "read", name)
    /\ author # "absent"
    /\ flows' = flows \cup (IF author \in Agent \ {agent} THEN {<<name, {author, agent}>>} ELSE {})
    /\ RecordAccess(agent, "read", name)
    /\ UNCHANGED writer

(* _differential_query: reachable only without enforcement. *)
DifferentialQuery(query, backing) ==
    /\ Room(1)
    /\ EnforcePolicy => PermitsQuery
    /\ trace' = Append(trace, QueryEvent(query, backing, Answer[<<backing, query>>]))
    /\ UNCHANGED <<resources, relationships, clock, held, approvals, preapproved, seq, writer,
                   historyVars>>

(* _delegate: without enforcement the edge is recorded and nobody's table   *)
(* entry changes.                                                           *)
DelegateAuthority(from, to, authority) ==
    /\ Room(1)
    /\ EnforcePolicy => PermitsDelegation(from, to, Range(authority), held[from])
    /\ trace' = Append(trace, DelegationEvent(from, to, authority))
    /\ held' = IF EnforcePolicy THEN [held EXCEPT ![to] = @ \cup Range(authority)] ELSE held
    /\ UNCHANGED <<resources, relationships, clock, approvals, preapproved, seq, writer,
                   historyVars>>

-------------------------------------------------------------------------------
(* A bug: the token the agent sends comes first. *)
TokenSentFirst(agent, capability, dualToken) ==
    IF dualToken # NoToken THEN dualToken ELSE preapproved[<<agent, capability>>]

(* _request_capability.  A preapproval for the pair is taken out and used   *)
(* in place of the token the agent sent; either is consumed even when the   *)
(* agent already holds what it asks for.                                    *)
TokenUsed(agent, capability, dualToken) ==
    IF preapproved[<<agent, capability>>] # NoToken THEN preapproved[<<agent, capability>>] ELSE dualToken

IsApproved(agent, capability, dualToken) ==
    Accepts(approvals, TokenUsed(agent, capability, dualToken), agent, {capability}, clock)

(* A bug: the preapproval is looked up and not taken out. *)
ConsumeTokenLeftBehind(agent, capability, dualToken) ==
    LET token == TokenUsed(agent, capability, dualToken)
        use == [token |-> token, owner |-> agent, scope |-> {capability}, at |-> clock]
    IN /\ approvals' = AfterConsume(approvals, token, agent, {capability}, clock)
       /\ spent' = IF IsApproved(agent, capability, dualToken) THEN Append(spent, use) ELSE spent
       /\ UNCHANGED <<resources, relationships, clock, preapproved, writer, hostGrants, issued,
                      handed, flows>>

ConsumeToken(agent, capability, dualToken) ==
    LET token == TokenUsed(agent, capability, dualToken)
        use == [token |-> token, owner |-> agent, scope |-> {capability}, at |-> clock]
    IN /\ preapproved' = [preapproved EXCEPT ![<<agent, capability>>] = NoToken]
       /\ approvals' = AfterConsume(approvals, token, agent, {capability}, clock)
       /\ spent' = IF IsApproved(agent, capability, dualToken) THEN Append(spent, use) ELSE spent
       /\ UNCHANGED <<resources, relationships, clock, writer, hostGrants, issued, handed, flows>>

RequestHeld(agent, capability, dualToken) ==
    /\ capability \in held[agent]
    /\ ConsumeToken(agent, capability, dualToken)
    /\ UNCHANGED <<held, seq, trace>>

(* What either outcome decides, uses up and counts before the first of its   *)
(* lines is written, and the lines.                                          *)
GrantDecided(agent, capability, dualToken) ==
    /\ capability \notin held[agent]
    /\ ~DualAuthRequired \/ IsApproved(agent, capability, dualToken)
    /\ Room(3)
    /\ ConsumeToken(agent, capability, dualToken)
    /\ seq' = seq + 2

GrantLines(agent, capability) ==
    LET src == Pre(agent, seq + 1)
        dst == Post(agent, seq + 2)
    IN <<StateEvent(src, held[agent], {}),
         StateEvent(dst, held[agent] \cup {capability}, {}),
         TransitionEvent(src, dst, agent, {capability}, {})>>

RequestGranted(agent, capability, dualToken) ==
    /\ GrantDecided(agent, capability, dualToken)
    /\ trace' = trace \o GrantLines(agent, capability)
    /\ held' = [held EXCEPT ![agent] = @ \cup {capability}]

(* synthesize_objective_mirror, for the objective "obtain <capability>":    *)
(* the facts it makes up depend only on whether the label speaks of secrets.*)
ApparentFacts(capability) ==
    IF capability \in SecretLike THEN {"secret-exfiltrated"} ELSE {"apparent-privilege"}

ReflectionDecided(agent, capability, dualToken) ==
    /\ capability \notin held[agent]
    /\ DualAuthRequired /\ ~IsApproved(agent, capability, dualToken)
    /\ Room(3)
    /\ ConsumeToken(agent, capability, dualToken)
    /\ seq' = seq + 1

ReflectionLines(agent, capability) ==
    LET src == Pre(agent, seq + 1)
        mirror == Mirror(src, capability)
        facts == ApparentFacts(capability)
    IN <<StateEvent(src, held[agent], {}),
         StateEvent(mirror, held[agent], facts),
         TransitionEvent(src, mirror, agent, {}, facts)>>

RequestReflected(agent, capability, dualToken) ==
    /\ ReflectionDecided(agent, capability, dualToken)
    /\ trace' = trace \o ReflectionLines(agent, capability)
    /\ UNCHANGED held

RequestCapability(agent, capability, dualToken) ==
    \/ RequestHeld(agent, capability, dualToken)
    \/ RequestGranted(agent, capability, dualToken)
    \/ RequestReflected(agent, capability, dualToken)

-------------------------------------------------------------------------------
Host ==
    \/ \E a \in Agent :
        \/ \E capabilities \in BaseGrant : GrantBaseCapabilities(a, capabilities)
        \/ \E name \in ResourceName, operations \in SUBSET Operation :
               GrantResourceAccess(a, name, operations)
        \/ \E c \in Requested, token \in Token, ttl \in 0 .. MaxTtl + 1 :
               \/ IssueAuthorization(token, a, c, ttl)
               \/ ApproveCapability(token, a, c, ttl)
    \/ \E p \in Declarable : DeclareAgents(p[1], p[2])
    \/ IssueRefused

Requests ==
    \E a \in Agent :
        \/ \E op \in Operation, name \in ResourceName : DenyAccess(a, op, name)
        \/ \E b \in Agent, list \in AuthorityList : DenyDelegation(a, b, list)
        \/ \E q \in Query : DenyQuery(a)
        \/ \E name \in ResourceName : WriteResource(a, name) \/ ReadResource(a, name)
        \/ \E q \in Query, b \in Backing : DifferentialQuery(q, b)
        \/ \E b \in Agent, list \in AuthorityList : DelegateAuthority(a, b, list)
        \/ \E c \in Requested, token \in handed \cup {NoToken} : RequestCapability(a, c, token)

Next == Tick \/ Host \/ Requests

Spec == Init /\ [][Next]_vars

-------------------------------------------------------------------------------
StateIds ==
    {Entry} \cup [kind: {"pre", "post"}, agent: Agent, n: Nat]
            \cup [kind: {"mirror"}, src: [kind: {"pre"}, agent: Agent, n: Nat],
                  capability: Capability]

Facts == {"secret-exfiltrated", "apparent-privilege"}

Event ==
    [type: {"init"}, state_id: StateIds]
    \cup [type: {"state"}, id: StateIds, capabilities: SUBSET Capability, knowledge: SUBSET Facts]
    \cup [type: {"transition"}, src: StateIds, dst: StateIds, agent: Agent,
          authorized_grant: SUBSET Capability, disclosed_grant: SUBSET Facts]
    \cup [type: {"resource_access"}, seq: Nat, agent: Agent, resource: ResourceName, op: Operation]
    \cup [type: {"delegation"}, from: Agent, to: Agent, authority: AuthorityList]
    \cup [type: {"differential_query"}, query: Query, backing: Backing, response: STRING]
    \cup [type: {"declared_relationship"}, agents: Agent \X Agent]
    \cup [type: {"root_authority"}, capabilities: SUBSET Capability]
    \cup [type: {"operation_denied"}, seq: Nat, agent: Agent,
          op: {"read", "write", "delegate", "differential_query"}]

(* Types; the registry stays a dictionary, with one entry per token. *)
TypeOK ==
    /\ PolicyTypeOK
    /\ clock \in Nat
    /\ held \in [Agent -> SUBSET Capability]
    /\ approvals \subseteq issued
    /\ \A r, q \in issued : r.token = q.token => r = q
    /\ preapproved \in [Agent \X Capability -> Token \cup {NoToken}]
    /\ seq \in Nat
    /\ trace \in Seq(Event)
    /\ writer \in [File -> Agent \cup NotAgents]
    /\ hostGrants \in [Agent -> SUBSET Capability]
    /\ issued \subseteq Approval(Token, Agent, SUBSET Capability)
    /\ handed \subseteq Token
    /\ spent \in Seq(Use)
    /\ flows \subseteq ResourceName \X SUBSET Agent

-------------------------------------------------------------------------------
(* README.md:87-88, sharing "must" be declared "before granting both agents *)
(* access": two agents on the access lists of one name are related, in      *)
(* whatever order entries are added, replaced and relationships declared.    *)
SharersRelated ==
    \A a, b \in Agent, n \in ResourceName :
        a # b /\ resources[<<a, n>>] # {} /\ resources[<<b, n>>] # {} => {a, b} \in relationships

(* Enforcement keeps Article V: content never passes between two agents     *)
(* whose relationship was not declared.                                     *)
NoUndeclaredFlow == EnforcePolicy => \A f \in flows : f[2] \in relationships

(* The auditor reads the same off the trail alone: under enforcement the    *)
(* channel check never has anything to report.                              *)
Channels == EmergentChannels(Accesses(trace), DeclaredPairs(trace))

ChannelClean == EnforcePolicy => Channels = {}

-------------------------------------------------------------------------------
(* A token the governor keeps for a preapproval is one it issued for that   *)
(* agent and capability; as long as it has not expired it is still          *)
(* redeemable, since no one else can spend or displace it.                  *)
PreapprovalBacked ==
    \A a \in Agent, c \in Capability :
        preapproved[<<a, c>>] # NoToken =>
            \E r \in issued :
                /\ r.token = preapproved[<<a, c>>]
                /\ Matches(r, a, {c})
                /\ ~Expired(r, clock) => r \in approvals

(* approve_capability, "Preapprove the next matching request": while the    *)
(* preapproval is good the next request for it is granted, whatever token   *)
(* the agent sends along.                                                   *)
PreapprovalHonoured ==
    [][\A a \in Agent, c \in Capability :
          /\ \E r \in Lookup(approvals, preapproved[<<a, c>>]) : ~Expired(r, clock)
          /\ \E token \in handed \cup {NoToken} : RequestCapability(a, c, token)
          => c \in held'[a]]_vars

-------------------------------------------------------------------------------
(* What the trail says an agent was granted, and was delegated. *)
GrantedTo(agent) ==
    UNION {t.authorized_grant : t \in {u \in Transitions(trace) : u.agent = agent}}

DelegatedTo(agent) ==
    UNION {Range(e.authority) : e \in {d \in Of(trace, "delegation") : d.to = agent}}

(* The trail and the host's base grants account for every capability, no    *)
(* more and no less: an auditor can rebuild the governor's table.           *)
HeldExplained ==
    \A a \in Agent :
        held[a] = hostGrants[a] \cup GrantedTo(a)
                     \cup (IF EnforcePolicy THEN DelegatedTo(a) ELSE {})

(* Delegation moves capabilities only along declared relationships and      *)
(* creates none: a group with no relationship to the outside holds nothing  *)
(* that the host did not give or approve for one of its own members.        *)
Isolated(group) == \A pair \in relationships : pair \subseteq group \/ pair \cap group = {}

Confined ==
    EnforcePolicy =>
        \A group \in SUBSET Agent :
            Isolated(group) =>
                \A a \in group : \A c \in held[a] :
                    \E b \in group : c \in hostGrants[b] \cup GrantedTo(b)

-------------------------------------------------------------------------------
(* README.md:98-99: a token of issue_authorization is "accepted as          *)
(* dual_token on a matching request".                                       *)
DualTokenHonoured ==
    [][\A a \in Agent, c \in Capability, token \in handed :
          /\ Accepts(approvals, token, a, {c}, clock)
          /\ RequestCapability(a, c, token)
          => c \in held'[a]]_vars

(* The texts of requests that a line quotes; _bounded_text has let them all *)
(* pass.  A reflection names the capability in its action, which here is in *)
(* the mirror's id; apparent_success has only the repr of it, and the facts *)
(* of a capability request do not quote it.                                 *)
QuotedTexts(e) ==
    CASE e.type = "state" -> e.capabilities
      [] e.type = "transition" ->
             e.authorized_grant \cup {c \in Capability : e.dst = Mirror(e.src, c)}
      [] e.type = "delegation" -> Range(e.authority)
      [] e.type = "differential_query" -> {e.query, e.backing}
      [] OTHER -> {}

(* governor_process.py:1-3: every event is "in the exact schema" that       *)
(* parse_trace accepts: no line that it refuses by itself, for a U+0000 in  *)
(* a string (trace.py:162) or in a list (trace.py:139), or for a list that  *)
(* repeats a value (trace.py:141).                                          *)
LinesParse ==
    /\ DistinctListValues(trace)
    /\ \A i \in DOMAIN trace : QuotedTexts(trace[i]) \cap NulText = {}
===============================================================================
