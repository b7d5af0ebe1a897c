------------------------------ MODULE FailingTrail ------------------------------
(***************************************************************************)
(* RealGovernor on a disk that may be full: _emit writes one line to a      *)
(* buffered file and flushes it (governor_process.py:170-172).  A flush     *)
(* that fails raises OSError.  Nothing in _handle or run_agent catches it:  *)
(* the request ends there, half done, the agent is killed unanswered, and   *)
(* the host still has its governor.  The line stays in the buffer and goes  *)
(* out, in order, with the next flush that succeeds, unless the buffer was  *)
(* full: then it is dropped.  The governor can also end at any moment; what *)
(* an auditor then has is OnDisk, in every state of this module.            *)
(***************************************************************************)
EXTENDS RealGovernor

CONSTANT MaxFaults   \* bound: failing writes to the trail

ASSUME FaultAssumption == MaxFaults \in Nat

VARIABLES
    durable,   \* how many lines of trace have left the buffer
    lost,      \* history: a line was dropped
    faults     \* how many writes have failed

trailVars == <<vars, durable, lost, faults>>

OnDisk == SubSeq(trace, 1, durable)

-------------------------------------------------------------------------------
(* The constructor raises when it cannot write the first three lines, and   *)
(* then there is no governor.                                               *)
TrailInit ==
    /\ Init
    /\ durable = Len(trace)
    /\ lost = FALSE
    /\ faults = 0

(* Every line of the call was flushed, and with it all that was buffered.   *)
Recorded ==
    /\ Next
    /\ durable' = IF trace' = trace THEN durable ELSE Len(trace')
    /\ UNCHANGED <<lost, faults>>

(* One of the lines of a call cannot be flushed, and ends it.               *)
KeptBack(lines) ==
    \E k \in DOMAIN lines :
        /\ trace' = trace \o SubSeq(lines, 1, k)
        /\ durable' = IF k = 1 THEN durable ELSE Len(trace) + k - 1
        /\ UNCHANGED lost

Dropped ==
    /\ durable < Len(trace)
    /\ lost' = TRUE
    /\ UNCHANGED <<trace, durable>>

FailsWriting(lines) ==
    /\ Room(Len(lines))
    /\ faults' = faults + 1
    /\ KeptBack(lines) \/ Dropped

-------------------------------------------------------------------------------
(* Each call up to the line it cannot write. *)
DeclareUnrecorded(first, second) ==
    /\ DeclareRelationship(first, second)
    /\ FailsWriting(<<DeclaredEvent(first, second)>>)
    /\ UNCHANGED <<clock, held, approvals, preapproved, seq, writer, historyVars>>

Refused(agent, op) ==
    \/ \E name \in ResourceName : op \in Operation /\ ~PermitsAccess(agent, op, name, held[agent])
    \/ \E to \in Agent, list \in AuthorityList :
           op = "delegate" /\ ~PermitsDelegation(agent, to, Range(list), held[agent])
    \/ op = "differential_query" /\ Query # {} /\ ~PermitsQuery

DenialUnrecorded(agent, op) ==
    /\ EnforcePolicy
    /\ Refused(agent, op)
    /\ seq' = seq + 1
    /\ FailsWriting(<<DeniedEvent(seq + 1, agent, op)>>)
    /\ UNCHANGED <<resources, relationships, clock, held, approvals, preapproved, writer,
                   historyVars>>

AccessUnrecorded(agent, operation, name) ==
    /\ MayAccess(agent, operation, name)
    /\ seq' = seq + 1
    /\ FailsWriting(<<AccessEvent(seq + 1, agent, name, operation)>>)
    /\ UNCHANGED <<resources, relationships, clock, held, approvals, preapproved,
                   hostGrants, issued, handed, spent>>

WriteUnrecorded(agent, name) ==
    /\ AccessUnrecorded(agent, "write", name)
    /\ writer' = [writer EXCEPT ![FileOf[name]] = agent]
    /\ UNCHANGED flows

(* A bug: the content is answered before the access is recorded. *)
ReadUnrecordedAnswered(agent, name) ==
    LET author == writer[FileOf[name]] IN
    /\ AccessUnrecorded(agent, "read", name)
    /\ author # "absent"
    /\ flows' = flows \cup (IF author \in Agent \ {agent} THEN {<<name, {author, agent}>>} ELSE {})
    /\ UNCHANGED writer

(* The content was read and the agent never gets it. *)
ReadUnrecorded(agent, name) ==
    /\ AccessUnrecorded(agent, "read", name)
    /\ writer[FileOf[name]] # "absent"
    /\ UNCHANGED <<writer, flows>>

QueryUnrecorded(query, backing) ==
    /\ EnforcePolicy => PermitsQuery
    /\ FailsWriting(<<QueryEvent(query, backing, Answer[<<backing, query>>])>>)
    /\ UNCHANGED <<resources, relationships, clock, held, approvals, preapproved, seq, writer,
                   historyVars>>

DelegationUnrecorded(from, to, authority) ==
    /\ EnforcePolicy => PermitsDelegation(from, to, Range(authority), held[from])
    /\ FailsWriting(<<DelegationEvent(from, to, authority)>>)
    /\ UNCHANGED <<resources, relationships, clock, held, approvals, preapproved, seq, writer,
                   historyVars>>

(* Bugs: the approval is given back when the grant cannot be recorded; the   *)
(* numbers are.                                                              *)
GrantUnrecordedUnpaid(agent, capability, dualToken) ==
    /\ capability \notin held[agent]
    /\ ~DualAuthRequired \/ IsApproved(agent, capability, dualToken)
    /\ FailsWriting(GrantLines(agent, capability))
    /\ seq' = seq + 2
    /\ UNCHANGED <<resources, relationships, clock, held, approvals, preapproved, writer,
                   historyVars>>

GrantUnrecordedUncounted(agent, capability, dualToken) ==
    /\ capability \notin held[agent]
    /\ ~DualAuthRequired \/ IsApproved(agent, capability, dualToken)
    /\ ConsumeToken(agent, capability, dualToken)
    /\ FailsWriting(GrantLines(agent, capability))
    /\ UNCHANGED <<held, seq>>

(* The approval is used up and nothing is granted. *)
GrantUnrecorded(agent, capability, dualToken) ==
    /\ GrantDecided(agent, capability, dualToken)
    /\ FailsWriting(GrantLines(agent, capability))
    /\ UNCHANGED held

ReflectionUnrecorded(agent, capability, dualToken) ==
    /\ ReflectionDecided(agent, capability, dualToken)
    /\ FailsWriting(ReflectionLines(agent, capability))
    /\ UNCHANGED held

Unrecorded ==
    /\ faults < MaxFaults
    /\ \/ \E p \in Declarable : DeclareUnrecorded(p[1], p[2])
       \/ \E a \in Agent :
           \/ \E op \in Operation \cup {"delegate", "differential_query"} : DenialUnrecorded(a, op)
           \/ \E name \in ResourceName : WriteUnrecorded(a, name) \/ ReadUnrecorded(a, name)
           \/ \E q \in Query, b \in Backing : QueryUnrecorded(q, b)
           \/ \E b \in Agent, list \in AuthorityList : DelegationUnrecorded(a, b, list)
           \/ \E c \in Requested, token \in handed \cup {NoToken} :
                  GrantUnrecorded(a, c, token) \/ ReflectionUnrecorded(a, c, token)

TrailNext == Recorded \/ Unrecorded

TrailSpec == TrailInit /\ [][TrailNext]_trailVars

-------------------------------------------------------------------------------
(* No agent ever has content of another that the trail on disk does not     *)
(* show it exchanged, however the trail fails, short of a dropped line; and *)
(* as long as nothing has failed Article V reports just the exchanges that  *)
(* were not declared.                                                       *)
NoSilentExchange ==
    /\ ~lost => flows \subseteq EmergentChannels(Accesses(OnDisk), {})
    /\ faults = 0 => Channels = {f \in flows : f[2] \notin relationships}

(* "each line lands on real disk as it happens" (governor_process.py:172):  *)
(* no agent holds a capability that the trail on disk and the host's base   *)
(* grants do not account for, and as long as nothing has failed they        *)
(* account for the table exactly.                                           *)
GrantedOnDisk(agent) ==
    UNION {t.authorized_grant : t \in {u \in Transitions(OnDisk) : u.agent = agent}}

DelegatedOnDisk(agent) ==
    UNION {Range(e.authority) : e \in {d \in Of(OnDisk, "delegation") : d.to = agent}}

RecordedFor(agent) == GrantedOnDisk(agent) \cup DelegatedOnDisk(agent)

HeldRecorded ==
    /\ \A a \in Agent : held[a] \subseteq hostGrants[a] \cup RecordedFor(a)
    /\ faults = 0 => HeldExplained

(* The lines on disk fit together, at whatever line they end and whatever   *)
(* failed before: parse_trace refuses them, if at all, for a line by itself *)
(* and never for how one relates to another.  That it does refuse lines by  *)
(* themselves is the finding LinesParse.                                    *)
DiskCoheres == Coherent(OnDisk)

(* An agent is recorded to have been granted a capability at most as often  *)
(* as approvals the host issued it for exactly that were used up in time;   *)
(* one recorded because its line was kept back counts as well.              *)
Grants(agent, capability) ==
    {i \in At(trace, "transition") :
        trace[i].agent = agent /\ trace[i].authorized_grant = {capability}}

Payments(agent, capability) ==
    {r \in issued : /\ Matches(r, agent, {capability})
                    /\ \E k \in DOMAIN spent : spent[k].token = r.token /\ spent[k].at < r.expires}

GrantsPaid ==
    DualAuthRequired =>
        \A a \in Agent, c \in Capability :
            Cardinality(Grants(a, c)) <= Cardinality(Payments(a, c))
===============================================================================
