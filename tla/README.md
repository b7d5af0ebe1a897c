# Mirror Constitution: models, checks and proofs

This directory holds TLA+ models of the Python package `mirror_constitution` (under `src/`), the
TLC configurations that check them on small instances, and theorems about them that TLAPS checks
for every value of the constants. `PROJECT.json` lists the runs, the definition-to-source map, the
mutants that each property catches, the hazards, the findings and the theorems.

To check a run: `tlc -workers 2 -config MCSharing.cfg MCRealGovernor.tla`.
To check the proofs: `tlapm RealGovernorProofs.tla` (and the other `*Proofs.tla`).

## 1. The system

The package confines agents. Trusted host code configures a governor and hands out approvals; the
agents are not trusted. What an agent may not have is not refused but *reflected*: the agent is
routed to a mirror, a state that looks like success and carries no capability. Everything is written
down, and a separate set of checks (the Articles) judges the record without trusting the governor.

    host ──configures, approves──▶ RealGovernor ◀──requests, one JSON line each── agents
                                   │  │  └─ disk: one file per resource name
                                   │  └─ CapabilityApprovals, OperationPolicy
                                   └─ audit trail (JSON lines) ─▶ parse_trace ─▶ Articles ─▶ report

    host ──calls──▶ ReflectiveWeavePolicy ─ one in-memory Governor per strand
                     └─ crossings, graphs ─▶ Articles I, II, III

| Component (source) | State it keeps | Operations | What is hard | What makes it correct |
|---|---|---|---|---|
| Capability approvals (`authorization.py`) | `_pending`: digest → (owner, scope, expiry); a lock | `issue`, `consume` | called from several threads; `issue` reads the clock before it takes the lock, rebuilds the table from a copy, and may raise inside the lock | each approval is honoured at most once, for its owner and exact scope, before it expires; none that is good is lost, none that is gone returns; the lock is given back |
| Operation policy (`sandbox/policy.py`) | access lists per (agent, name); relationships | `allow_resource`, `declare_relationship`, `permits` | entries and declarations in any order, entries replaced; several spellings of one file | two agents listed for one name are related |
| Real governor (`sandbox/governor_process.py`) | capability table, approvals, kept preapprovals, sequence counter, trail, disk | host: base grants, resource access, relationships, `issue_authorization`, `approve_capability`; agents: read, write, delegate, query, request a capability | long sequences of legal calls; tokens of two kinds for one request; a counter shared by four kinds of event; restarts on an old disk | content flows only between declared agents; every grant is paid for; the trail is parseable, explains the table, and the Articles that should be silent are |
| Audit trail and parser (`trace.py`) | a buffered file; a bundle per parse | `_emit`, `parse_trace` | a write that fails half-way through a call, or whose line goes out later; conditions across lines: unique ids, increasing numbers, ends of transitions; conditions on a line by itself | the lines on disk fit together and account for what was done; no line is refused by itself (it can be, finding 2); the parser collects all of a trace or refuses it |
| Containment graph (`state.py`) | states, transitions | `add_state`, `add_transition`, `state` | `add_transition` raises half-way through a route | a valid graph: one state per id, both ends known |
| Mirrors (`mirrors.py`) | none | synthesize, render, `authorize_reentry` | ids are digests of some of the inputs | a mirror carries no capability |
| In-memory governor (`governor.py`), reflective weave (`reflective_weave.py`) | a graph, approvals and objectives per strand; crossings | `set_objective`, `issue_authorization`, `reflect`, `authorize`, `reenter`, `route`, `cross` | a token is spent before the route can fail; ids reused; several strands | a grant needs its own approval, in its own strand; what the Articles report is only what a reused id explains |
| Articles I, II, III, V, VI (`invariants/*.py`) | none | one check each | order of accesses and of hops; counting apart what varies together | each reports exactly what it is defined to report |
| Article IV (`invariants/evaluator_trust.py`) | none | two filters over single records | which records it is given | part of the engine's verdict |
| Living weave (`living_weave.py`) | strands, a revision | `add_strand`, `evaluate` | a guard calls back into the weave | fail closed: allowed only if every strand as registered allows |
| Agent loop (`run_agent`), protocol (`sandbox/agent_runtime.py`) | buffers, deadline, request count, exit code | a selector loop against a live process | any order of exit, end of output, unread responses, limits, death | finite, and the child is always reaped; what it reports is what happened |
| Engine, report (`engine.py`, `cli.py`) | the evidence supplied | article status, verdict, exit code | evidence that is absent or empty, or grows after a verdict | nothing unevaluated reads as passed; no accusation is taken back |
| Mirror server (`sandbox/mirror_server.py`) | none | answers per backing state | I/O | |
| Kernel containment (`sandbox/kernel_containment.py`, `sandbox/kernel_lockdown.py`) | the process's layers | a chain of tools (limits, namespaces, mounts, privileges) and a bootstrap (seccomp) before the agent's code | any stage fails, hangs or is killed | no agent code without every layer |

Interactions: the governor calls the policy (`permits`, `allow_resource`) and the approvals
(`issue`, `consume`) and writes the trail; it builds mirrors by the function the in-memory governor
uses; the weave owns one in-memory governor per strand and hands its crossings to Article II; the
engine hands parsed evidence to the Articles. Only the approvals are shared by threads: the
supervisor itself is sequential (`SECURITY.md:64-65`).

The hazards, each at its line with the properties that watch it, are in `PROJECT.json`.

## 2. The modules

| Module | Models | State and actions against the code |
|---|---|---|
| `Approvals` | the promise of `authorization.py` (abstract) | approvals issued and uses honoured; no lock, no table |
| `ApprovalRegistry` | `_pending` and what issue and consume do to it | pure operators: `Live` (the pruning), `HasRoom`, `Accepts`, `AfterConsume`; shared by the three modules below |
| `CapabilityApprovals` | the class, by concurrent threads | `IssueCall` (clock read, no lock) – `IssuePrune` – `IssueStore`/`IssueRefuse`; `ConsumeLookup` – `ConsumeAccept`/`ConsumeReject`. The lock is a variable, and each read and each write of `_pending` is a step of its own. `PromiseSpec` is the refinement |
| `OperationPolicy` | `policy.py` | `resources`, `relationships`; `AllowResource`, `DeclareRelationship`; `PermitsAccess`, `PermitsDelegation`, `PermitsQuery` |
| `AuditTrace` | the lines of a trail, extraction and refusals of `trace.py` | one record per line; `Coherent` is what `parse_trace` asks of the lines together, `Accepted` adds that no list repeats a value; which texts a line may carry is left to its producer (`LinesParse` for the governor) |
| `Ascending` | `sorted` over numbers that differ | the members of a finite set of numbers by rank; used where the code orders accesses, and for the order of delegations |
| `Articles` | Articles I to VI | each check as the set (or, for VI, the sequence) of violations |
| `RealGovernor` | the governor with policy, approvals, disk and trail | one action per host method and per request kind, split at the outcomes of `_handle`: denied, held already, granted, reflected |
| `FailingTrail` | the same on a disk that may be full (extends `RealGovernor`) | `Recorded` is a step of `RealGovernor` whose lines all reach the disk; one action per call that writes (`GrantUnrecorded`, `WriteUnrecorded`, ...) leaves the call at the line that cannot be written, with what it has done by then; `OnDisk` is the trail as it is outside the process |
| `Evidence` | accumulating evidence, and the loops of V and VI as written | `Counts`/`Messages` is the loop of `channel.py`; the walk of `chainmail.py` is `Articles!ExpandingDelegations` |
| `Engine` | `engine.py`, `cli.py` and the loop of `parse_trace` (extends `Evidence`, `AuditTrace`) | `WriteLine` lengthens a trace of any origin, `HandOver` is a step of `Evidence`; `ParseTrace` is the loop, a recursive function over the lines (`Collected`) whose step is `ReadLine`, with one operator per event type; `FromBundle`, `Evaluated`, `Violated`, `Status`, `Overall`, `Main` are the engine and the command line |
| `Strands` | the weave and its in-memory governors | `Route` is `route`; `Reflect`, `AuthorizeGranted`, `AuthorizeReflected`, `Reenter`, `Cross`, `SetObjective`, `IssueAuthorization` |
| `LivingWeave` | the living weave, its guards and its caller | `AddStrand`; `Evaluate` – `Vote`, one per guard – `Conclude`, or `Refuse` when nobody is asked; `calls` is the stack of evaluations in progress; `Change` is the caller's dictionary changing |
| `AgentLoop` | the selector loop of `run_agent` and an arbitrary agent | `pc` is where the loop is: `Check` (the deadline), `Select`, one action per event of a batch (`Write`, `WriteBroken`, `ReadErrors`, `EndOfErrors`, `ReadOutput`, `EndOfOutput`), one per line of the buffer (`HandleLine`, `RefuseLine`), `Wait`, `Cleanup`; the agent is `Say`, `Complain`, `Listen`, `HangUp`, `Exit` |
| `HardenedRun` | `run_agent` with the process it starts (extends `AgentLoop`) | `stage` and `layers` say how far the chain of `build_hardened_argv` and the bootstrap have come (`Advance`, `Die`); `Process` is what of `AgentLoop`'s agent the stage allows; `Report` is what becomes of the exit code (`governor_process.py:306-311`) |
| `MC*` | values of the constants for TLC | |
| `*Proofs` | theorems and lemmas | |

How one call of the code becomes one step. In `CapabilityApprovals` a call takes several steps, since
threads interleave there. In `RealGovernor` and `Strands` a call is one step, because one trusted
thread makes the calls one after another and nothing else touches the state. A call with several
effects keeps them together: a granted request consumes a token, takes out a preapproval, moves
the counter by two, writes three lines and updates the table in one action, as `_request_capability`
does. A call that fails part-way leaves what the code leaves: a full table is pruned before `issue`
raises (`IssueRefused`), and a route from an unknown state leaves the new state and the spent token
(`Route` with `SourceKnown` false). Requests that fail validation and disk errors before the access
is made change nothing and are stuttering steps. In `FailingTrail` a call can also end at any line it writes:
nothing catches the `OSError` of `_emit`, so the agent is killed unanswered and the host keeps its governor.

Abstractions. Tokens are model values that are drawn once (`secrets.token_urlsafe`), and the digest
is injective on them. Names of resources are a set, of which the canonical ones are those that
`valid_resource_name` accepts; `FileOf` is the file system's choice of file per name, aliases
included, with distinct files for distinct canonical names (`NamesAssumption`). What a file holds
is who wrote it. Ids of states are records of what the code puts in the string or the digest.
Mirror facts keep the keyword class only. Time is an integer that moves between calls. Lists made by
`sorted(set)` are sets; the list of a delegation stays a list, because the governor writes the one it
was sent.

`AgentLoop` counts its data: a line on a pipe is some fragments and an end that says whether the line
is a request, an exit or nothing valid, and a response is a number of units. What is in a request is
`RealGovernor`'s affair: a request of that module is what `HandleLine` does here.

`FailingTrail` keeps the lines in the order they were written and counts how many of them are `durable`.
A line whose flush fails stays in the buffer of the file object and goes out, in order, with the next flush
that succeeds; once something is in the buffer a failing write can also drop its line (`lost`). Lines are
whole: a last line torn in the middle, and lines longer than the buffer of 8 KB, are left out. The process
can end at any moment, and what an auditor then has is `OnDisk`, which the properties speak of in every
state. A restart is `Init` again: it starts from any content of the files, with empty tables, an empty trail and
no memory of who wrote the files (`writer`). What passes from an agent of one run to one of the next through a file that
survived is therefore outside `NoSilentExchange`: the new trail has no line of the write.

In `HardenedRun` a stage ends with an exit code or a signal; 1 stands for every code that a tool fails with (mount's
32, the 127 of a failed `exec`). A mount killed by a signal reaches the governor as an exit code, since the shell makes one
of it; a signal that kills the shell itself or a later stage comes through `unshare` as that signal. `unshare` holds the pipes until the chain is over, so that a hardened agent closes nothing
for good and leaves no child behind. The code an agent gives to `sys.exit` is reduced modulo 256.

History variables (`issued`, `accepted`, `spent`, `handed`, `hostGrants`, `flows`, the field
`returned` of an edge) record what happened and no guard reads them, with two exceptions: a token is
fresh if none with that value was issued, and an agent can present only tokens that were `handed`
out (one it guessed would be one that no table has, which is the case `NoToken`).

Each `A bug: ...` definition is an operator no action uses. `PROJECT.json` lists, for every property
of every passing run, one that replaces a definition of the model and makes TLC report that property.

## 3. The runs

All runs are exhaustive. `CHECK_DEADLOCK FALSE` is set in the configurations where time, tokens, the
trail or the graphs are bounded: when a bound is used up the model stops, where the program would
wait for its next call.

| Run | Question and answer |
|---|---|
| `MCCapabilityApprovals` | Two threads issue and consume at once, a table of two, three tokens, two owners, two scopes of which one contains the other. `OneUse`, `NoLiveApprovalLost`, `NoRevival` hold, and the class implements `Approvals` (`PromiseSpec`), whose uses are in time, by the owner and for the scope. |
| `MCSharing` | Under enforcement, with access lists, relationships and delegations in any order, an alias of the file's name and one write to the trail that fails: does content flow only between declared agents (`SharersRelated`, `NoUndeclaredFlow`), does Article V stay silent (`ChannelClean`), does a group without relationships hold only what was given to it (`Confined`), does what is on disk account for the capability table (`HeldRecorded`)? Yes. |
| `MCApprovals` | Tokens handed out, tokens kept as preapprovals, requests with either, time passing, and one write that fails between any two lines: is every recorded grant paid for by a use of its own (`GrantsPaid`), is a kept preapproval good and honoured (`PreapprovalBacked`, `PreapprovalHonoured`), do the lines on disk fit together at whatever line they end (`DiskCoheres`)? Yes. |
| `MCOpenDemo` | Without enforcement and dual authorization, with up to two failing writes: does nobody get another's content without the trail on disk showing the exchange, and are the channels Article V reads off the trail exactly the undeclared exchanges while nothing has failed (`NoSilentExchange`)? Yes, short of a line that was dropped. |
| `MCEvidence` | Artifacts handed over: the loop of Article V against a declarative definition over all sets of up to four accesses (later accesses and declarations withdraw no alarm); the walk of Article VI against "traces back to the root" by an explicit path of earlier hops, for every chain of up to four; counting responses and backing states apart against two answers that differ in both. A trace of any origin, after every line: the loop of `parse_trace` against the conditions of `AuditTrace` on the whole (`ParseExact`), an article is reported exactly when there is evidence for it (`NothingOmittedIsGreen`), a pass of Articles I and III explains every path (`PathsExplained`), what an article reports of an accepted beginning of the trace it still reports at its end, whether or not the traces in between were accepted (`VerdictStands`; the exception are lines that declare something). They hold. |
| `MCStrands` | Crossings, reflections with objectives and extra facts, re-entries, expiry, and tokens tried on the wrong strand, agent or grant, with calls that fail half-way: graphs stay valid (`TypeOK`), `GrantsNeedApprovals`, `NoUnapprovedLanding`, Article II reports no crossing it can look up (`WeaveClean`), and what Articles I and III report is only what a reused id or a re-entry explains (`OnlyReusedIds`). |
| `MCLivingWeave` | Guards that register a strand, evaluate again or change the caller's dictionary while an evaluation runs: does a decision allow exactly when every strand registered by then allowed the frozen action (`AllowedUnanimous`, `RefusalExplained`), and is every guard asked (`AllHeard`)? Yes. |
| `MCAgentLoop` | A process, hardened or not, that fails at any stage, writes, reads, complains, hangs up and exits at any moment, also within a line. Do buffers keep their limits (`Bounded`), does no event of a batch meet a pipe that an earlier one closed (`EventsLive`), is the agent's input closed exactly when nothing more can be said (`StdinClosedInTime`), does an exit code mean a whole conversation (`WholeConversation`), is nothing heard of a hardened process that lacks a layer (`RunsConfined`), is what `run_agent` returns or raises what happened to the process itself (`ReportedTruly`), and does it come to its end with the group killed and all pipes closed, whatever the agent does or fails to do (`Finite`)? Yes. |

Four more runs are findings, where TLC shows a line of the documentation or of a docstring to
disagree with the code; see section 6.

Bounds, and why they are enough.

- *Time* goes to 1 or 2 and an approval lives 1 or 2: before, at and after expiry all occur, and a
  reading of the clock can be old by as much as a lifetime. Runs about files and delegation
  have no use of time and keep it at 0.
- *Approvals*: the limit of 1024 is 2 (or 1), so that the table is full, refuses, is pruned and has
  room again. Three tokens are one more than the limit. Lifetimes `0` and `MaxTtl + 1` are tried and
  refused. `MaxPreapproved` of `MCApprovals` is 1, so that the limit of kept preapprovals is reached.
- *Threads*: two. An interference is between two critical sections or between one and a clock reading
  before it. The theorems hold for any number.
- *Trail* (`MaxTrace`): three lines are written at the start. `MCSharing` has room for three events,
  enough for a declaration, a write and a read, or a declaration, a hop and what comes of it, and at most one
  of them a denial (`OneDenialSpec`), which changes nothing but the counter;
  `MCOpenDemo` for four, so that a second writer can come between, or for a request of three lines and
  a delegation; `MCApprovals` for two requests of three lines.
  `OpenSpec` of `MCOpenDemo` keeps the access lists empty, which nothing consults without enforcement.
- *Failing writes* (`MaxFaults`): one in `MCSharing` and `MCApprovals`, where a line is kept back at any place
  of a call and goes out with a later one; two in `MCOpenDemo`, so that a line can also be dropped while another
  waits. The theorems on `FailingTrail` hold for any number. In the runs that are findings nothing fails.
- *Agents*: three where a third can come between two (files, delegation), otherwise two. Longer chains of
  delegation, like more agents, are in the theorems.
- *Graphs* (`MaxEdges`): two transitions and as many states beside the entries over all strands, which
  is a call on each strand, a call and its repetition, or a call and a crossing into that graph. `NarrowSpec`
  leaves out what would multiply these without meeting: objectives, extra facts and time come on one
  strand (`Alone`), the second strand and its crossings without them (`Plain`).
- *Evidence*: four accesses (write, write, read, read) of three agents on two resources, so that
  resources interleave; four hops, so that a capability can go out and come back; for queries, two
  queries, three backing states and two responses, so that responses coincide for different backings. Each
  check reads one kind of evidence, so `OneKind` keeps a behaviour to one kind.
- *Traces*: every sequence of up to five of the lines of a graph (an initial state, two states each with two
  definitions, transitions forth, back and in place, with and without a grant, a forbidden capability), of up to four
  of the other lines (each event type, blank, malformed, repeated ids and numbers, numbers left out), and of
  any two. Five lines are two states, their initial one and two transitions. `Paths` goes to three transitions, so that
  two make a cycle that is walked once and a half (`MaxPath`; the theorem holds for any).
- *Living weave*: two strand names, of which one is the name `evaluate` uses for its own objection; nesting to
  depth two and three evaluations in all, so that one can be inside another and follow another.

- *Agent loop*: every constant is a limit of the code or the capacity of a pipe, made small enough to be
  reached. A line may have a part before its end, so that the two come in different reads; a response
  of two units meets an input pipe of one, so that writes are partial, and two responses exceed the
  buffer. An exit code of 256 is the one whose low byte is zero, beside the tools' 1 and the shell's 128 and a signal.
  `NarrowRunSpec` leaves the parts of lines, and the agent's own complaints, to the process that is not hardened, since the loop
  does not know which of the two it has; it restricts no step of the loop, so fairness is as in `FairRunSpec`. Two requests are a request and an exit, and one too many is refused. A pipe of one gives one
  line per read; more than that is in the theorems, and any number of lines can follow each other. The
  run sets `CHECK_DEADLOCK FALSE` since the loop ends.

Symmetry is used where agents, tokens, threads or strands are interchangeable: no property and no
constant of the run names one of them, and the run has no liveness property. The runs with
`Declarable <- Pair` name agents and use none.

Fairness. One run has a liveness property: `Finite` of `MCAgentLoop` assumes weak fairness of `Tick`
(`time.monotonic` reaches the deadline) and of `Governor` (the supervisor's thread runs, and waits only
in `select` and `wait`, both with what is left of the time). Of the agent nothing is assumed, and the
batch, the lines in it and the writes are finite because the buffers are. That the approvals' lock is
given back needs no fairness: `LockHeld` says that no thread leaves the block with it. The chain of tools
is under no fairness either: a stage that hangs is ended by the deadline.

## 4. What is proved

| Module | Theorems |
|---|---|
| `CapabilityApprovalsProofs` | `TypeCorrect`, `LockGivenBack`, `TokensUsedOnce`, `UsesAuthorised`, `NothingLiveLost`, `TableBounded`, `NeverRevived`, `KeepsPromise` (the refinement of `Approvals`) |
| `RealGovernorProofs` | `TypeCorrect`, `SharingDeclared`, `FlowsDeclared`, `ArticleVHolds`, `TableExplained`, `DelegationConfined` |
| `FailingTrailProofs` | `TypeCorrectOnFailure`, `NothingHeldUnrecorded` |
| `GovernorTrailProofs` | `TrailCoheres`, `ExchangesOnDisk`, `PreapprovalsBacked`, `PreapprovalsBackedOnFailure`, `PreapprovalsHonoured`, `GrantsArePaid`, `GovernorKeepsPromise` (the refinement of `Approvals`) |
| `StrandsProofs` | `GraphsStayValid`, `EveryGrantApproved`, `LandingsApproved`, `CrossingsClean`, `ReportsExplained` |
| `LivingWeaveProofs` | `TypeCorrect`, `OnlyUnanimous`, `EveryGuardHeard`, `RefusalsExplained` |
| `HardenedRunProofs` | of the loop: `TypeCorrect`, `FloodBounded`, `NoDeadEvent`, `InputEnds`, `ConversationWhole`, `DeadlineEnds`, `StepsAreCounted`, `EndsCleanly`; of hardened runs: `RunsTheLoop` (the refinement of `AgentLoop`), `NoWordUnconfined`, `OutcomeTrue` |
| `EvidenceProofs` | of the parser and the engine: `ParserIsExact`, `GraphsExplained`, `OmissionsShow`, `AccusationsStand`; of the Articles: `VarianceReported`, `ScanCountsMessages`, `AlarmsAreKept`, `WalkReportsExcess` |

They hold for any sets of agents, threads, tokens, names, strands and capabilities and any limits that meet
the named assumptions (`RegistryAssumption`, `ThreadAssumption`, `PolicyAssumption`,
`GovernorAssumption`, `NamesAssumption`, `FaultAssumption`, `EvidenceAssumption`, `WeaveAssumption`,
`LoopAssumption`, `RunAssumption`, `StrandsAssumption`, `EngineAssumption`). Those of `RealGovernorProofs` are about `Spec`, a
disk that does not fail; those of `FailingTrailProofs` about `TrailSpec`, as are those of `GovernorTrailProofs` save
`PreapprovalsBacked` and `PreapprovalsHonoured`.

*Approvals.* None of the properties is inductive: whether a use is the first depends on what a thread
between two steps has in hand. `Inv` adds: a thread is inside the block iff it holds the lock
(`LockHeld`); what it read from the table under the lock is still the table's content (`CopyFresh`);
a clock reading of a call lies in the past (`ReadingPast`) - that is why pruning with it drops only
expired entries; the token of a call in progress belongs to nothing stored yet (`TokenOwn`); and the
table holds only issued approvals and none that was used (`TableSound`), while `NoLiveApprovalLost` says
that it holds every good one.
`TableBounded` and `NeverRevived` follow with one more induction each; `KeepsPromise` maps `IssueStore`
to `Issue`, `ConsumeAccept` to `Honour` and all else to stuttering, from `Inv` before and after.
`MCCapabilityApprovals` checks `OneUse` and `NoLiveApprovalLost`; `AcceptedAsIssued`, `RegistryBounded`, `LockHeld`
and the types are proved and need no run.

*Files.* That no content flows undeclared rests on a chain: who is listed for a name (`SharersRelated`),
every access on the trail was by a listed agent (`AccessesAllowed`, since entries are replaced but never
removed: `ListsOnlyGrow`), whoever wrote what a canonical file holds is listed for it (`WriterAllowed`,
where `NamesAssumption` is used), and the declarations on the trail are the relationships
(`RelationshipsRecorded`). Together they are `Sharing`. `StepEffects` first says once what any step adds
to the trail, so that the induction does not visit every request again; Article V's silence is then a
consequence of `Sharing` alone, about the trail as the auditor sees it.

*Capabilities.* `TableEffects` classifies every step by what it does to the table: the host gives, a
request is granted, a delegation hands on, or nothing changes; both theorems are inductive over it. For
`Confined` the group is fixed in the current state: an isolated group was isolated before, because
relationships are never withdrawn.

*A failing trail.* What is on disk is behind the trail, so `HeldExplained` of the full trail is not enough and not
inductive once a recorded grant was not given. The invariant (`Covered`) is that every capability held is on disk;
it survives because `held` changes only in a step of `RealGovernor` whose lines all went out, and because
`OnDisk` only ever grows at its end, whichever lines were kept back. That the table is explained exactly is carried
for the time in which nothing has failed, where the lemmas of `RealGovernorProofs` apply.

*What is on disk.* `Writing` says once of both specifications what a step adds to the trail: nothing, one line without
an id, an access, or a part of the three lines of a grant or a reflection (`Partly`: a failure cuts them anywhere).
Its lines fit together (`Coheres`) because a state's id carries a number that the counter has passed (`Reached`) and
because a transition comes after both its states; so do those of every prefix (`PrefixCoheres`), which
is what a failing disk needs. All this is about the lines together (`Coherent`): a text or a list that `parse_trace` refuses
by itself is finding 2. `ExchangesOnDisk` follows the files: whoever wrote a file last is the agent of
the newest write of it on the trail (`WritesTraced`), so a read adds to what Article V can report exactly when it takes
something from another agent, and later lines, whose numbers are larger, take nothing back. Short of a dropped line this
holds of what is on disk; while nothing has failed the converse holds too (`WritesKept`, `FlowsComplete`).

*The governor's approvals.* `ApprovalStep` reduces all steps to four: time, an issue, a pruning, a use. `Backed` adds to
`PreapprovalBacked` that the governor never hands out a token it keeps, that tokens handed out or used were issued, and
that no approval in the table was used. The last is what `GrantsArePaid` counts with - a step that records a
grant uses up an approval that had not been used - and what makes each use a step `Honour` of `Approvals`
(`GovernorKeepsPromise`). The line of a grant may stay unwritten after the approval is used, hence "at most once".

*Strands.* The invariant `Inv` of `StrandsProofs` has a part per graph (an id keeps its state, mirrors have nothing,
capabilities were approved), one per transition (what it returned, relative to what the graph has under the id of its
source: `EdgeOK`), one per crossing, and the counting `Balanced`: grants recorded and approvals still standing together
are no more than the approvals issued. Without the standing ones the count is not inductive. `Fit` is what every caller
of `route` sees to, so that the graph's part is proved once, for `route`.

*Hardened runs.* `RunsTheLoop` shows that each step of the chain is a step of `AgentLoop`'s agent or a stutter: what
the tools do is a subset of what an arbitrary agent may, so the loop's theorems carry over. `NoWordUnconfined` rests on
a hardened process before its agent stage having written nothing to its output, and having all layers there and after only
if it went through every stage. `OutcomeTrue` uses `WholeConversation` of the loop and that a process the loop waited
for is over.

*Living weave.* What a decision says rests on the evaluations in progress: the strands one started with are
still the first ones registered, the revision it noted is their number, and its results are the answers of the
first of them (`Sound`). With names that do not repeat (`Distinct`), an equal revision then means the same
strands, and an unequal one a strand that was not asked.

*Agent loop.* Two things make the properties inductive, for pipes and limits of any size: what the place
in the loop says of the buffers (`Places`: between events no complete line is left and the open one is
short), and that an end of output once seen stays the end, since a pipe whose writers have all gone stays
empty (`Ended`). Each event is then shown to keep `EventsLive` and `StdinClosedInTime` together, as each
needs the other: stdin is registered iff something is to be written, and closed iff nothing is and nothing
can follow. `StepsLeft` counts, for each event still in the batch, one read and the lines the buffer can hold by then
(`Bounded` says how many), then the lines in the buffer, then the way out; before the deadline a `select` raises it again.

*The loops of the parser and the Articles.* Each loop is a recursive function over the positions it has gone through, and
each theorem says that its result is a declarative definition of the whole, for inputs of any length. That takes an
induction, which the library states with an operator parameter. `UpTo` states it of a set instead (a set of numbers
with 0 that is closed under successor up to n holds 0 .. n), from `LeastMember`, which comes from the
well-foundedness of strict inclusion among finite sets. Every loop is then treated the same way: the function exists
(`ReadsExists`, `WalksExists`, `ScansExists`), and a loop invariant holds at 0 and goes from one position to the next.

- *The parser* (`ParserIsExact`). `ReadRight` says of the lines read so far what the bundle holds, kind by kind, and that
  it is refused exactly when the prefix has a malformed line or breaks a condition that a longer trace cannot mend
  (`BundleAppend`, `LineRead`); conditions that can be mended, the ends of transitions, are settled in `Finish`
  (`GraphIsBuilt`). Ordered lists (the delegation chain) are enumerations by rank (`AscendingEnumerates`,
  `AscendingAdd`). `EngineAssumption` says of `Line` what `_validate_event` lets through (`trace.py:123-166`): a known
  type, the fields of an access, two agents of a declaration. A line that `_validate_event` refuses is `Malformed`. This
  proof failed at first for a reason: `ReadLine` was a CASE whose arms overlapped once a bundle was refused, which TLC
  resolves by taking the first; it is now an IF before the CASE, as in the code, where the exception ends the loop.
- *The verdict* (`OmissionsShow`, `AccusationsStand`). From `ReadRight`: what `to_engine_kwargs` hands over is empty exactly
  when no line of the kind was read. `TraceInv` says it of every beginning of the trace, so that two accepted ones can be
  compared over any number of lines, refused traces in between included (`VerdictGrows`). The later one adds to what each
  check looks at, and each check keeps what it reports: hops (`ExpansionsStand`, one line at a time), queries
  (`LeaksStay`), accesses, whose numbers grow (`LaterAccesses`, `ChannelsStay`), graphs, where a state once declared stays
  as it was (`StateFound`).
- *Paths* (`GraphsExplained`). Induction along a path: nothing is gained on a transition that Article I or III passes
  unless it was granted or disclosed on it.
- *Article V* (`ScanCountsMessages`, `AlarmsAreKept`). `ScanRight`: the loop's last writer is the agent of the last write so
  far, or nobody; a channel is counted exactly when a read so far received through it, and its count is the number of such
  reads. It rests on the accesses' numbers being different (`Kept`). `AlarmsAreKept` then compares two declarative readings.
- *Article VI* (`WalkReportsExcess`). `WalkRight`: before hop k each agent holds exactly what `TracesBack` to the root, and
  what is reported is the list of earlier hops with an excess. A path of hops to the receiver is one to the
  delegator with one more hop (`OneMoreHop`), and no path is longer than the chain (`PathShort`).
- *Article III* (`VarianceReported`). Counting two columns of a finite set apart agrees with the pairwise definition
  (`VariesTogether`).

Model-checked only: `Finite`, since liveness is outside what the installed provers do. Its safety half is proved: past the
deadline every step of the governor lowers `StepsLeft`, a natural number that no step of the agent or of the clock changes
(`DeadlineEnds`, `StepsAreCounted`), and at the end the group is killed and the pipes are closed (`EndsCleanly`). That the
governor can always take a step, and takes it, is what TLC adds under fairness.
Every other property of a passing run is a theorem. The four runs that are findings have counterexamples.

## 5. What is not modelled

- Of `run_agent`: the argument checks before the start, a process that cannot be started at all (`Popen` raising, or
  `KernelContainmentUnavailable` because a tool is missing), and JSON itself. A child that leaves the
  agent's process group is not in the model either: `killpg` does not reach it.
- Of the chain and the bootstrap: what the system calls do is the kernel's; the probe of `available`, the check for the
  tools, the values of the limits and the list of system calls are configuration without behaviour.
- Of the trail: `close` and its failure, torn lines and lines longer than the buffer (see section 2), and the constructor
  failing on the first three lines (there is no governor then).
- Of the engine: a weave handed to it (its crossings are checked in `Strands`), `_validate_graph` on a graph made by
  hand, and the layout of the summary. `from_trace` never supplies a weave, so the command line never exits with 0.
- Of `parse_trace`: which single lines are well formed (types, U+0000, empty texts), and the size limits; both are the line
  `Malformed`. Of the governor's own lines the texts an agent chose are marked (`NulText`, `QuotedTexts`) and repeated lists
  are kept. Left out: a trail that grows beyond the parser's 100,000 lines or 16 MB; the `to_agent` of a delegation
  without enforcement, which is any text there and one of the agents in the model; and agents' names, which the host chooses.
- `Governor.route` and `reenter` called by a host with a state of its own making, crossings recorded
  by hand, `MirrorState` and `AnsweredMirror`: planned.
- Shapes and sizes of arguments and lines (types, lengths, JSON): they decide which requests are
  refused before anything happens.

## 6. Findings

Each is a run whose one property states what a document or docstring says, and which TLC violates.

1. `MCDualTokenShadowed`: an expired preapproval that is still kept is used in place of a good
   `dual_token`, and the request is reflected (`governor_process.py:503`; `README.md:98-99`).
2. `MCUnreadableTrail`: a request that the governor accepts can leave a line that `parse_trace` refuses by itself, and the
   whole trail with it (`governor_process.py:556`, `591`; `governor_process.py:1-3`). Any agent can ask for a capability with a
   U+0000 in it, which `_bounded_text` lets through (351-357); the request is reflected and its text goes into `action`,
   where `trace.py:162` refuses it. Without enforcement the `query` and `backing` of a differential query (581) do
   the same. A permitted delegation whose list repeats a capability is written as sent, and `trace.py:141-142` refuses it:
   with `NulText <- None` the same run shows this one.
3. `MCReusedAuthorized`: a second `authorize` from one state with another grant reuses the id of the
   first one's state, and Article I reports the legitimate call (`governor.py:59`; `governor.py:127-128`).

4. `MCForbidden`: a forbidden capability that the initial state holds is not reported by Article I, which looks at
   transitions alone (`invariants/authority.py:60`; docstring 46-49).

What else a reader of the models should know of the code, without a run of its own:

- Article VI credits the root authority to the first delegator of the trail and nothing to anyone else,
  so it reports a permitted delegation of a capability that the host or a grant gave the sender.
  `WalkIsExact` says what it does report, and `HeldRecorded` what the trail would allow to be told.
- Article V pairs a read with the last writer alone (`LastWrite`); a write that another write follows
  is not counted.
- The mirror of a second `reflect` that differs in `extra_facts` has the id of the first (`Reflection`
  leaves them out), and the graph keeps the first; `OnlyReusedIds` makes exactly this exception.
- `cross` records a crossing from a state that the strand does not have, and Article II then raises on
  the whole list; `WeaveClean` speaks of the crossings that can be looked up.
- A crossing the policy records names the mirror it ends on as its `state_b`, so Article II compares the
  resulting state with itself on that side and would not report a mirror that held a capability;
  `WeaveClean` therefore asks by itself that the mirror holds none.
- Article III reads `PASS` when only one of its two checks had evidence (a graph without queries, or queries
  without a graph); `EvidenceOf` says so, while `engine.py:124-127` speaks of inputs.
- A hand-made engine with an empty list evaluates the article (`is not None`), a trace without such events does
  not (`or None`); `Given` is the latter.
- A `declared_relationship`, `disclosed_fact` or `root_authority` line excuses events that came before it, and
  `VerdictStands` makes exactly this exception.
- After a failed write the trail can show a grant or a delegation that was never made, since the line went out with a later
  one; it never lacks one that was (`HeldRecorded`), unless a line was dropped, and then the capability was not given
  either.

## 7. Plan

In this order, most important first.

1. `Strands`: `route` and `reenter` with states and grants of the caller's making; crossings recorded by
   hand; `AnsweredMirror`; the weave handed to the engine.
2. The start of the process, and the probe of `available`.
