-------------------------- MODULE CapabilityApprovals --------------------------
(***************************************************************************)
(* CapabilityApprovals (authorization.py): threads of the trusted           *)
(* supervisor issue and consume approvals concurrently.  issue reads the    *)
(* clock BEFORE it takes the lock, so its pruning and its expiry are         *)
(* computed from a time that may be in the past when they take effect;       *)
(* consume reads the clock under the lock, after it has found the entry.     *)
(***************************************************************************)
EXTENDS ApprovalRegistry, Sequences

CONSTANTS
    Thread,     \* threads of the supervisor
    Owner,      \* agent identities
    Scope,      \* the capability sets that can be approved
    Token,      \* the tokens secrets.token_urlsafe can return
    MaxClock,   \* bound of the model on time
    NoThread,   \* the lock is free
    NoCall      \* the thread is not in a call

ASSUME ThreadAssumption == NoThread \notin Thread

VARIABLES
    clock,     \* time.monotonic()
    lock,      \* the thread that holds _lock, or NoThread
    pending,   \* _pending
    pc,        \* where each thread is in issue or consume
    call,      \* arguments of the call each thread is in, and issue's clock reading
    copy,      \* what each thread has read from _pending in this call
    minted,    \* tokens drawn so far; a draw never repeats
    issued,    \* history: every approval stored by issue
    accepted   \* history: every use that consume answered True to

vars == <<clock, lock, pending, pc, call, copy, minted, issued, accepted>>

-------------------------------------------------------------------------------
Record == Approval(Token, Owner, Scope)

Call == [token: Token, owner: Owner, scope: Scope, expires: Nat, now: Nat]

Use == [token: Token, owner: Owner, scope: Scope, at: Nat]

(* The entry an issue call is about to store. *)
Entry(c) == [token |-> c.token, owner |-> c.owner, scope |-> c.scope, expires |-> c.expires]

Spent == {accepted[i].token : i \in DOMAIN accepted}

Init ==
    /\ clock = 0
    /\ lock = NoThread
    /\ pending = {}
    /\ pc = [t \in Thread |-> "idle"]
    /\ call = [t \in Thread |-> NoCall]
    /\ copy = [t \in Thread |-> {}]
    /\ minted = {}
    /\ issued = {}
    /\ accepted = << >>

-------------------------------------------------------------------------------
(* A bug: no mutual exclusion. *)
AcquireUnguarded(t) == lock' = t

(* with self._lock: entering and leaving the block. *)
Acquire(t) == lock = NoThread /\ lock' = t

Release(t) ==
    /\ lock' = NoThread
    /\ pc' = [pc EXCEPT ![t] = "idle"]
    /\ call' = [call EXCEPT ![t] = NoCall]
    /\ copy' = [copy EXCEPT ![t] = {}]

Tick ==
    /\ clock < MaxClock
    /\ clock' = clock + 1
    /\ UNCHANGED <<lock, pending, pc, call, copy, minted, issued, accepted>>

(* secrets.token_urlsafe never returns a token twice. *)
Fresh(token) == token \notin minted

(* issue up to the lock: validate, draw a token, read the clock. *)
IssueCall(t, token, owner, scope, ttl) ==
    /\ pc[t] = "idle"
    /\ ValidTtl(ttl)
    /\ Fresh(token)
    /\ minted' = minted \cup {token}
    /\ call' = [call EXCEPT ![t] = [token |-> token, owner |-> owner, scope |-> scope,
                                    expires |-> clock + ttl, now |-> clock]]
    /\ pc' = [pc EXCEPT ![t] = "issue"]
    /\ UNCHANGED <<clock, lock, pending, copy, issued, accepted>>

(* The comprehension reads every entry of the table. *)
IssuePrune(t) ==
    /\ pc[t] = "issue"
    /\ Acquire(t)
    /\ copy' = [copy EXCEPT ![t] = Live(pending, call[t].now)]
    /\ pc' = [pc EXCEPT ![t] = "store"]
    /\ UNCHANGED <<clock, pending, call, minted, issued, accepted>>

(* The pruned table replaces _pending and the new entry goes in. *)
IssueStore(t) ==
    /\ pc[t] = "store"
    /\ HasRoom(copy[t])
    /\ pending' = copy[t] \cup {Entry(call[t])}
    /\ issued' = issued \cup {Entry(call[t])}
    /\ Release(t)
    /\ UNCHANGED <<clock, minted, accepted>>

(* ... or the pruned table is still full and issue raises inside the with. *)
IssueRefuse(t) ==
    /\ pc[t] = "store"
    /\ ~HasRoom(copy[t])
    /\ pending' = copy[t]
    /\ Release(t)
    /\ UNCHANGED <<clock, minted, issued, accepted>>

(* consume finds the entry; without one it returns False and changes nothing. *)
ConsumeLookup(t, token, owner, scope) ==
    /\ pc[t] = "idle"
    /\ Lookup(pending, token) # {}
    /\ Acquire(t)
    /\ copy' = [copy EXCEPT ![t] = Lookup(pending, token)]
    /\ call' = [call EXCEPT ![t] = [token |-> token, owner |-> owner, scope |-> scope,
                                    expires |-> 0, now |-> 0]]
    /\ pc' = [pc EXCEPT ![t] = "decide"]
    /\ UNCHANGED <<clock, pending, minted, issued, accepted>>

(* consume answers True: the entry it found is in time, and for this caller. *)
ConsumeAccept(t) ==
    LET c == call[t] IN
    /\ pc[t] = "decide"
    /\ Accepts(copy[t], c.token, c.owner, c.scope, clock)
    /\ pending' = AfterConsume(pending, c.token, c.owner, c.scope, clock)
    /\ accepted' = Append(accepted, [token |-> c.token, owner |-> c.owner,
                                     scope |-> c.scope, at |-> clock])
    /\ Release(t)
    /\ UNCHANGED <<clock, minted, issued>>

(* consume answers False: an expired entry goes, a mismatched one stays. *)
ConsumeReject(t) ==
    LET c == call[t] IN
    /\ pc[t] = "decide"
    /\ ~Accepts(copy[t], c.token, c.owner, c.scope, clock)
    /\ pending' = AfterConsume(pending, c.token, c.owner, c.scope, clock)
    /\ Release(t)
    /\ UNCHANGED <<clock, minted, issued, accepted>>

(* The steps of a thread inside the with block. *)
Locked(t) == IssueStore(t) \/ IssueRefuse(t) \/ ConsumeAccept(t) \/ ConsumeReject(t)

Next ==
    \/ Tick
    \/ \E t \in Thread :
        \/ \E token \in Token, owner \in Owner, scope \in Scope :
            \/ \E ttl \in 0 .. MaxTtl + 1 : IssueCall(t, token, owner, scope, ttl)
            \/ ConsumeLookup(t, token, owner, scope)
        \/ IssuePrune(t)
        \/ Locked(t)

Spec == Init /\ [][Next]_vars

-------------------------------------------------------------------------------
(* Types, and that the table is a dictionary: one entry per token. *)
TypeOK ==
    /\ clock \in Nat
    /\ lock \in Thread \cup {NoThread}
    /\ pending \subseteq Record
    /\ \A r, q \in pending : r.token = q.token => r = q
    /\ pc \in [Thread -> {"idle", "issue", "store", "decide"}]
    /\ \A t \in Thread : IF pc[t] = "idle" THEN call[t] = NoCall ELSE call[t] \in Call
    /\ DOMAIN call = Thread
    /\ copy \in [Thread -> SUBSET Record]
    /\ minted \subseteq Token
    /\ issued \subseteq Record
    /\ accepted \in Seq(Use)

(* SECURITY.md:40-41, "consumed once": however the threads interleave, no   *)
(* token is honoured twice.                                                 *)
OneUse ==
    \A i, j \in DOMAIN accepted : accepted[i].token = accepted[j].token => i = j

(* "bound to one agent and exact capability set" and "expire": every use    *)
(* that was honoured is one that issue stored, for that owner and scope,    *)
(* and came before it expired.                                              *)
AcceptedAsIssued ==
    \A i \in DOMAIN accepted :
        \E r \in issued :
            /\ r.token = accepted[i].token
            /\ Matches(r, accepted[i].owner, accepted[i].scope)
            /\ accepted[i].at < r.expires

(* Pruning by one thread with its old clock reading, beside a consume by    *)
(* another, loses no approval that is still good.                           *)
NoLiveApprovalLost ==
    \A r \in issued : r.token \notin Spent /\ ~Expired(r, clock) => r \in pending

(* The table never holds more than 1024 entries (authorization.py:38-39).   *)
RegistryBounded == Cardinality(pending) <= MaxOutstanding

(* An approval that has left the table (used, expired or pruned) never      *)
(* comes back: the table another thread rebuilds does not resurrect it.     *)
NoRevival == [][\A r \in issued : r \notin pending => r \notin pending']_vars

(* A thread is inside the with block exactly while it holds the lock: two   *)
(* never are, and the path that raises gives the lock back too.             *)
Inside(t) == pc[t] \in {"store", "decide"}
LockHeld == \A t \in Thread : Inside(t) <=> lock = t

(* The lock, the table and the pruning implement the promise of Approvals:  *)
(* no use of what was not issued, nor after its time, nor for another, nor  *)
(* twice; and no approval that lives past five minutes from now, although   *)
(* its expiry is computed from an earlier reading of the clock.             *)
Promise == INSTANCE Approvals WITH uses <- accepted
PromiseSpec == Promise!Spec
===============================================================================
