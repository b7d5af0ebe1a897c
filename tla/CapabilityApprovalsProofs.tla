----------------------- MODULE CapabilityApprovalsProofs -----------------------
(***************************************************************************)
(* Proofs about CapabilityApprovals, for any number of threads, agents,     *)
(* scopes and tokens.  The invariants that matter are not inductive alone:  *)
(* that a token is honoured once depends on what the threads inside issue   *)
(* and consume have already read, and that is still true of the table only  *)
(* because they hold the lock.  Inv says so.                                *)
(***************************************************************************)
EXTENDS CapabilityApprovals, FiniteSetTheorems, TLAPS

Issuing(t) == pc[t] \in {"issue", "store"}

(* What a thread inside has read is what the table still says. *)
CopyFresh ==
    \A t \in Thread :
        /\ pc[t] = "store" => copy[t] = Live(pending, call[t].now)
        /\ pc[t] = "decide" => copy[t] = Lookup(pending, call[t].token)

(* The clock reading of an issue call is not from the future. *)
ReadingPast ==
    \A t \in Thread :
        Issuing(t) => call[t].now <= clock /\ call[t].expires <= clock + MaxTtl

(* A token drawn by a call in progress is nobody else's, and is not issued. *)
TokenOwn ==
    /\ \A r \in issued : r.token \in minted
    /\ \A t \in Thread :
          Issuing(t) => /\ call[t].token \in minted
                        /\ \A r \in issued : r.token # call[t].token
                        /\ \A u \in Thread \ {t} : Issuing(u) => call[u].token # call[t].token
    /\ \A r, q \in issued : r.token = q.token => r = q

(* The table holds issued approvals, and none that was used. *)
TableSound ==
    /\ pending \subseteq issued
    /\ \A r \in pending : r.token \notin Spent

Inv ==
    /\ TypeOK
    /\ LockHeld
    /\ CopyFresh
    /\ ReadingPast
    /\ TokenOwn
    /\ TableSound
    /\ OneUse
    /\ AcceptedAsIssued
    /\ NoLiveApprovalLost

-------------------------------------------------------------------------------
(* Appending a use to the history adds its token to those that are spent.   *)
LEMMA AppendUse ==
    ASSUME NEW s \in Seq(Use), NEW u \in Use
    PROVE  /\ Append(s, u) \in Seq(Use)
           /\ DOMAIN s = 1 .. Len(s)
           /\ DOMAIN Append(s, u) = 1 .. Len(s) + 1
           /\ \A i \in DOMAIN s : Append(s, u)[i] = s[i]
           /\ Append(s, u)[Len(s) + 1] = u
           /\ Len(s) \in Nat
  OBVIOUS

(* The initial state satisfies the invariant: the code starts from an empty *)
(* table and no call in progress.                                           *)
LEMMA InitInv == Init => Inv
  BY ThreadAssumption DEF Init, Inv, TypeOK, LockHeld, CopyFresh, ReadingPast, TokenOwn,
     TableSound, OneUse, AcceptedAsIssued, NoLiveApprovalLost, Inside, Issuing

(* Time passing keeps the invariant: nothing is read or written. *)
LEMMA TickInv ==
    ASSUME Inv, Tick
    PROVE  Inv'
  <1>1. TypeOK'
    BY DEF Inv, Tick, TypeOK
  <1>2. LockHeld'
    BY DEF Inv, Tick, LockHeld, Inside
  <1>3. CopyFresh'
    BY DEF Inv, Tick, CopyFresh
  <1>4. ReadingPast'
    BY RegistryAssumption DEF Inv, Tick, TypeOK, ReadingPast, Issuing, Call
  <1>5. TokenOwn'
    BY DEF Inv, Tick, TokenOwn, Issuing
  <1>6. TableSound'
    BY DEF Inv, Tick, TableSound, Spent
  <1>7. OneUse'
    BY DEF Inv, Tick, OneUse
  <1>8. AcceptedAsIssued'
    BY DEF Inv, Tick, AcceptedAsIssued
  <1>9. NoLiveApprovalLost'
    BY DEF Inv, Tick, NoLiveApprovalLost, Spent, TypeOK, Expired, Record, Approval
  <1> QED
    BY <1>1, <1>2, <1>3, <1>4, <1>5, <1>6, <1>7, <1>8, <1>9 DEF Inv

(* Beginning an issue keeps the invariant: it draws a token nobody has. *)
LEMMA IssueCallInv ==
    ASSUME Inv, NEW t \in Thread, NEW token \in Token, NEW owner \in Owner, NEW scope \in Scope,
           NEW ttl \in 0 .. MaxTtl + 1,
           IssueCall(t, token, owner, scope, ttl)
    PROVE  Inv'
  <1>1. TypeOK'
    BY DEF Inv, IssueCall, TypeOK, Call
  <1>2. LockHeld'
    BY DEF Inv, IssueCall, LockHeld, Inside
  <1>3. CopyFresh'
    BY DEF Inv, IssueCall, CopyFresh
  <1>4. ReadingPast'
    BY RegistryAssumption DEF Inv, IssueCall, TypeOK, ReadingPast, Issuing, ValidTtl
  <1>5. TokenOwn'
    BY DEF Inv, IssueCall, Fresh, TypeOK, TokenOwn, Issuing
  <1>6. TableSound'
    BY DEF Inv, IssueCall, TableSound, Spent
  <1>7. OneUse'
    BY DEF Inv, IssueCall, OneUse
  <1>8. AcceptedAsIssued'
    BY DEF Inv, IssueCall, AcceptedAsIssued
  <1>9. NoLiveApprovalLost'
    BY DEF Inv, IssueCall, NoLiveApprovalLost, Spent
  <1> QED
    BY <1>1, <1>2, <1>3, <1>4, <1>5, <1>6, <1>7, <1>8, <1>9 DEF Inv

(* Taking the lock and reading the table keeps the invariant. *)
LEMMA IssuePruneInv ==
    ASSUME Inv, NEW t \in Thread,
           IssuePrune(t)
    PROVE  Inv'
  <1>1. TypeOK'
    BY DEF Inv, IssuePrune, TypeOK, Live, Acquire
  <1>2. LockHeld'
    BY ThreadAssumption DEF Inv, IssuePrune, TypeOK, LockHeld, Inside, Acquire
  <1>3. CopyFresh'
    BY DEF Inv, IssuePrune, TypeOK, CopyFresh
  <1>4. ReadingPast'
    BY DEF Inv, IssuePrune, ReadingPast, Issuing
  <1>5. TokenOwn'
    BY DEF Inv, IssuePrune, TokenOwn, Issuing
  <1>6. TableSound'
    BY DEF Inv, IssuePrune, TableSound, Spent
  <1>7. OneUse'
    BY DEF Inv, IssuePrune, OneUse
  <1>8. AcceptedAsIssued'
    BY DEF Inv, IssuePrune, AcceptedAsIssued
  <1>9. NoLiveApprovalLost'
    BY DEF Inv, IssuePrune, NoLiveApprovalLost, Spent
  <1> QED
    BY <1>1, <1>2, <1>3, <1>4, <1>5, <1>6, <1>7, <1>8, <1>9 DEF Inv

(* Storing the pruned table with the new entry keeps the invariant: the pruned
   table is the table less what has expired. *)
LEMMA IssueStoreInv ==
    ASSUME Inv, NEW t \in Thread,
           IssueStore(t)
    PROVE  Inv'
  <1> DEFINE new == Entry(call[t])
  <1>a. /\ pc[t] = "store" /\ lock = t
        /\ copy[t] = Live(pending, call[t].now) /\ copy[t] \subseteq pending
    BY DEF Inv, IssueStore, LockHeld, Inside, CopyFresh, Live
  <1>b. call[t] \in Call /\ new \in Record
    BY <1>a DEF Inv, TypeOK, Call, Entry, Record, Approval
  <1>c. \A r \in issued : r.token # new.token
    BY <1>a DEF Inv, TokenOwn, Issuing, Entry
  <1>d. pending' = copy[t] \cup {new} /\ issued' = issued \cup {new}
    BY DEF IssueStore
  <1>e. new.token \notin Spent
    BY <1>c DEF Inv, AcceptedAsIssued, Spent
  <1>1. TypeOK'
    <2>1. \A r, q \in pending' : r.token = q.token => r = q
      BY <1>a, <1>c, <1>d DEF Inv, TypeOK, TableSound
    <2>2. pending' \subseteq Record /\ issued' \subseteq Record
      BY <1>b, <1>d DEF Inv, TypeOK
    <2> QED
      BY <2>1, <2>2 DEF Inv, IssueStore, TypeOK, Release
  <1>2. LockHeld'
    BY ThreadAssumption DEF Inv, IssueStore, TypeOK, LockHeld, Inside, Release
  <1>3. CopyFresh'
    BY DEF Inv, IssueStore, TypeOK, LockHeld, CopyFresh, Inside, Release
  <1>4. ReadingPast'
    BY DEF Inv, IssueStore, TypeOK, ReadingPast, Issuing, Release
  <1>5. TokenOwn'
    BY DEF Inv, IssueStore, TypeOK, TokenOwn, Issuing, Release, Entry
  <1>6. TableSound'
    BY <1>a, <1>e DEF Inv, IssueStore, TableSound, Spent
  <1>7. OneUse'
    BY DEF Inv, IssueStore, OneUse
  <1>8. AcceptedAsIssued'
    BY DEF Inv, IssueStore, AcceptedAsIssued
  <1>9. NoLiveApprovalLost'
    <2> SUFFICES ASSUME NEW r \in issued, r.token \notin Spent, ~Expired(r, clock)
                 PROVE  r \in copy[t]
      BY DEF IssueStore, NoLiveApprovalLost, Spent
    <2>1. r \in pending /\ r \in Record
      BY DEF Inv, TypeOK, NoLiveApprovalLost
    <2>2. call[t].now <= clock /\ call[t] \in Call /\ clock \in Nat
      BY <1>a DEF Inv, ReadingPast, Issuing, TypeOK
    <2>3. r.expires > call[t].now
      BY <2>1, <2>2 DEF Expired, Record, Approval, Call
    <2>4. copy[t] = Live(pending, call[t].now)
      BY <1>a
    <2> QED
      BY <2>1, <2>3, <2>4 DEF Live
  <1> QED
    BY <1>1, <1>2, <1>3, <1>4, <1>5, <1>6, <1>7, <1>8, <1>9 DEF Inv

(* So does storing the pruned table alone when it is full. *)
LEMMA IssueRefuseInv ==
    ASSUME Inv, NEW t \in Thread,
           IssueRefuse(t)
    PROVE  Inv'
  <1>1. TypeOK'
    BY DEF Inv, IssueRefuse, TypeOK, CopyFresh, Live, Release
  <1>2. LockHeld'
    BY ThreadAssumption DEF Inv, IssueRefuse, TypeOK, LockHeld, Inside, Release
  <1>3. CopyFresh'
    BY DEF Inv, IssueRefuse, TypeOK, LockHeld, CopyFresh, Inside, Release
  <1>4. ReadingPast'
    BY DEF Inv, IssueRefuse, TypeOK, ReadingPast, Issuing, Release
  <1>5. TokenOwn'
    BY DEF Inv, IssueRefuse, TypeOK, TokenOwn, Issuing, Release
  <1>6. TableSound'
    BY DEF Inv, IssueRefuse, TableSound, Spent, CopyFresh, Live
  <1>7. OneUse'
    BY DEF Inv, IssueRefuse, OneUse
  <1>8. AcceptedAsIssued'
    BY DEF Inv, IssueRefuse, AcceptedAsIssued
  <1>9. NoLiveApprovalLost'
    BY DEF Inv, IssueRefuse, NoLiveApprovalLost, Spent, TypeOK, CopyFresh, ReadingPast,
       Issuing, Live, Expired, Record, Approval, Call
  <1> QED
    BY <1>1, <1>2, <1>3, <1>4, <1>5, <1>6, <1>7, <1>8, <1>9 DEF Inv

(* Looking an entry up under the lock keeps the invariant. *)
LEMMA ConsumeLookupInv ==
    ASSUME Inv, NEW t \in Thread, NEW token \in Token, NEW owner \in Owner, NEW scope \in Scope,
           ConsumeLookup(t, token, owner, scope)
    PROVE  Inv'
  <1>1. TypeOK'
    BY DEF Inv, ConsumeLookup, TypeOK, Call, Lookup, Acquire
  <1>2. LockHeld'
    BY ThreadAssumption DEF Inv, ConsumeLookup, TypeOK, LockHeld, Inside, Acquire
  <1>3. CopyFresh'
    BY DEF Inv, ConsumeLookup, TypeOK, CopyFresh
  <1>4. ReadingPast'
    BY DEF Inv, ConsumeLookup, ReadingPast, Issuing
  <1>5. TokenOwn'
    BY DEF Inv, ConsumeLookup, TokenOwn, Issuing
  <1>6. TableSound'
    BY DEF Inv, ConsumeLookup, TableSound, Spent
  <1>7. OneUse'
    BY DEF Inv, ConsumeLookup, OneUse
  <1>8. AcceptedAsIssued'
    BY DEF Inv, ConsumeLookup, AcceptedAsIssued
  <1>9. NoLiveApprovalLost'
    BY DEF Inv, ConsumeLookup, NoLiveApprovalLost, Spent
  <1> QED
    BY <1>1, <1>2, <1>3, <1>4, <1>5, <1>6, <1>7, <1>8, <1>9 DEF Inv

(* Honouring an approval keeps the invariant: its entry leaves the table. *)
LEMMA ConsumeAcceptInv ==
    ASSUME Inv, NEW t \in Thread,
           ConsumeAccept(t)
    PROVE  Inv'
  <1> DEFINE c == call[t]
             use == [token |-> c.token, owner |-> c.owner, scope |-> c.scope, at |-> clock]
  <1>a. pc[t] = "decide" /\ c \in Call /\ copy[t] = Lookup(pending, c.token)
    BY DEF Inv, ConsumeAccept, CopyFresh, TypeOK
  <1>b. PICK r \in pending : r.token = c.token /\ ~Expired(r, clock) /\ Matches(r, c.owner, c.scope)
    BY <1>a DEF ConsumeAccept, Accepts, Lookup
  <1>c. use \in Use /\ accepted' = Append(accepted, use) /\ accepted \in Seq(Use)
    BY DEF Inv, TypeOK, ConsumeAccept, Call, Use
  <1>d. /\ accepted' \in Seq(Use)
        /\ DOMAIN accepted = 1 .. Len(accepted) /\ DOMAIN accepted' = 1 .. Len(accepted) + 1
        /\ \A i \in DOMAIN accepted : accepted'[i] = accepted[i]
        /\ accepted'[Len(accepted) + 1] = use /\ Len(accepted) \in Nat
    BY <1>c
  <1>e. Spent' = Spent \cup {c.token}
    BY <1>d DEF Spent
  <1>f. c.token \notin Spent
    BY <1>b DEF Inv, TableSound
  <1>g. pending' \subseteq pending /\ \A q \in pending : q \in pending' <=> q.token # c.token
    <2>1. \A q \in pending : q.token = c.token => q = r
      BY <1>b DEF Inv, TypeOK
    <2> QED
      BY <2>1, <1>b DEF ConsumeAccept, AfterConsume, Lookup
  <1>1. TypeOK'
    BY DEF Inv, ConsumeAccept, TypeOK, Call, Use, AfterConsume, Release
  <1>2. LockHeld'
    BY ThreadAssumption DEF Inv, ConsumeAccept, TypeOK, LockHeld, Inside, Release
  <1>3. CopyFresh'
    BY DEF Inv, ConsumeAccept, TypeOK, LockHeld, CopyFresh, Inside, Release
  <1>4. ReadingPast'
    BY DEF Inv, ConsumeAccept, ReadingPast, Issuing, Release
  <1>5. TokenOwn'
    BY DEF Inv, ConsumeAccept, TokenOwn, Issuing, Release
  <1>6. TableSound'
    BY <1>e, <1>g DEF Inv, ConsumeAccept, TableSound
  <1>7. OneUse'
    <2>1. \A i \in DOMAIN accepted : accepted[i].token # c.token
      BY <1>f DEF Spent
    <2> QED
      BY <2>1, <1>d DEF Inv, OneUse
  <1>8. AcceptedAsIssued'
    <2>1. r \in issued /\ clock < r.expires
      BY <1>b DEF Inv, TableSound, TypeOK, Expired, Record, Approval
    <2>2. issued' = issued
      BY DEF ConsumeAccept
    <2> QED
      BY <2>1, <2>2, <1>b, <1>d DEF Inv, AcceptedAsIssued
  <1>9. NoLiveApprovalLost'
    BY <1>e, <1>g DEF Inv, ConsumeAccept, NoLiveApprovalLost
  <1> QED
    BY <1>1, <1>2, <1>3, <1>4, <1>5, <1>6, <1>7, <1>8, <1>9 DEF Inv

(* Refusing one keeps the invariant. *)
LEMMA ConsumeRejectInv ==
    ASSUME Inv, NEW t \in Thread,
           ConsumeReject(t)
    PROVE  Inv'
  <1>1. TypeOK'
    BY DEF Inv, ConsumeReject, TypeOK, AfterConsume, Release
  <1>2. LockHeld'
    BY ThreadAssumption DEF Inv, ConsumeReject, TypeOK, LockHeld, Inside, Release
  <1>3. CopyFresh'
    BY DEF Inv, ConsumeReject, TypeOK, LockHeld, CopyFresh, Inside, Release
  <1>4. ReadingPast'
    BY DEF Inv, ConsumeReject, ReadingPast, Issuing, Release
  <1>5. TokenOwn'
    BY DEF Inv, ConsumeReject, TokenOwn, Issuing, Release
  <1>6. TableSound'
    BY DEF Inv, ConsumeReject, TableSound, Spent, AfterConsume
  <1>7. OneUse'
    BY DEF Inv, ConsumeReject, OneUse
  <1>8. AcceptedAsIssued'
    BY DEF Inv, ConsumeReject, AcceptedAsIssued
  <1>9. NoLiveApprovalLost'
    <2> DEFINE c == call[t]
    <2>1. copy[t] = Lookup(pending, c.token)
      BY DEF Inv, ConsumeReject, CopyFresh
    <2>2. \A r \in pending : r \notin pending' => Expired(r, clock)
      BY <2>1 DEF ConsumeReject, AfterConsume, Accepts, Lookup
    <2> QED
      BY <2>2 DEF Inv, ConsumeReject, NoLiveApprovalLost, Spent
  <1> QED
    BY <1>1, <1>2, <1>3, <1>4, <1>5, <1>6, <1>7, <1>8, <1>9 DEF Inv

-------------------------------------------------------------------------------
(* Every step keeps the invariant. *)
LEMMA NextInv == Inv /\ [Next]_vars => Inv'
  <1> SUFFICES ASSUME Inv, [Next]_vars PROVE Inv'
    OBVIOUS
  <1>1. CASE Tick
    BY <1>1, TickInv
  <1>2. CASE \E t \in Thread, token \in Token, owner \in Owner, scope \in Scope :
               \E ttl \in 0 .. MaxTtl + 1 : IssueCall(t, token, owner, scope, ttl)
    BY <1>2, IssueCallInv
  <1>3. CASE \E t \in Thread, token \in Token, owner \in Owner, scope \in Scope :
               ConsumeLookup(t, token, owner, scope)
    BY <1>3, ConsumeLookupInv
  <1>4. CASE \E t \in Thread : IssuePrune(t)
    BY <1>4, IssuePruneInv
  <1>5. CASE \E t \in Thread : Locked(t)
    BY <1>5, IssueStoreInv, IssueRefuseInv, ConsumeAcceptInv, ConsumeRejectInv DEF Locked
  <1>6. CASE UNCHANGED vars
    BY <1>6 DEF vars, Inv, TypeOK, LockHeld, CopyFresh, ReadingPast, TokenOwn, TableSound,
       OneUse, AcceptedAsIssued, NoLiveApprovalLost, Inside, Issuing, Spent
  <1> QED
    BY <1>1, <1>2, <1>3, <1>4, <1>5, <1>6 DEF Next

THEOREM Invariance == Spec => []Inv
  BY InitInv, NextInv, PTL DEF Spec

(* The table is well typed and has one entry per token, in every state that *)
(* any interleaving of issue and consume (authorization.py:23-62) reaches.  *)
THEOREM TypeCorrect == Spec => []TypeOK
  BY Invariance, PTL DEF Inv

(* Only one thread is inside the with block, and none leaves holding the    *)
(* lock.                                                                    *)
THEOREM LockGivenBack == Spec => []LockHeld
  <1>1. Inv => LockHeld
    BY DEF Inv
  <1> QED
    BY <1>1, Invariance, PTL

(* No token is honoured twice, whatever the threads do. *)
THEOREM TokensUsedOnce == Spec => []OneUse
  BY Invariance, PTL DEF Inv

(* Every honoured use is of an approval that was issued for that agent and  *)
(* exactly that scope, before it expired.                                   *)
THEOREM UsesAuthorised == Spec => []AcceptedAsIssued
  BY Invariance, PTL DEF Inv

(* Pruning never costs an approval that is still good. *)
THEOREM NothingLiveLost == Spec => []NoLiveApprovalLost
  BY Invariance, PTL DEF Inv

-------------------------------------------------------------------------------
(* The table holds at most MaxOutstanding entries: issue counts the pruned  *)
(* table, which nobody changes before the new entry goes in.                *)
Bounded == IsFiniteSet(pending) /\ RegistryBounded

(* Only the store of issue adds to the table. *)
LEMMA OnlyStoreAdds ==
    ASSUME Inv, [Next]_vars, \A t \in Thread : ~IssueStore(t)
    PROVE  pending' \subseteq pending
  <1>1. ASSUME NEW t \in Thread, IssueRefuse(t) PROVE pending' \subseteq pending
    BY <1>1 DEF IssueRefuse, Inv, CopyFresh, Live
  <1>2. ASSUME NEW t \in Thread, ConsumeAccept(t) \/ ConsumeReject(t)
        PROVE  pending' \subseteq pending
    BY <1>2 DEF ConsumeAccept, ConsumeReject, AfterConsume
  <1>3. ASSUME NEW t \in Thread, NEW token, NEW owner, NEW scope, NEW ttl,
               \/ IssueCall(t, token, owner, scope, ttl)
               \/ ConsumeLookup(t, token, owner, scope)
               \/ IssuePrune(t)
        PROVE  pending' = pending
    BY <1>3 DEF IssueCall, ConsumeLookup, IssuePrune
  <1>4. CASE Tick \/ UNCHANGED vars
    BY <1>4 DEF Tick, vars
  <1> QED
    BY <1>1, <1>2, <1>3, <1>4 DEF Next, Locked

LEMMA SmallerBounded ==
    ASSUME Bounded, RegistryAssumption, pending' \subseteq pending
    PROVE  Bounded'
  <1>1. IsFiniteSet(pending') /\ Cardinality(pending') <= Cardinality(pending)
    BY FS_Subset DEF Bounded
  <1>2. Cardinality(pending) \in Nat /\ Cardinality(pending') \in Nat
    BY <1>1, FS_CardinalityType DEF Bounded
  <1> QED
    BY <1>1, <1>2 DEF Bounded, RegistryBounded

LEMMA NextBounded == Inv /\ Bounded /\ [Next]_vars => Bounded'
  <1> SUFFICES ASSUME Inv, Bounded, [Next]_vars PROVE Bounded'
    OBVIOUS
  <1>1. ASSUME NEW t \in Thread, IssueStore(t) PROVE Bounded'
    <2> DEFINE new == Entry(call[t])
    <2>1. copy[t] = Live(pending, call[t].now) /\ HasRoom(copy[t])
      BY <1>1 DEF IssueStore, Inv, CopyFresh
    <2>2. IsFiniteSet(copy[t]) /\ Cardinality(copy[t]) \in Nat
      BY <2>1, FS_Subset, FS_CardinalityType DEF Bounded, Live
    <2>3. pending' = copy[t] \cup {new}
      BY <1>1 DEF IssueStore
    <2>4. /\ IsFiniteSet(copy[t] \cup {new})
          /\ Cardinality(copy[t] \cup {new}) \in {Cardinality(copy[t]), Cardinality(copy[t]) + 1}
      BY <2>2, FS_AddElement
    <2> HIDE DEF new
    <2> QED
      BY <2>1, <2>2, <2>3, <2>4, RegistryAssumption DEF Bounded, RegistryBounded, HasRoom
  <1>2. CASE \A t \in Thread : ~IssueStore(t)
    BY <1>2, OnlyStoreAdds, SmallerBounded, RegistryAssumption
  <1> QED
    BY <1>1, <1>2

(* authorization.py:38-39: the table never outgrows its limit.              *)
THEOREM TableBounded == Spec => []RegistryBounded
  <1>1. Init => Bounded
    BY RegistryAssumption, FS_EmptySet DEF Init, Bounded, RegistryBounded
  <1>2. Bounded => RegistryBounded
    BY DEF Bounded
  <1> QED
    BY <1>1, <1>2, NextBounded, Invariance, PTL DEF Spec

-------------------------------------------------------------------------------
(* What has left the table stays out of it. *)
LEMMA StepNoRevival ==
    Inv /\ [Next]_vars => \A r \in issued : r \notin pending => r \notin pending'
  <1> SUFFICES ASSUME Inv, [Next]_vars, NEW r \in issued, r \notin pending
               PROVE  r \notin pending'
    OBVIOUS
  <1>1. ASSUME NEW t \in Thread, IssueStore(t) PROVE r \notin pending'
    <2>1. r # Entry(call[t])
      BY <1>1 DEF IssueStore, Inv, TokenOwn, Issuing, Entry
    <2>2. copy[t] \subseteq pending
      BY <1>1 DEF IssueStore, Inv, CopyFresh, Live
    <2> QED
      BY <1>1, <2>1, <2>2 DEF IssueStore
  <1>2. CASE \A t \in Thread : ~IssueStore(t)
    BY <1>2, OnlyStoreAdds
  <1> QED
    BY <1>1, <1>2

(* An approval that was used, expired or pruned is never resurrected by a   *)
(* thread that is rebuilding the table.                                     *)
THEOREM NeverRevived == Spec => NoRevival
  <1>1. Inv /\ [Next]_vars => [\A r \in issued : r \notin pending => r \notin pending']_vars
    BY StepNoRevival
  <1> QED
    BY <1>1, Invariance, PTL DEF Spec, NoRevival

-------------------------------------------------------------------------------
(* Each step of the threads is a step of the abstract approvals, or none.   *)
LEMMA StepRefines == Inv /\ Inv' /\ [Next]_vars => [Promise!Next]_(Promise!specVars)
  <1> SUFFICES ASSUME Inv, Inv', [Next]_vars PROVE [Promise!Next]_(Promise!specVars)
    OBVIOUS
  <1>1. CASE Tick
    BY <1>1 DEF Tick, Promise!Next, Promise!Tick
  <1>2. ASSUME NEW t \in Thread, IssueStore(t) PROVE Promise!Next
    <2> DEFINE new == Entry(call[t])
    <2>1. call[t] \in Call /\ call[t].expires <= clock + MaxTtl
      BY <1>2 DEF IssueStore, Inv, TypeOK, ReadingPast, Issuing
    <2>2. new \in Promise!Issuable
      BY <2>1 DEF Promise!Issuable, Entry, Call
    <2>3. Promise!Issue(new)
      BY <1>2 DEF IssueStore, Promise!Issue, Inv, TokenOwn, Issuing, Entry
    <2> QED
      BY <2>2, <2>3 DEF Promise!Next
  <1>3. ASSUME NEW t \in Thread, ConsumeAccept(t) PROVE Promise!Next
    <2> DEFINE c == call[t]
    <2>1. copy[t] = Lookup(pending, c.token)
      BY <1>3 DEF ConsumeAccept, Inv, CopyFresh
    <2>2. PICK r \in pending : r.token = c.token /\ ~Expired(r, clock) /\ Matches(r, c.owner, c.scope)
      BY <1>3, <2>1 DEF ConsumeAccept, Accepts, Lookup
    <2>3. r \in issued /\ r.token \notin Promise!Spent /\ r.expires > clock
      BY <2>2 DEF Inv, TableSound, TypeOK, Record, Approval, Expired, Promise!Spent, Spent
    <2>4. Promise!Honour(r)
      BY <1>3, <2>2, <2>3 DEF ConsumeAccept, Promise!Honour, Matches
    <2> QED
      BY <2>3, <2>4 DEF Promise!Next
  <1>4. CASE ~Tick /\ \A t \in Thread : ~IssueStore(t) /\ ~ConsumeAccept(t)
    BY <1>4 DEF Next, Locked, IssueCall, IssuePrune, IssueRefuse, ConsumeLookup,
       ConsumeReject, vars, Promise!specVars
  <1> QED
    BY <1>1, <1>2, <1>3, <1>4

(* The lock-and-table implementation of authorization.py keeps the promise  *)
(* that SECURITY.md:40-41 makes for it, as the module Approvals states it.  *)
THEOREM KeepsPromise == Spec => PromiseSpec
  <1>1. Init => Promise!Init
    BY DEF Init, Promise!Init
  <1> QED
    BY <1>1, StepRefines, Invariance, PTL DEF Spec, PromiseSpec, Promise!Spec
===============================================================================
