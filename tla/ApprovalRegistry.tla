--------------------------- MODULE ApprovalRegistry ---------------------------
(***************************************************************************)
(* The table that CapabilityApprovals (authorization.py) keeps in           *)
(* _pending, as a set of records, and what issue and consume do to it.      *)
(* A dictionary keyed by the digest of the token is a set of records with   *)
(* distinct tokens: the digest is injective on the tokens that are minted.  *)
(* The operators are pure; CapabilityApprovals applies them under its lock  *)
(* and step by step, RealGovernor and Governor as one atomic call.          *)
(***************************************************************************)
EXTENDS Integers, FiniteSets

CONSTANTS
    MaxTtl,          \* the longest lifetime an approval may have (300 seconds)
    MaxOutstanding   \* how many approvals may be outstanding at once (1024)

ASSUME RegistryAssumption ==
    /\ MaxTtl \in Nat \ {0}
    /\ MaxOutstanding \in Nat \ {0}

(* The records a registry holds. *)
Approval(Tokens, Owners, Scopes) ==
    [token: Tokens, owner: Owners, scope: Scopes, expires: Nat]

(* A bug: no upper limit on the lifetime. *)
ValidTtlUnlimited(ttl) == 0 < ttl

(* issue refuses a lifetime outside 0 < ttl <= 300. *)
ValidTtl(ttl) == 0 < ttl /\ ttl <= MaxTtl

(* What the pruning comprehension of issue keeps at time now. *)
Live(registry, now) == {r \in registry : r.expires > now}

(* After pruning, issue refuses when the table is full. *)
HasRoom(live) == Cardinality(live) < MaxOutstanding

(* _pending.get(digest): no record or one. *)
Lookup(registry, token) == {r \in registry : r.token = token}

(* An entry found by consume that is past its time. *)
Expired(r, now) == r.expires <= now

(* An entry found by consume that is for this owner and exactly this scope. *)
Matches(r, owner, scope) == r.owner = owner /\ r.scope = scope

(* consume returns True. *)
Accepts(registry, token, owner, scope, now) ==
    \E r \in Lookup(registry, token) : ~Expired(r, now) /\ Matches(r, owner, scope)

(* A bug: an entry that was accepted is not deleted. *)
AfterConsumeKept(registry, token, owner, scope, now) ==
    registry \ {r \in Lookup(registry, token) : Expired(r, now)}

(* consume deletes an entry it finds expired and one it accepts; an entry   *)
(* presented for another owner or scope stays.                              *)
AfterConsume(registry, token, owner, scope, now) ==
    registry \ {r \in Lookup(registry, token) : Expired(r, now) \/ Matches(r, owner, scope)}
===============================================================================
