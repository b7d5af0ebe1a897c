------------------------------- MODULE Approvals -------------------------------
(***************************************************************************)
(* What the approval mechanism promises (authorization.py:1-7): an approval *)
(* is for one owner and one exact scope, is good until it expires, and is   *)
(* used at most once.  There is no lock, no table and no pruning here: only *)
(* the approvals that were issued and the uses that were honoured.          *)
(***************************************************************************)
EXTENDS Integers, Sequences

CONSTANTS Owner, Scope, Token, MaxTtl

VARIABLES
    clock,    \* time.monotonic()
    issued,   \* every approval ever issued
    uses      \* the uses that were honoured, oldest first

specVars == <<clock, issued, uses>>

Use == [token: Token, owner: Owner, scope: Scope, at: Nat]

Spent == {uses[i].token : i \in DOMAIN uses}

Init ==
    /\ clock = 0
    /\ issued = {}
    /\ uses = << >>

Tick ==
    /\ clock' = clock + 1
    /\ UNCHANGED <<issued, uses>>

(* A new token; the approval lives at most MaxTtl from now (see Issuable). *)
Issue(r) ==
    /\ \A i \in issued : i.token # r.token
    /\ issued' = issued \cup {r}
    /\ UNCHANGED <<clock, uses>>

(* An issued approval is honoured for its owner and scope, in time, once. *)
Honour(r) ==
    /\ r \in issued
    /\ r.token \notin Spent
    /\ r.expires > clock
    /\ uses' = Append(uses, [token |-> r.token, owner |-> r.owner,
                             scope |-> r.scope, at |-> clock])
    /\ UNCHANGED <<clock, issued>>

(* An approval that could be issued now. *)
Issuable == [token: Token, owner: Owner, scope: Scope, expires: 0 .. clock + MaxTtl]

Next ==
    \/ Tick
    \/ \E r \in Issuable : Issue(r)
    \/ \E r \in issued : Honour(r)

Spec == Init /\ [][Next]_specVars
===============================================================================
