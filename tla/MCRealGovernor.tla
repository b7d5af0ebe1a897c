---------------------------- MODULE MCRealGovernor ----------------------------
(* Values of the constants of RealGovernor for TLC.  Each configuration       *)
(* switches on the part of the governor its question is about and leaves the  *)
(* inputs of the other parts empty.                                           *)
EXTENDS FailingTrail, TLC

CONSTANTS a1, a2, a3, k1, k2

None == {}
NoAnswers == << >>
TwoAgents == {a1, a2}
ThreeAgents == {a1, a2, a3}
Symmetric3 == Permutations(ThreeAgents)

Pairs3 == {p \in ThreeAgents \X ThreeAgents : p[1] # p[2]}
Pair == {<<a1, a2>>}

(* Capabilities. *)
FsLabels == {"fs:read", "fs:write", "delegate"}
Labels == FsLabels \cup {"api-key"}
WriteOnly == {"fs:write"}
Asked == {"fs:write", "api-key"}
Secret == {"api-key"}
WriteGrant == {{"fs:write"}}
DelegateGrants == {{"delegate"}, {"fs:read"}}
ReadOn == {<<"fs:read", "delegate">>}
ReadLists == {<<"fs:read">>}
RepeatedLists == {<<"fs:read", "fs:read">>}
AllGrant == {{"fs:read", "fs:write", "delegate"}}

(* One file behind a canonical name and a name that differs only in case. *)
AliasNames == {"note", "Note"}
OneName == {"note"}
OneFile == {"inode"}
AliasedFile == [n \in AliasNames |-> "inode"]

(* The backing states of mirror_server.py:14-17. *)
OneHost == {"host-a"}
Ports == {"is-port-22-open"}
OneAnswer == [p \in OneHost \X Ports |-> "yes"]

TwoTokens == {k1, k2}
ApprovalSymmetry == Permutations(TwoAgents) \cup Permutations(TwoTokens)

(* Without enforcement nothing consults the access lists.                     *)
OpenSpec == TrailInit /\ [][TrailNext /\ UNCHANGED resources]_trailVars

(* Bound: one denial, which records itself and moves the counter.             *)
OneDenialSpec ==
    TrailInit /\ [][TrailNext /\ Cardinality(At(trace', "operation_denied")) <= 1]_trailVars
===============================================================================
