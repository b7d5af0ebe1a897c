------------------------- MODULE MCCapabilityApprovals -------------------------
(* Values of the constants of CapabilityApprovals for TLC: two threads, two   *)
(* agents, and two capability sets of which one contains the other, so that   *)
(* an approval of the smaller is not one of the larger.                       *)
EXTENDS CapabilityApprovals, TLC

CONSTANTS t1, t2, k1, k2, k3

MCThread == {t1, t2}
MCToken == {k1, k2, k3}
MCOwner == {"worker", "peer"}
MCScope == {{"fs:read"}, {"fs:read", "fs:write"}}

(* Threads are interchangeable and so are tokens. *)
Interchangeable == Permutations(MCThread) \cup Permutations(MCToken)
===============================================================================
