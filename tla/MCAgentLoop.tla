------------------------------ MODULE MCAgentLoop ------------------------------
(* AgentLoop and HardenedRun get their numbers in MCAgentLoop.cfg.             *)
EXTENDS HardenedRun

(* Bound: what the loop does with the parts of a line and with the agent's    *)
(* complaints is left to the runs that are not hardened; a hardened process   *)
(* complains until its agent starts, and its agent writes whole lines.         *)
Narrow ==
    harden =>
        /\ \A i \in DOMAIN wire' : wire'[i] # "part"
        /\ stage = AgentStage => errors' <= errors

NarrowRunSpec ==
    /\ RunInit /\ [][RunNext /\ Narrow]_allVars
    /\ WF_vars(Tick) /\ WF_vars(Governor)
===============================================================================
