------------------------------ MODULE MCEvidence ------------------------------
(* Values of the constants of Evidence and Engine for TLC.  Each check reads  *)
(* one kind of evidence, so that a run need not mix the kinds.                *)
EXTENDS Engine, TLC

CONSTANTS a1, a2, a3

ThreeAgents == {a1, a2, a3}
Symmetric3 == Permutations(ThreeAgents)
Resources == {"note", "log"}

(* Two capabilities of the root, one that is not, and lists of them. *)
RootLabels == {"fs:read", "fs:write"}
Lists == {<<"fs:read">>, <<"fs:write", "fs:read">>, <<"fs:read", "admin">>}

Asked == {"is-port-22-open", "uptime"}
OneQuery == {"uptime"}
Hosts == {"host-a", "host-b", "host-c"}
Responses == {"yes", "no"}

(* The lines of a trace: those of the graph... *)
GraphLines ==
    {InitEvent("s0"), ForbiddenEvent("net"),
     StateEvent("s0", {}, {}), StateEvent("s0", {"net"}, {}),
     StateEvent("s1", {}, {"key"}), StateEvent("s1", {"net"}, {}),
     TransitionEvent("s0", "s1", "p", {}, {}), TransitionEvent("s0", "s1", "p", {"net"}, {"key"}),
     TransitionEvent("s1", "s0", "q", {}, {}), TransitionEvent("s1", "s1", "q", {}, {})}

(* ...and the others. *)
OtherLines ==
    {Blank, Malformed, DeniedEvent(1, "p", "read"),
     AccessEvent(NoSeq, "p", "note", "write"), AccessEvent(NoSeq, "q", "note", "read"),
     AccessEvent(2, "q", "note", "read"), AccessEvent(1, "q", "note", "write"),
     DeclaredEvent("p", "q"), DeclaredEvent("p", "p"),
     EvidenceEvent("e1", "p", "p", {1}, {FALSE}), EvidenceEvent("e1", "p", "q", {}, {}),
     EvidenceEvent("e2", "q", "q", {0}, {FALSE}),
     DelegationEvent("p", "q", <<"fs:read">>), DelegationEvent("q", "p", <<"fs:read", "admin">>),
     DelegationEvent("p", "q", <<"admin", "admin">>), RootEvent({"fs:read"}), RootEvent({}),
     QueryEvent("uptime", "host-a", "yes"), QueryEvent("uptime", "host-b", "no"),
     FactEvent("uptime")}

AllLines == GraphLines \cup OtherLines

(* Bounds: evidence of one kind at a time, mixed traces only if short, and   *)
(* nothing after a line that had the trace refused.                           *)
OneKind ==
    /\ \/ chain = << >> /\ queries = {}
       \/ accesses = {} /\ declared = {} /\ (chain = << >> \/ queries = {})
    /\ \/ Len(lines) <= 2
       \/ Range(lines) \subseteq GraphLines
       \/ Len(lines) <= 4 /\ Range(lines) \subseteq OtherLines

OneKindSpec == EngineInit /\ [][EngineNext /\ ~Collected(lines).refused /\ OneKind']_engineVars
===============================================================================
