------------------------------ MODULE LivingWeave ------------------------------
(***************************************************************************)
(* LivingWeave (living_weave.py): named guards are registered, and evaluate *)
(* asks each of them about a frozen copy of the caller's action.  Guards    *)
(* are code: while one runs it may register another strand, start another   *)
(* evaluation, or change the caller's dictionary, and it may answer true or *)
(* false, raise, or return nonsense (an error).  Everything happens on one  *)
(* thread, so the calls of evaluate in progress form a stack.               *)
(***************************************************************************)
EXTENDS Integers, Sequences, Functions

CONSTANTS
    Name,          \* strand names
    Action,        \* contents of the caller's dictionary that _freeze accepts
    Unfit,         \* and those that it refuses
    MaxDepth,      \* bound: nested evaluations
    MaxDecisions   \* bound: evaluations begun

ASSUME WeaveAssumption ==
    /\ Unfit \notin Action
    /\ MaxDepth \in Nat
    /\ MaxDecisions \in Nat

VARIABLES
    strands,    \* _strands, in order of insertion
    revision,   \* _revision
    input,      \* what the caller's dictionary holds now
    calls,      \* the evaluate calls in progress, innermost last
    decisions   \* the decisions returned, with the strands there were

vars == <<strands, revision, input, calls, decisions>>

-------------------------------------------------------------------------------
Status == {"allow", "block", "error"}

(* saw is what the guard was handed. *)
Result == [name: Name \cup {"weave", "input"}, status: Status, saw: Action \cup {Unfit}]

Call == [revision: Nat, strands: Seq(Name), action: Action, results: Seq(Result)]

(* What evaluate has to say itself. *)
Objection(name, action) == [name |-> name, status |-> "error", saw |-> action]

Last(list) == list[Len(list)]
Front(list) == SubSeq(list, 1, Len(list) - 1)
Inner == Last(calls)

Init ==
    /\ strands = << >>
    /\ revision = 0
    /\ input \in Action \cup {Unfit}
    /\ calls = << >>
    /\ decisions = << >>

(* A bug: the revision is not counted up. *)
AddStrandQuietly(name) ==
    /\ calls # << >> => Len(Inner.results) # Len(Inner.strands)
    /\ name \notin Range(strands)
    /\ strands' = Append(strands, name)
    /\ UNCHANGED <<revision, input, calls, decisions>>

(* A bug: the loop ends with the first guard that does not allow. *)
HeardUntilBlock(call) ==
    \/ Len(call.results) = Len(call.strands)
    \/ \E i \in DOMAIN call.results : call.results[i].status # "allow"

(* The loop over the strands present at the start is over. *)
Heard(call) == Len(call.results) = Len(call.strands)

(* Code of the caller, or of the guard being asked, runs now. *)
Free == calls # << >> => ~Heard(Inner)

(* The caller's dictionary is changed. *)
Change(action) ==
    /\ Free
    /\ input' = action
    /\ UNCHANGED <<strands, revision, calls, decisions>>

(* add_strand; a name that is taken raises and changes nothing. *)
AddStrand(name) ==
    /\ Free
    /\ name \notin Range(strands)
    /\ strands' = Append(strands, name)
    /\ revision' = revision + 1
    /\ UNCHANGED <<input, calls, decisions>>

-------------------------------------------------------------------------------
Begun == Len(calls) + Len(decisions)

(* Without strands, or when _freeze raises, evaluate asks nobody. *)
Refuse ==
    /\ Free
    /\ Begun < MaxDecisions
    /\ strands = << >> \/ input = Unfit
    /\ decisions' = Append(decisions,
           [allowed |-> FALSE, action |-> input,
            results |-> <<Objection(IF strands = << >> THEN "weave" ELSE "input", input)>>,
            start |-> strands, registered |-> Range(strands)])
    /\ UNCHANGED <<strands, revision, input, calls>>

Evaluate ==
    /\ Free
    /\ Len(calls) < MaxDepth
    /\ Begun < MaxDecisions
    /\ strands # << >>
    /\ input # Unfit
    /\ calls' = Append(calls, [revision |-> revision, strands |-> strands, action |-> input,
                               results |-> << >>])
    /\ UNCHANGED <<strands, revision, input, decisions>>

(* A bug: the guard is handed the caller's own dictionary. *)
HandedLive(call) == input

(* What the guard is handed. *)
Handed(call) == call.action

(* The guard whose turn it is returns or raises. *)
Vote(status) ==
    LET result == [name |-> Inner.strands[Len(Inner.results) + 1], status |-> status,
                   saw |-> Handed(Inner)]
    IN /\ calls # << >>
       /\ ~Heard(Inner)
       /\ calls' = [calls EXCEPT ![Len(calls)].results = Append(@, result)]
       /\ UNCHANGED <<strands, revision, input, decisions>>

(* Bugs: the configuration is compared the wrong way, or not at all. *)
ReconfiguredAlways(call) == revision >= call.revision
ReconfiguredNever(call) == FALSE

(* A strand was registered since the evaluation began. *)
Reconfigured(call) == revision # call.revision

(* All have been asked: evaluate adds its own objection, if it has one. *)
Conclude ==
    LET own == Objection("weave", Inner.action)
        results == IF Reconfigured(Inner) THEN Append(Inner.results, own) ELSE Inner.results
    IN /\ calls # << >>
       /\ Heard(Inner)
       /\ decisions' = Append(decisions,
              [allowed |-> \A i \in DOMAIN results : results[i].status = "allow",
               action |-> Inner.action, results |-> results,
               start |-> Inner.strands, registered |-> Range(strands)])
       /\ calls' = Front(calls)
       /\ UNCHANGED <<strands, revision, input>>

Next ==
    \/ \E action \in Action \cup {Unfit} : Change(action)
    \/ \E name \in Name : AddStrand(name)
    \/ Refuse
    \/ Evaluate
    \/ \E status \in Status : Vote(status)
    \/ Conclude

Spec == Init /\ [][Next]_vars

-------------------------------------------------------------------------------
(* Types; the revision counts the strands. *)
TypeOK ==
    /\ strands \in Seq(Name)
    /\ revision = Len(strands)
    /\ input \in Action \cup {Unfit}
    /\ calls \in Seq(Call)
    /\ decisions \in Seq([allowed: BOOLEAN, action: Action \cup {Unfit}, results: Seq(Result),
                          start: Seq(Name), registered: SUBSET Name])

(* living_weave.py:5, "an action proceeds only when every configured        *)
(* strand explicitly allows it": when a decision allows, every strand        *)
(* registered at that moment, by whatever guard, has allowed in that very    *)
(* evaluation, and on exactly the snapshot the executor is handed.           *)
AllowedUnanimous ==
    \A i \in DOMAIN decisions :
        LET d == decisions[i] IN
        d.allowed =>
            /\ d.registered # {}
            /\ d.action # Unfit
            /\ \A name \in d.registered : \E k \in DOMAIN d.results :
                  /\ d.results[k].name = name
                  /\ d.results[k].status = "allow"
                  /\ d.results[k].saw = d.action

(* "All guards present at evaluation start run, even after one blocks or    *)
(* crashes" (living_weave.py:133-134), once each and in order, also when    *)
(* they evaluate or register in between.                                    *)
AllHeard ==
    \A i \in DOMAIN decisions :
        LET d == decisions[i] IN
        d.action # Unfit =>
            /\ Len(d.start) <= Len(d.results)
            /\ \A k \in DOMAIN d.start : d.results[k].name = d.start[k]

(* A refusal has a reason: no strands, an unfit action, a guard that did    *)
(* not allow, or a strand registered meanwhile; nothing that happens in an  *)
(* inner or outer evaluation counts.                                        *)
RefusalExplained ==
    \A i \in DOMAIN decisions :
        LET d == decisions[i] IN
        ~d.allowed =>
            \/ d.registered = {}
            \/ d.action = Unfit
            \/ \E k \in DOMAIN d.start : d.results[k].status # "allow"
            \/ d.registered # Range(d.start)
===============================================================================
