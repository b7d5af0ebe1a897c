------------------------------ MODULE HardenedRun ------------------------------
(***************************************************************************)
(* run_agent with the process it starts.  Hardened, that process is a chain *)
(* (kernel_containment.py): prlimit, unshare, a shell with two mounts,      *)
(* setpriv and the trusted bootstrap (kernel_lockdown.py), each taking the  *)
(* place of the one before it, and only then the agent's code.  Any of them *)
(* may fail, complain on stderr, be killed, or still be at work when the    *)
(* deadline passes.  unshare waits outside the namespaces and holds the     *)
(* pipes until the chain is over, whatever the agent closes.                *)
(* Not hardened, the process is the agent from the start.                   *)
(***************************************************************************)
EXTENDS AgentLoop

CONSTANTS
    ExitCode,   \* the codes an agent may exit with
    Signal      \* the signals a process may be killed by

ASSUME RunAssumption == ExitCode \subseteq Int /\ Signal \subseteq Nat \ {0}

VARIABLES
    harden,    \* the governor's switch
    stage,     \* how far the process has come
    layers,    \* the protections it has taken on
    status,    \* its wait status, when it is over: an exit code, or minus a signal
    outcome    \* how run_agent ended

runVars == <<harden, stage, layers, status, outcome>>
allVars == <<vars, runVars>>

-------------------------------------------------------------------------------
Chain == <<"limits", "namespaces", "private mounts", "read-only root", "privileges dropped",
           "source read", "system calls filtered">>
Layer == {Chain[i] : i \in DOMAIN Chain}
AgentStage == Len(Chain) + 1
Over == AgentStage + 1

RunInit ==
    /\ Init
    /\ harden \in BOOLEAN
    /\ stage = IF harden THEN 1 ELSE AgentStage
    /\ layers = {}
    /\ status = 0
    /\ outcome = "none"

(* A bug: the shell goes on after a mount that failed.                      *)
AfterStageRegardless(s) == {layers, layers \cup {Chain[s]}}

AfterStage(s) == {layers \cup {Chain[s]}}

Advance ==
    /\ running /\ stage < AgentStage
    /\ layers' \in AfterStage(stage)
    /\ stage' = stage + 1
    /\ UNCHANGED <<vars, harden, status, outcome>>

(* 1 stands for every code a tool fails with (32 of mount, 127 of exec).    *)
OwnExit == {c % 256 : c \in ExitCode} \cup {-n : n \in Signal}
ToolExit == {1} \cup {-n : n \in Signal}
ShellExit == ToolExit \cup {128 + n : n \in Signal}

(* A bug: the mounts' exit codes get lost.                                  *)
ExitsOfLost(s) ==
    IF s = AgentStage \/ Chain[s] \in {"private mounts", "read-only root"} THEN OwnExit
    ELSE ToolExit

(* How the chain may end in a stage.  os._exit keeps the low byte of the  *)
(* agent's code, the shell makes an exit code of the signal that killed a   *)
(* mount, and unshare dies by the signal that killed its child, the shell   *)
(* itself included.  When the chain is over, unshare still has to exit.     *)
ExitsOf(s) ==
    IF s = AgentStage THEN OwnExit
    ELSE IF Chain[s] \in {"private mounts", "read-only root"} THEN ShellExit
    ELSE ToolExit

Die ==
    /\ running /\ stage < Over
    /\ status' \in ExitsOf(stage)
    /\ stage' = Over
    /\ IF harden THEN UNCHANGED vars ELSE Exit
    /\ UNCHANGED <<harden, layers, outcome>>

(* What of the agent's behaviour is possible in the stage: the trusted      *)
(* stages only complain; a hardened agent closes nothing for good and       *)
(* leaves no child behind, since its namespace ends with it.                *)
Process ==
    /\ \/ /\ stage = AgentStage \/ ~harden
          /\ Listen \/ \E token \in Token : Say(token)
       \/ /\ stage < Over \/ ~harden
          /\ Complain
       \/ /\ stage = Over \/ ~harden
          /\ HangUp
       \/ stage = Over /\ Exit
    /\ UNCHANGED runVars

(* A bug: the exit code is that of a later wait, in the finally block.      *)
ReportReapedLate ==
    /\ pc = "done" /\ outcome = "none"
    /\ outcome' = IF stage < Over \/ status < 0 THEN "killed"
                  ELSE IF result # "exited" \/ status # 0 THEN "failed" ELSE "returned"
    /\ UNCHANGED <<vars, harden, stage, layers, status>>

(* After the finally block: the exception that was on its way, or what      *)
(* becomes of the exit code.                                                *)
Report ==
    /\ pc = "done" /\ outcome = "none"
    /\ outcome' = IF result # "exited" THEN "stopped"
                  ELSE IF status < 0 THEN "killed"
                  ELSE IF status # 0 THEN "failed" ELSE "returned"
    /\ UNCHANGED <<vars, harden, stage, layers, status>>

RunNext ==
    \/ Advance
    \/ Die
    \/ Process
    \/ (Tick \/ Governor) /\ UNCHANGED runVars
    \/ Report

RunSpec == RunInit /\ [][RunNext]_allVars

(* Fairness is the loop's: nothing obliges a stage of the chain, or the     *)
(* agent, to go on or to end.                                               *)
FairRunSpec == RunSpec /\ WF_vars(Tick) /\ WF_vars(Governor)

-------------------------------------------------------------------------------
(* "Setup failure aborts execution without an unsafe fallback" (README.md): *)
(* whichever stages fail, the governor has never been handed a word, let    *)
(* alone handled a request, of a hardened process that lacks a layer.       *)
Heard == wire # << >> \/ incoming # << >> \/ requests > 0

RunsConfined == harden /\ (stage = AgentStage \/ Heard) => layers = Layer

(* run_agent returns only for an agent that got to run, under every layer   *)
(* if hardened, whose own exit code was a multiple of 256, and with whom    *)
(* the conversation was whole.  AgentKilledByKernel is raised only for a    *)
(* process that was killed, never for one that the governor itself killed   *)
(* at the deadline or for breaking the protocol.                            *)
ReportedTruly ==
    /\ outcome = "returned" =>
        /\ harden => layers = Layer
        /\ stage = Over /\ status = 0
        /\ wire = << >> /\ incoming = << >> /\ outgoing = 0
    /\ outcome = "killed" => stage = Over /\ status \in {-n : n \in Signal}
===============================================================================
