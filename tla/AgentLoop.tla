------------------------------- MODULE AgentLoop -------------------------------
(***************************************************************************)
(* RealGovernor.run_agent (sandbox/governor_process.py): the selector loop  *)
(* that mediates one agent's process.  The agent writes requests, reads     *)
(* responses, complains, closes its ends and exits whenever it likes, also  *)
(* half-way through a line; a child it leaves behind in its process group   *)
(* may keep its ends open.                                                  *)
(* The loop handles what the selector reports, one event after another, in  *)
(* any order, and looks at the deadline only before it asks the selector.   *)
(* Data are counted: a line is any number of fragments and an end that says *)
(* what the line is; a response is one or more units.                       *)
(***************************************************************************)
EXTENDS Integers, Sequences

CONSTANTS
    PipeRoom,      \* what the agent's output pipe holds, in fragments and lines
    InRoom,        \* what its input pipe holds, in units of response
    ErrRoom,       \* what its error pipe holds
    MaxResponse,   \* units of the longest response
    MaxParts,      \* fragments of the longest line (MAX_REQUEST_BYTES)
    MaxOut,        \* the limit of the response buffer (MAX_REQUEST_BYTES)
    MaxErr,        \* the limit of error output (MAX_STDERR_BYTES)
    MaxRequests    \* 256

ASSUME LoopAssumption ==
    {PipeRoom, InRoom, ErrRoom, MaxResponse, MaxParts, MaxOut, MaxErr, MaxRequests}
        \subseteq Nat

VARIABLES
    late,         \* the deadline has passed
    outOpen, errOpen, inOpen,   \* the agent's ends of its three pipes
    running,      \* the agent's process has not exited
    wire,         \* unread content of the output pipe
    errors,       \* amount of unread content of the error pipe
    inbox,        \* amount of unread content of the input pipe
    pc,           \* where run_agent is
    batch,        \* events the selector reported that are still to be handled
    registered,   \* the selector's map
    closed,       \* the governor's ends that are closed
    incoming,     \* the incoming buffer
    outgoing,     \* length of the outgoing buffer
    stderr,       \* length of the stderr buffer
    requests,     \* request_count, of the requests that were handled
    exiting,      \* exiting
    result        \* why the loop was left

agentVars == <<outOpen, errOpen, inOpen, running, wire, errors, inbox>>
loopVars == <<pc, batch, registered, closed, incoming, outgoing, stderr, requests, exiting, result>>
vars == <<late, agentVars, loopVars>>

-------------------------------------------------------------------------------
Pipe == {"stdin", "stdout", "stderr"}
Ending == {"request", "exit", "invalid"}
Token == Ending \cup {"part"}

Init ==
    /\ late = FALSE
    /\ outOpen = TRUE /\ errOpen = TRUE /\ inOpen = TRUE
    /\ running = TRUE
    /\ wire = << >> /\ errors = 0 /\ inbox = 0
    /\ pc = "check"
    /\ batch = {}
    /\ registered = {"stdout", "stderr"}
    /\ closed = {}
    /\ incoming = << >> /\ outgoing = 0 /\ stderr = 0
    /\ requests = 0
    /\ exiting = FALSE
    /\ result = "none"

Tick ==
    /\ late' = TRUE
    /\ UNCHANGED <<agentVars, loopVars>>

-------------------------------------------------------------------------------
(* The agent, and children it has left behind. *)
Say(token) ==
    /\ outOpen /\ Len(wire) < PipeRoom
    /\ wire' = Append(wire, token)
    /\ UNCHANGED <<late, outOpen, errOpen, inOpen, running, errors, inbox, loopVars>>

Complain ==
    /\ errOpen /\ errors < ErrRoom
    /\ errors' = errors + 1
    /\ UNCHANGED <<late, outOpen, errOpen, inOpen, running, wire, inbox, loopVars>>

Listen ==
    /\ inOpen /\ inbox > 0
    /\ inbox' = inbox - 1
    /\ UNCHANGED <<late, outOpen, errOpen, inOpen, running, wire, errors, loopVars>>

HangUp ==
    /\ \/ outOpen /\ outOpen' = FALSE /\ UNCHANGED <<errOpen, inOpen>>
       \/ errOpen /\ errOpen' = FALSE /\ UNCHANGED <<outOpen, inOpen>>
       \/ inOpen /\ inOpen' = FALSE /\ UNCHANGED <<outOpen, errOpen>>
    /\ UNCHANGED <<late, running, wire, errors, inbox, loopVars>>

(* With whatever exit code, or by a signal. *)
Exit ==
    /\ running
    /\ running' = FALSE
    /\ UNCHANGED <<late, outOpen, errOpen, inOpen, wire, errors, inbox, loopVars>>

Agent ==
    \/ \E token \in Token : Say(token)
    \/ Complain
    \/ Listen
    \/ HangUp
    \/ Exit

-------------------------------------------------------------------------------
(* The loop raises: on to the finally block. *)
Raise(why) == result' = why /\ pc' = "cleanup"
Go(where) == pc' = where /\ UNCHANGED result

Ready(pipe) ==
    CASE pipe = "stdout" -> wire # << >> \/ ~outOpen
      [] pipe = "stderr" -> errors > 0 \/ ~errOpen
      [] pipe = "stdin" -> inbox < InRoom \/ ~inOpen

(* while selector.get_map(), and the deadline. *)
Check ==
    /\ pc = "check"
    /\ IF registered = {} THEN Go("wait") ELSE IF late THEN Raise("timeout") ELSE Go("select")
    /\ UNCHANGED <<late, agentVars, batch, registered, closed, incoming, outgoing, stderr,
                   requests, exiting>>

(* A bug: the selector waits for events without a limit. *)
SelectForever ==
    /\ pc = "select"
    /\ batch' = {p \in registered : Ready(p)}
    /\ batch' # {}
    /\ Go("batch")
    /\ UNCHANGED <<late, agentVars, registered, closed, incoming, outgoing, stderr, requests,
                   exiting>>

(* The selector reports what is ready, or nothing at the deadline. *)
Select ==
    /\ pc = "select"
    /\ batch' = {p \in registered : Ready(p)}
    /\ batch' # {} \/ late
    /\ Go("batch")
    /\ UNCHANGED <<late, agentVars, registered, closed, incoming, outgoing, stderr, requests,
                   exiting>>

BatchDone ==
    /\ pc = "batch"
    /\ batch = {}
    /\ Go("check")
    /\ UNCHANGED <<late, agentVars, batch, registered, closed, incoming, outgoing, stderr,
                   requests, exiting>>

Event(pipe) == pc = "batch" /\ pipe \in batch /\ batch' = batch \ {pipe}

(* Bugs: a flushed stdin stays open for an agent that has closed its output; *)
(* a partial write is taken for a whole one.                                *)
WriteForgets(n) ==
    LET left == outgoing - n IN
    /\ Event("stdin")
    /\ inOpen
    /\ inbox + n <= InRoom
    /\ inbox' = inbox + n
    /\ outgoing' = left
    /\ registered' = IF left = 0 THEN registered \ {"stdin"} ELSE registered
    /\ closed' = IF left = 0 /\ exiting THEN closed \cup {"stdin"} ELSE closed
    /\ Go("batch")
    /\ UNCHANGED <<late, outOpen, errOpen, inOpen, running, wire, errors, incoming, stderr,
                   requests, exiting>>

WriteAssumesAll(n) ==
    /\ Event("stdin")
    /\ inOpen
    /\ inbox + n <= InRoom
    /\ inbox' = inbox + n
    /\ outgoing' = outgoing - n
    /\ registered' = registered \ {"stdin"}
    /\ closed' = IF exiting \/ "stdout" \in closed THEN closed \cup {"stdin"} ELSE closed
    /\ Go("batch")
    /\ UNCHANGED <<late, outOpen, errOpen, inOpen, running, wire, errors, incoming, stderr,
                   requests, exiting>>

(* os.write takes some of the outgoing buffer; when it is empty stdin leaves *)
(* the selector, and is closed if nothing more can be asked.                *)
Write(n) ==
    LET left == outgoing - n IN
    /\ Event("stdin")
    /\ inOpen
    /\ inbox + n <= InRoom
    /\ inbox' = inbox + n
    /\ outgoing' = left
    /\ registered' = IF left = 0 THEN registered \ {"stdin"} ELSE registered
    /\ closed' = IF left = 0 /\ (exiting \/ "stdout" \in closed) THEN closed \cup {"stdin"}
                 ELSE closed
    /\ Go("batch")
    /\ UNCHANGED <<late, outOpen, errOpen, inOpen, running, wire, errors, incoming, stderr,
                   requests, exiting>>

WriteBroken ==
    /\ Event("stdin")
    /\ ~inOpen
    /\ Raise("pipe")
    /\ UNCHANGED <<late, agentVars, registered, closed, incoming, outgoing, stderr, requests,
                   exiting>>

ReadErrors(n) ==
    /\ Event("stderr")
    /\ n <= errors
    /\ errors' = errors - n
    /\ stderr' = stderr + n
    /\ IF stderr + n > MaxErr THEN Raise("limit") ELSE Go("batch")
    /\ UNCHANGED <<late, outOpen, errOpen, inOpen, running, wire, inbox, registered, closed,
                   incoming, outgoing, requests, exiting>>

EndOfErrors ==
    /\ Event("stderr")
    /\ errors = 0 /\ ~errOpen
    /\ registered' = registered \ {"stderr"}
    /\ closed' = closed \cup {"stderr"}
    /\ Go("batch")
    /\ UNCHANGED <<late, agentVars, incoming, outgoing, stderr, requests, exiting>>

ReadOutput(n) ==
    /\ Event("stdout")
    /\ n <= Len(wire)
    /\ incoming' = incoming \o SubSeq(wire, 1, n)
    /\ wire' = SubSeq(wire, n + 1, Len(wire))
    /\ Go("lines")
    /\ UNCHANGED <<late, outOpen, errOpen, inOpen, running, errors, inbox, registered, closed,
                   outgoing, stderr, requests, exiting>>

(* A bug: stdin is closed with responses still to be written. *)
EndOfOutputClosing ==
    /\ Event("stdout")
    /\ wire = << >> /\ ~outOpen
    /\ registered' = registered \ {"stdout"}
    /\ closed' = closed \cup {"stdout", "stdin"}
    /\ IF incoming # << >> THEN Raise("protocol") ELSE Go("batch")
    /\ UNCHANGED <<late, agentVars, incoming, outgoing, stderr, requests, exiting>>

(* The agent's output has ended: with no line open, and stdin closed if all *)
(* responses are written.                                                   *)
EndOfOutput ==
    /\ Event("stdout")
    /\ wire = << >> /\ ~outOpen
    /\ registered' = registered \ {"stdout"}
    /\ closed' = closed \cup {"stdout"}
                     \cup (IF incoming = << >> /\ outgoing = 0 THEN {"stdin"} ELSE {})
    /\ IF incoming # << >> THEN Raise("protocol") ELSE Go("batch")
    /\ UNCHANGED <<late, agentVars, incoming, outgoing, stderr, requests, exiting>>

-------------------------------------------------------------------------------
(* while b"\n" in incoming: the first line ends at the first token that is  *)
(* not a fragment.                                                          *)
Ends == {i \in DOMAIN incoming : incoming[i] \in Ending}
FirstLine(end) == end \in Ends /\ \A i \in Ends : end <= i

(* A bug: the count of requests is checked one too late. *)
RefusedOneLate(end) ==
    \/ end > MaxParts + 1
    \/ requests > MaxRequests
    \/ exiting
    \/ incoming[end] = "invalid"

(* The line is too long, one too many, after exit, or not valid JSON. *)
Refused(end) ==
    \/ end > MaxParts + 1
    \/ requests = MaxRequests
    \/ exiting
    \/ incoming[end] = "invalid"

RefuseLine ==
    /\ pc = "lines"
    /\ \E end \in Ends : FirstLine(end) /\ Refused(end)
    /\ Raise("protocol")
    /\ UNCHANGED <<late, agentVars, batch, registered, closed, incoming, outgoing, stderr,
                   requests, exiting>>

(* A bug: the buffer is measured before the response goes in. *)
FitsBefore(length) == outgoing <= MaxOut

(* The response buffer limit. *)
Fits(length) == length <= MaxOut

(* _handle, and its response; a request whose response does not fit has     *)
(* been handled all the same.                                               *)
HandleLine(size) ==
    /\ pc = "lines"
    /\ \E end \in Ends :
          /\ FirstLine(end) /\ ~Refused(end)
          /\ incoming' = SubSeq(incoming, end + 1, Len(incoming))
          /\ requests' = requests + 1
          /\ outgoing' = outgoing + size
          /\ IF Fits(outgoing + size)
             THEN /\ registered' = registered \cup {"stdin"}
                  /\ exiting' = (incoming[end] = "exit")
                  /\ Go("lines")
             ELSE /\ Raise("limit")
                  /\ UNCHANGED <<registered, exiting>>
    /\ UNCHANGED <<late, agentVars, batch, closed, stderr>>

LinesDone ==
    /\ pc = "lines"
    /\ Ends = {}
    /\ IF Len(incoming) > MaxParts THEN Raise("limit") ELSE Go("batch")
    /\ UNCHANGED <<late, agentVars, batch, registered, closed, incoming, outgoing, stderr,
                   requests, exiting>>

-------------------------------------------------------------------------------
(* proc.wait with what is left of the time. *)
Wait ==
    /\ pc = "wait"
    /\ IF ~running THEN Raise("exited") ELSE late /\ Raise("timeout")
    /\ UNCHANGED <<late, agentVars, batch, registered, closed, incoming, outgoing, stderr,
                   requests, exiting>>

(* finally: the process group is killed, the pipes are closed, the child is *)
(* reaped.                                                                  *)
Cleanup ==
    /\ pc = "cleanup"
    /\ running' = FALSE
    /\ outOpen' = FALSE /\ errOpen' = FALSE /\ inOpen' = FALSE
    /\ registered' = {}
    /\ closed' = Pipe
    /\ Go("done")
    /\ UNCHANGED <<late, wire, errors, inbox, batch, incoming, outgoing, stderr, requests,
                   exiting>>

Governor ==
    \/ Check
    \/ Select
    \/ BatchDone
    \/ \E n \in 1 .. outgoing : Write(n)
    \/ WriteBroken
    \/ \E n \in 1 .. errors : ReadErrors(n)
    \/ EndOfErrors
    \/ \E n \in 1 .. Len(wire) : ReadOutput(n)
    \/ EndOfOutput
    \/ RefuseLine
    \/ \E size \in 1 .. MaxResponse : HandleLine(size)
    \/ LinesDone
    \/ Wait
    \/ Cleanup

Next == Tick \/ Agent \/ Governor

Spec == Init /\ [][Next]_vars

(* Time passes, and the governor's thread runs; the agent need do nothing.  *)
FairSpec == Spec /\ WF_vars(Tick) /\ WF_vars(Governor)

-------------------------------------------------------------------------------
(* Types, with the pipes and the number of requests handled in their ranges. *)
TypeOK ==
    /\ late \in BOOLEAN
    /\ outOpen \in BOOLEAN /\ errOpen \in BOOLEAN /\ inOpen \in BOOLEAN
    /\ running \in BOOLEAN
    /\ wire \in Seq(Token) /\ Len(wire) <= PipeRoom
    /\ errors \in 0 .. ErrRoom
    /\ inbox \in 0 .. InRoom
    /\ pc \in {"check", "select", "batch", "lines", "wait", "cleanup", "done"}
    /\ batch \subseteq Pipe
    /\ registered \subseteq Pipe
    /\ closed \subseteq Pipe
    /\ incoming \in Seq(Token)
    /\ outgoing \in Nat
    /\ stderr \in Nat
    /\ requests \in 0 .. MaxRequests
    /\ exiting \in BOOLEAN
    /\ result \in {"none", "timeout", "protocol", "limit", "pipe", "exited"}

Handling == pc \notin {"cleanup", "done"}

(* README.md:41-42, "The governor limits request count, request/response    *)
(* size, stderr output": whatever the agent floods it with, what the        *)
(* governor has taken in exceeds a limit by at most one read or response,   *)
(* and then it stops.                                                       *)
Bounded ==
    /\ outgoing <= MaxOut + MaxResponse
    /\ stderr <= MaxErr + ErrRoom
    /\ Len(incoming) <= MaxParts + PipeRoom
    /\ Handling => outgoing <= MaxOut /\ stderr <= MaxErr

(* An event is handled only on a pipe that is open and still registered,    *)
(* although handling one event of a batch may unregister or close the pipe  *)
(* of another; otherwise the loop would raise on a closed file.             *)
EventsLive ==
    Handling => /\ batch \subseteq registered
                /\ registered \cap closed = {}
                /\ "stdin" \in registered <=> outgoing > 0

(* stdin is closed as soon as all responses are written and no request can  *)
(* follow, so an agent that waits for the end of its input is not left to   *)
(* the deadline; and it is never closed before that.                        *)
StdinClosedInTime ==
    Handling => /\ "stdin" \in closed <=> outgoing = 0 /\ (exiting \/ "stdout" \in closed)
                /\ "stdout" \in closed => incoming = << >>

(* An exit code is reported only after a whole conversation: every line the *)
(* agent wrote was handled, and every response was written to it.           *)
WholeConversation ==
    result = "exited" => wire = << >> /\ incoming = << >> /\ outgoing = 0

(* governor_process.py:198-202, "must all remain finite.  Every exit path   *)
(* kills leftover members of the subprocess group, closes pipes, and reaps  *)
(* the child", whatever the agent does or does not do.                      *)
Finite == <>(pc = "done" /\ ~running /\ ~outOpen /\ closed = Pipe)
===============================================================================
