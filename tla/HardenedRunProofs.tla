--------------------------- MODULE HardenedRunProofs ---------------------------
(***************************************************************************)
(* Proofs about AgentLoop and HardenedRun.                                  *)
(* The loop, for pipes and limits of any size and an agent that does        *)
(* anything: where the loop is says what its buffers can hold (Places), and  *)
(* an end of a pipe that was seen stays the end (Ended).                    *)
(* Hardened runs: every step is a step of AgentLoop or leaves the loop      *)
(* alone, so what is proved of the loop holds; and how far the chain has    *)
(* come says which layers there are (RunInv).                               *)
(***************************************************************************)
EXTENDS HardenedRun, TLAPS

(* Between events no complete line is left, and no batch between selects.   *)
Places ==
    /\ pc \in {"check", "select", "wait"} => batch = {}
    /\ pc \in {"check", "select", "batch", "wait"} => Ends = {} /\ Len(incoming) <= MaxParts
    /\ pc = "wait" => registered = {}
    /\ Handling <=> result = "none"

(* stdout and stderr are closed when they leave the selector, and stdout    *)
(* only at its end.                                                         *)
Ended ==
    Handling =>
        /\ "stdout" \in registered <=> "stdout" \notin closed
        /\ "stderr" \in registered <=> "stderr" \notin closed
        /\ "stdout" \in closed => wire = << >> /\ ~outOpen

Whole == result = "exited" => ~outOpen /\ wire = << >> /\ incoming = << >> /\ outgoing = 0

Pipes == EventsLive /\ StdinClosedInTime /\ Ended

Inv == TypeOK /\ Places /\ Pipes /\ Bounded /\ Whole

-------------------------------------------------------------------------------
LEMMA Limits ==
    /\ PipeRoom \in Nat /\ InRoom \in Nat /\ ErrRoom \in Nat /\ MaxResponse \in Nat
    /\ MaxParts \in Nat /\ MaxOut \in Nat /\ MaxErr \in Nat /\ MaxRequests \in Nat
BY LoopAssumption

LEMMA InitInv == Init => Inv
<1> SUFFICES ASSUME Init PROVE Inv
    OBVIOUS
<1>1. TypeOK
    <2>1. << >> \in Seq(Token) /\ Len(<< >>) = 0
        OBVIOUS
    <2>2. 0 \in 0 .. ErrRoom /\ 0 \in 0 .. InRoom /\ 0 \in 0 .. MaxRequests /\ 0 <= PipeRoom
        BY Limits
    <2> QED
        BY <2>1, <2>2 DEF Init, TypeOK, Pipe
<1>2. Places
    BY Limits DEF Init, Places, Ends, Handling
<1>3. Pipes
    BY DEF Init, Pipes, EventsLive, StdinClosedInTime, Ended, Handling
<1>4. Bounded /\ Whole
    BY Limits DEF Init, Bounded, Whole, Handling
<1> QED
    BY <1>1, <1>2, <1>3, <1>4 DEF Inv

(* What the agent does leaves the loop alone, and cannot undo an end.       *)
LEMMA AgentInv == Inv /\ (Tick \/ Agent) => Inv'
<1> SUFFICES ASSUME Inv, Tick \/ Agent PROVE Inv'
    OBVIOUS
<1> USE DEF Inv
<1>1. UNCHANGED loopVars
    BY DEF Tick, Agent, Say, Complain, Listen, HangUp, Exit
<1>2. ~outOpen => ~outOpen' /\ wire' = wire
    BY DEF Tick, Agent, Say, Complain, Listen, HangUp, Exit, agentVars
<1>3. TypeOK'
    <2>1. CASE Tick
        BY <2>1 DEF Tick, TypeOK, agentVars, loopVars
    <2>2. CASE \E token \in Token : Say(token)
        BY <2>2, Limits DEF Say, TypeOK, loopVars
    <2>3. CASE Complain
        BY <2>3, Limits DEF Complain, TypeOK, loopVars
    <2>4. CASE Listen
        BY <2>4, Limits DEF Listen, TypeOK, loopVars
    <2>5. CASE HangUp
        <3>1. late' \in BOOLEAN /\ outOpen' \in BOOLEAN /\ errOpen' \in BOOLEAN /\ inOpen' \in BOOLEAN
              /\ running' \in BOOLEAN
            BY <2>5 DEF HangUp, TypeOK
        <3>2. wire' \in Seq(Token) /\ Len(wire') <= PipeRoom
              /\ errors' \in 0 .. ErrRoom /\ inbox' \in 0 .. InRoom
            <4>1. UNCHANGED <<wire, errors, inbox>>
                BY <2>5 DEF HangUp
            <4> QED
                BY <4>1 DEF TypeOK
        <3>3. pc' \in {"check", "select", "batch", "lines", "wait", "cleanup", "done"}
              /\ batch' \subseteq Pipe /\ registered' \subseteq Pipe /\ closed' \subseteq Pipe
            BY <1>1 DEF loopVars, TypeOK
        <3>4. incoming' \in Seq(Token) /\ outgoing' \in Nat /\ stderr' \in Nat
              /\ requests' \in 0 .. MaxRequests /\ exiting' \in BOOLEAN
              /\ result' \in {"none", "timeout", "protocol", "limit", "pipe", "exited"}
            BY <1>1 DEF loopVars, TypeOK
        <3> HIDE DEF Inv
        <3> QED
            BY <3>1, <3>2, <3>3, <3>4, ZenonT(40) DEF TypeOK
    <2>6. CASE Exit
        BY <2>6 DEF Exit, TypeOK, loopVars
    <2> QED
        BY <2>1, <2>2, <2>3, <2>4, <2>5, <2>6 DEF Agent
<1>4. Places'
    BY <1>1 DEF Places, Ends, Handling, loopVars
<1>5. Pipes'
    BY <1>1, <1>2 DEF Pipes, EventsLive, StdinClosedInTime, Ended, Handling, loopVars
<1>6. Bounded' /\ Whole'
    BY <1>1, <1>2 DEF Bounded, Whole, Handling, loopVars
<1> QED
    BY <1>3, <1>4, <1>5, <1>6

(* Leaving the loop keeps the buffers and the types as they are.            *)
LEMMA RaiseInv ==
    ASSUME Inv, NEW why \in {"timeout", "protocol", "limit", "pipe"}, Raise(why), Handling,
           TypeOK', Bounded'
    PROVE  Inv'
BY DEF Inv, Raise, Places, Pipes, EventsLive, StdinClosedInTime, Ended, Whole, Handling

LEMMA CheckInv == Inv /\ Check => Inv'
<1> SUFFICES ASSUME Inv, Check PROVE Inv'
    OBVIOUS
<1> USE DEF Inv
<1>1. TypeOK' /\ Bounded'
    BY DEF Check, Go, Raise, TypeOK, Bounded, Handling, agentVars
<1>2. CASE Raise("timeout")
    BY <1>1, <1>2, RaiseInv DEF Check, Handling
<1>3. CASE ~Raise("timeout")
    <2>1. Places'
        BY <1>3 DEF Check, Go, Raise, Places, Ends, Handling
    <2>2. Pipes' /\ Whole'
        BY <1>3 DEF Check, Go, Raise, Pipes, EventsLive, StdinClosedInTime, Ended, Whole,
           Handling, agentVars
    <2> QED
        BY <1>1, <2>1, <2>2
<1> QED
    BY <1>2, <1>3

LEMMA SelectInv == Inv /\ (Select \/ BatchDone) => Inv'
<1> SUFFICES ASSUME Inv, Select \/ BatchDone PROVE Inv'
    OBVIOUS
<1> USE DEF Inv
<1>1. TypeOK' /\ Bounded'
    BY DEF Select, BatchDone, Go, TypeOK, Bounded, Handling, agentVars
<1>2. Places'
    BY DEF Select, BatchDone, Go, Places, Ends, Handling
<1>3. Pipes' /\ Whole'
    BY DEF Select, BatchDone, Go, Pipes, EventsLive, StdinClosedInTime, Ended, Whole,
       Handling, agentVars
<1> QED
    BY <1>1, <1>2, <1>3

LEMMA WriteInv == ASSUME Inv, NEW n \in 1 .. outgoing, Write(n) PROVE Inv'
<1> USE DEF Inv
<1>1. TypeOK'
    BY Limits DEF Write, Event, Go, TypeOK, Pipe
<1>2. Places' /\ Bounded' /\ Whole'
    BY Limits DEF Write, Event, Go, TypeOK, Places, Ends, Bounded, Whole, Handling
<1>3. Pipes'
    BY DEF Write, Event, Go, TypeOK, Pipes, EventsLive, StdinClosedInTime, Ended, Handling
<1> QED
    BY <1>1, <1>2, <1>3

LEMMA WriteBrokenInv == Inv /\ WriteBroken => Inv'
<1> SUFFICES ASSUME Inv, WriteBroken PROVE Inv'
    OBVIOUS
<1>1. TypeOK' /\ Bounded'
    BY DEF Inv, WriteBroken, Event, Raise, TypeOK, Bounded, Handling, agentVars
<1> QED
    BY <1>1, RaiseInv DEF WriteBroken, Event, Handling

LEMMA ErrorsInv ==
    Inv /\ (EndOfErrors \/ \E n \in 1 .. errors : ReadErrors(n)) => Inv'
<1> SUFFICES ASSUME Inv, EndOfErrors \/ \E n \in 1 .. errors : ReadErrors(n) PROVE Inv'
    OBVIOUS
<1> USE DEF Inv
<1>1. TypeOK'
    <2>1. CASE EndOfErrors
        BY <2>1 DEF EndOfErrors, Event, Go, TypeOK, Pipe, agentVars
    <2>2. ASSUME NEW n \in 1 .. errors, ReadErrors(n) PROVE TypeOK'
        <3>1. errors' \in 0 .. ErrRoom /\ stderr' \in Nat
            BY <2>2, Limits DEF ReadErrors, TypeOK
        <3> QED
            BY <2>2, <3>1 DEF ReadErrors, Event, Go, Raise, TypeOK
    <2> QED
        BY <2>1, <2>2
<1>2. Bounded'
    BY Limits DEF EndOfErrors, ReadErrors, Event, Go, Raise, TypeOK, Bounded, Handling
<1>3. CASE Raise("limit")
    BY <1>1, <1>2, <1>3, RaiseInv DEF EndOfErrors, ReadErrors, Event, Handling
<1>4. CASE ~Raise("limit")
    <2>1. Go("batch")
        BY <1>4 DEF EndOfErrors, ReadErrors
    <2>2. Places'
        BY <2>1 DEF EndOfErrors, ReadErrors, Event, Go, Places, Ends, Handling
    <2>3. Pipes'
        BY <2>1 DEF EndOfErrors, ReadErrors, Event, Go, Pipes, EventsLive, StdinClosedInTime,
           Ended, Handling, agentVars
    <2>4. Whole'
        BY <2>1 DEF EndOfErrors, ReadErrors, Event, Go, Whole, agentVars
    <2> QED
        BY <1>1, <1>2, <2>2, <2>3, <2>4
<1> QED
    BY <1>3, <1>4

LEMMA ReadOutputInv == ASSUME Inv, NEW n \in 1 .. Len(wire), ReadOutput(n) PROVE Inv'
<1> USE DEF Inv
<1>1. /\ incoming' \in Seq(Token) /\ Len(incoming') = Len(incoming) + n
      /\ wire' \in Seq(Token) /\ Len(wire') = Len(wire) - n
    <2>1. wire \in Seq(Token) /\ incoming \in Seq(Token) /\ Len(wire) \in Nat /\ n \in 1 .. Len(wire)
        BY DEF TypeOK
    <2>2. SubSeq(wire, 1, n) \in Seq(Token) /\ Len(SubSeq(wire, 1, n)) = n
        BY <2>1
    <2>3. /\ SubSeq(wire, n + 1, Len(wire)) \in Seq(Token)
          /\ Len(SubSeq(wire, n + 1, Len(wire))) = Len(wire) - n
        BY <2>1
    <2> QED
        BY <2>1, <2>2, <2>3 DEF ReadOutput
<1>2. TypeOK'
    BY <1>1, Limits DEF ReadOutput, Event, Go, TypeOK
<1>3. Places'
    BY DEF ReadOutput, Event, Go, Places, Handling
<1>4. Bounded'
    BY <1>1, Limits DEF ReadOutput, Event, Go, TypeOK, Places, Bounded, Handling
<1>5. Pipes' /\ Whole'
    BY DEF ReadOutput, Event, Go, Places, Pipes, EventsLive, StdinClosedInTime, Ended, Whole,
       Handling
<1> QED
    BY <1>2, <1>3, <1>4, <1>5

LEMMA EndOfOutputInv == Inv /\ EndOfOutput => Inv'
<1> SUFFICES ASSUME Inv, EndOfOutput PROVE Inv'
    OBVIOUS
<1> USE DEF Inv
<1>1. TypeOK' /\ Bounded'
    BY DEF EndOfOutput, Event, Go, Raise, TypeOK, Bounded, Handling, Pipe, agentVars
<1>2. CASE incoming # << >>
    BY <1>1, <1>2, RaiseInv DEF EndOfOutput, Event, Handling
<1>3. CASE incoming = << >>
    <2>1. Places' /\ Whole'
        BY <1>3 DEF EndOfOutput, Event, Go, Places, Ends, Whole, Handling, agentVars
    <2>2. Pipes'
        BY <1>3 DEF EndOfOutput, Event, Go, TypeOK, Pipes, EventsLive, StdinClosedInTime,
           Ended, Handling, agentVars
    <2> QED
        BY <1>1, <2>1, <2>2
<1> QED
    BY <1>2, <1>3

LEMMA RefuseLineInv == Inv /\ RefuseLine => Inv'
<1> SUFFICES ASSUME Inv, RefuseLine PROVE Inv'
    OBVIOUS
<1>1. TypeOK' /\ Bounded'
    BY DEF Inv, RefuseLine, Raise, TypeOK, Bounded, Handling, agentVars
<1> QED
    BY <1>1, RaiseInv DEF RefuseLine, Handling

LEMMA HandleLineInv == ASSUME Inv, NEW size \in 1 .. MaxResponse, HandleLine(size) PROVE Inv'
<1> USE DEF Inv
<1>1. PICK end \in Ends :
          /\ ~Refused(end)
          /\ incoming' = SubSeq(incoming, end + 1, Len(incoming))
          /\ incoming[end] \in Ending
    BY DEF HandleLine, Ends
<1>2. end \in 1 .. Len(incoming) /\ incoming # << >>
    BY DEF Ends, TypeOK
<1>3. incoming' \in Seq(Token) /\ Len(incoming') = Len(incoming) - end
    BY <1>1, <1>2 DEF TypeOK
<1>4. requests' \in 0 .. MaxRequests /\ ~exiting
    BY <1>1, Limits DEF HandleLine, Refused, TypeOK
<1>5. outgoing' = outgoing + size /\ outgoing' \in Nat /\ outgoing' > 0
    BY Limits DEF HandleLine, TypeOK
<1>6. TypeOK'
    BY <1>3, <1>4, <1>5 DEF HandleLine, Go, Raise, TypeOK, Pipe, agentVars
<1>7. Bounded'
    BY <1>2, <1>3, <1>5, Limits DEF HandleLine, Fits, Go, Raise, TypeOK, Bounded, Handling
<1>8. CASE ~Fits(outgoing + size)
    BY <1>6, <1>7, <1>8, RaiseInv DEF HandleLine, Handling
<1>9. CASE Fits(outgoing + size)
    <2>1. Places' /\ Whole'
        BY <1>9 DEF HandleLine, Go, Places, Whole, Handling
    <2>2. "stdout" \notin closed /\ "stdin" \notin closed
        BY <1>2, <1>4 DEF HandleLine, Pipes, StdinClosedInTime, Handling
    <2>3. Pipes'
        BY <1>5, <1>9, <2>2 DEF HandleLine, Go, Pipes, EventsLive, StdinClosedInTime, Ended,
           Handling, agentVars
    <2> QED
        BY <1>6, <1>7, <2>1, <2>3
<1> QED
    BY <1>8, <1>9

LEMMA LinesDoneInv == Inv /\ LinesDone => Inv'
<1> SUFFICES ASSUME Inv, LinesDone PROVE Inv'
    OBVIOUS
<1> USE DEF Inv
<1>1. TypeOK' /\ Bounded'
    BY DEF LinesDone, Go, Raise, TypeOK, Bounded, Handling, agentVars
<1>2. CASE Len(incoming) > MaxParts
    BY <1>1, <1>2, RaiseInv DEF LinesDone, Handling
<1>3. CASE ~(Len(incoming) > MaxParts)
    <2>1. Places' /\ Whole'
        BY <1>3, Limits DEF LinesDone, Go, TypeOK, Places, Ends, Whole, Handling, agentVars
    <2>2. Pipes'
        BY <1>3 DEF LinesDone, Go, Pipes, EventsLive, StdinClosedInTime, Ended, Handling, agentVars
    <2> QED
        BY <1>1, <2>1, <2>2
<1> QED
    BY <1>2, <1>3

LEMMA WaitInv == Inv /\ Wait => Inv'
<1> SUFFICES ASSUME Inv, Wait PROVE Inv'
    OBVIOUS
<1> USE DEF Inv
<1>1. TypeOK' /\ Bounded'
    BY DEF Wait, Raise, TypeOK, Bounded, Handling, agentVars
<1>2. "stdout" \in closed /\ outgoing = 0
    BY DEF Wait, TypeOK, Places, Pipes, EventsLive, Ended, Handling
<1>3. ~outOpen /\ wire = << >> /\ incoming = << >>
    BY <1>2 DEF Wait, Pipes, StdinClosedInTime, Ended, Handling
<1>4. Places' /\ Pipes' /\ Whole'
    BY <1>2, <1>3 DEF Wait, Raise, Places, Pipes, EventsLive, StdinClosedInTime, Ended, Whole,
       Handling, agentVars
<1> QED
    BY <1>1, <1>4

LEMMA CleanupInv == Inv /\ Cleanup => Inv'
<1> SUFFICES ASSUME Inv, Cleanup PROVE Inv'
    OBVIOUS
<1> USE DEF Inv
<1>1. TypeOK' /\ Bounded'
    BY DEF Cleanup, Go, TypeOK, Bounded, Handling, Pipe
<1>2. Places' /\ Pipes' /\ Whole'
    BY DEF Cleanup, Go, Places, Pipes, EventsLive, StdinClosedInTime, Ended, Whole, Handling
<1> QED
    BY <1>1, <1>2

LEMMA NextInv == Inv /\ [Next]_vars => Inv'
<1> SUFFICES ASSUME Inv, [Next]_vars PROVE Inv'
    OBVIOUS
<1>1. CASE UNCHANGED vars
    BY <1>1 DEF vars, agentVars, loopVars, Inv, TypeOK, Places, Ends, Pipes, EventsLive,
       StdinClosedInTime, Ended, Bounded, Whole, Handling
<1>2. CASE Governor
    BY <1>2, CheckInv, SelectInv, WriteInv, WriteBrokenInv, ErrorsInv, ReadOutputInv,
       EndOfOutputInv, RefuseLineInv, HandleLineInv, LinesDoneInv, WaitInv, CleanupInv
       DEF Governor
<1> QED
    BY <1>1, <1>2, AgentInv DEF Next

-------------------------------------------------------------------------------
(* The loop's state keeps its shape under any agent.                        *)
THEOREM Invariance == Spec => []Inv
BY InitInv, NextInv, PTL DEF Spec

(* run_agent's variables stay in their ranges: no more requests are handled *)
(* than MAX_REQUESTS.                                                       *)
THEOREM TypeCorrect == Spec => []TypeOK
<1>1. Inv => TypeOK
    BY DEF Inv
<1> QED
    BY <1>1, Invariance, PTL

(* An agent that floods its pipes or never reads cannot make a buffer grow  *)
(* by more than one read or response beyond its limit.                      *)
THEOREM FloodBounded == Spec => []Bounded
<1>1. Inv => Bounded
    BY DEF Inv
<1> QED
    BY <1>1, Invariance, PTL

(* No event of a batch is handled on a pipe that an earlier one closed.     *)
THEOREM NoDeadEvent == Spec => []EventsLive
<1>1. Inv => EventsLive
    BY DEF Inv, Pipes
<1> QED
    BY <1>1, Invariance, PTL

(* The agent's input ends exactly when all is answered and nothing follows. *)
THEOREM InputEnds == Spec => []StdinClosedInTime
<1>1. Inv => StdinClosedInTime
    BY DEF Inv, Pipes
<1> QED
    BY <1>1, Invariance, PTL

(* An exit code is reported only after all was read, handled and answered.  *)
THEOREM ConversationWhole == Spec => []WholeConversation
<1>1. Inv => WholeConversation
    BY DEF Inv, Whole, WholeConversation
<1> QED
    BY <1>1, Invariance, PTL
-------------------------------------------------------------------------------
(* How many steps the governor can take at most once the deadline has       *)
(* passed: each event of a batch is good for one read and the lines that    *)
(* are then in the buffer.                                                  *)
Stretch == MaxParts + PipeRoom + 2
Pending(pipe) == IF pipe \in batch THEN Stretch ELSE 0
BatchLeft == Pending("stdin") + Pending("stdout") + Pending("stderr")

StepsLeft ==
    CASE pc = "done" -> 0
      [] pc = "cleanup" -> 1
      [] pc = "wait" -> 2
      [] pc = "check" -> 3
      [] pc = "batch" -> 4 + BatchLeft
      [] pc = "lines" -> 5 + BatchLeft + Len(incoming)
      [] pc = "select" -> 5 + Stretch + Stretch + Stretch

Hurries == [][late => /\ Governor => StepsLeft' < StepsLeft
                      /\ Tick \/ Agent => StepsLeft' = StepsLeft]_vars

Reaped == pc = "done" => ~running /\ ~outOpen /\ ~errOpen /\ ~inOpen /\ closed = Pipe

LEMMA Lengths ==
    /\ Stretch \in Nat
    /\ \A pipe : Pending(pipe) \in {0, Stretch}
    /\ BatchLeft \in 0 .. Stretch + Stretch + Stretch
<1>1. Stretch \in Nat
    BY Limits DEF Stretch
<1> QED
    BY <1>1 DEF Pending, BatchLeft

LEMMA StepsBounded == TypeOK => StepsLeft \in Nat
<1> SUFFICES ASSUME TypeOK PROVE StepsLeft \in Nat
    OBVIOUS
<1>1. BatchLeft \in Nat /\ Stretch \in Nat /\ Len(incoming) \in Nat
    BY Lengths DEF TypeOK
<1>2. pc \in {"check", "select", "batch", "lines", "wait", "cleanup", "done"}
    BY DEF TypeOK
<1> QED
    BY <1>1, <1>2 DEF StepsLeft

(* An event that is handled shortens the batch by one. *)
LEMMA EventShortens ==
    ASSUME NEW pipe \in Pipe, Event(pipe)
    PROVE  BatchLeft' = BatchLeft - Stretch /\ BatchLeft' \in Nat /\ StepsLeft = 4 + BatchLeft
<1>1. Stretch \in Nat
    BY Lengths
<1>2. pc = "batch" /\ pipe \in batch /\ batch' = batch \ {pipe}
    BY DEF Event
<1>3. Pending(pipe) = Stretch /\ Pending(pipe)' = 0
    BY <1>2 DEF Pending, Stretch
<1>4. \A other \in Pipe : other # pipe => Pending(other)' = Pending(other) /\ Pending(other) \in {0, Stretch}
    BY <1>2 DEF Pending, Stretch
<1>5. BatchLeft' = Pending("stdin")' + Pending("stdout")' + Pending("stderr")'
    BY DEF BatchLeft
<1>6. BatchLeft' = BatchLeft - Stretch /\ BatchLeft' \in Nat
    <2>1. CASE pipe = "stdin"
        BY <1>1, <1>3, <1>4, <1>5, <2>1 DEF BatchLeft, Pipe
    <2>2. CASE pipe = "stdout"
        BY <1>1, <1>3, <1>4, <1>5, <2>2 DEF BatchLeft, Pipe
    <2>3. CASE pipe = "stderr"
        BY <1>1, <1>3, <1>4, <1>5, <2>3 DEF BatchLeft, Pipe
    <2> QED
        BY <2>1, <2>2, <2>3 DEF Pipe
<1> QED
    BY <1>2, <1>6 DEF StepsLeft

LEMMA Shrinks == ASSUME Inv, late, Governor PROVE StepsLeft' < StepsLeft
<1> USE DEF Inv
<1>1. /\ Stretch \in Nat /\ BatchLeft \in 0 .. Stretch + Stretch + Stretch
      /\ Len(incoming) \in Nat /\ Len(incoming) + 1 < Stretch
    BY Lengths, Limits DEF TypeOK, Bounded, Stretch
<1>2. pc' = "cleanup" => StepsLeft' = 1
    BY DEF StepsLeft
<1>3. pc \in {"check", "select", "batch", "lines", "wait"} => StepsLeft > 1
    BY <1>1 DEF StepsLeft
<1>4. CASE Check
    <2>1. pc = "check" /\ pc' \in {"wait", "cleanup"}
        BY <1>4 DEF Check, Go, Raise
    <2> QED
        BY <2>1 DEF StepsLeft
<1>5. CASE Select
    <2>1. pc = "select" /\ pc' = "batch"
        BY <1>5 DEF Select, Go
    <2>2. StepsLeft' = 4 + BatchLeft'
        BY <2>1 DEF StepsLeft
    <2>3. BatchLeft' \in 0 .. Stretch + Stretch + Stretch
        BY <1>1 DEF BatchLeft, Pending, Stretch
    <2> QED
        BY <1>1, <2>1, <2>2, <2>3 DEF StepsLeft
<1>6. CASE BatchDone
    BY <1>1, <1>6 DEF BatchDone, Go, StepsLeft
<1>7. ASSUME NEW pipe \in Pipe, Event(pipe), pc' \in {"batch", "cleanup"}
      PROVE  StepsLeft' < StepsLeft
    <2>1. BatchLeft' = BatchLeft - Stretch /\ BatchLeft' \in Nat /\ StepsLeft = 4 + BatchLeft
        BY <1>7, EventShortens
    <2>2. pc' = "batch" => StepsLeft' = 4 + BatchLeft'
        BY DEF StepsLeft
    <2>3. Stretch \in Nat /\ Stretch > 1 /\ BatchLeft \in Nat
        BY <1>1
    <2>4. CASE pc' = "batch"
        BY <2>1, <2>2, <2>3, <2>4
    <2>5. CASE pc' = "cleanup"
        BY <1>2, <2>1, <2>3, <2>5
    <2> QED
        BY <1>7, <2>4, <2>5
<1>8. ASSUME NEW n \in 1 .. outgoing, Write(n) PROVE StepsLeft' < StepsLeft
    BY <1>7, <1>8 DEF Write, Event, Go, Pipe
<1>9. CASE WriteBroken
    BY <1>7, <1>9 DEF WriteBroken, Event, Raise, Pipe
<1>10. ASSUME NEW n \in 1 .. errors, ReadErrors(n) PROVE StepsLeft' < StepsLeft
    BY <1>7, <1>10 DEF ReadErrors, Event, Go, Raise, Pipe
<1>11. CASE EndOfErrors
    BY <1>7, <1>11 DEF EndOfErrors, Event, Go, Pipe
<1>12. CASE EndOfOutput
    BY <1>7, <1>12 DEF EndOfOutput, Event, Go, Raise, Pipe
<1>13. ASSUME NEW n \in 1 .. Len(wire), ReadOutput(n) PROVE StepsLeft' < StepsLeft
    <2>1. Event("stdout") /\ pc' = "lines"
        BY <1>13 DEF ReadOutput, Go
    <2>2. BatchLeft' = BatchLeft - Stretch /\ BatchLeft' \in Nat /\ StepsLeft = 4 + BatchLeft
        BY <2>1, EventShortens DEF Pipe
    <2>3. Inv'
        BY <1>13, ReadOutputInv
    <2>4. Len(incoming') \in Nat /\ Len(incoming') + 1 < Stretch
        BY <2>3, Limits DEF TypeOK, Bounded, Stretch
    <2>5. StepsLeft' = 5 + BatchLeft' + Len(incoming')
        BY <2>1 DEF StepsLeft
    <2>6. Stretch \in Nat /\ BatchLeft \in Nat
        BY <1>1
    <2> QED
        BY <2>2, <2>4, <2>5, <2>6
<1>14. CASE RefuseLine
    BY <1>2, <1>3, <1>14 DEF RefuseLine, Raise
<1>15. ASSUME NEW size \in 1 .. MaxResponse, HandleLine(size) PROVE StepsLeft' < StepsLeft
    <2>1. PICK end \in Ends : incoming' = SubSeq(incoming, end + 1, Len(incoming))
        BY <1>15 DEF HandleLine
    <2>2. Len(incoming') \in Nat /\ Len(incoming') < Len(incoming)
        <3>1. end \in 1 .. Len(incoming) /\ incoming \in Seq(Token)
            BY DEF Ends, TypeOK
        <3> QED
            BY <2>1, <3>1
    <2>3. pc = "lines" /\ pc' \in {"lines", "cleanup"} /\ batch' = batch
        BY <1>15 DEF HandleLine, Go, Raise
    <2>4. BatchLeft' = BatchLeft
        BY <2>3 DEF BatchLeft, Pending, Stretch
    <2>5. StepsLeft = 5 + BatchLeft + Len(incoming)
        BY <2>3 DEF StepsLeft
    <2>6. pc' = "lines" => StepsLeft' = 5 + BatchLeft' + Len(incoming')
        BY DEF StepsLeft
    <2> QED
        BY <1>1, <1>2, <2>2, <2>3, <2>4, <2>5, <2>6
<1>16. CASE LinesDone
    <2>1. pc = "lines" /\ pc' \in {"batch", "cleanup"} /\ batch' = batch
        BY <1>16 DEF LinesDone, Go, Raise
    <2>2. BatchLeft' = BatchLeft
        BY <2>1 DEF BatchLeft, Pending, Stretch
    <2>3. StepsLeft = 5 + BatchLeft + Len(incoming)
        BY <2>1 DEF StepsLeft
    <2>4. pc' = "batch" => StepsLeft' = 4 + BatchLeft'
        BY DEF StepsLeft
    <2> QED
        BY <1>1, <1>2, <2>1, <2>2, <2>3, <2>4
<1>17. CASE Wait
    BY <1>2, <1>3, <1>17 DEF Wait, Raise
<1>18. CASE Cleanup
    BY <1>18 DEF Cleanup, Go, StepsLeft
<1> QED
    BY <1>4, <1>5, <1>6, <1>8, <1>9, <1>10, <1>11, <1>12, <1>13, <1>14, <1>15, <1>16, <1>17, <1>18
       DEF Governor

LEMMA Quiet == Tick \/ Agent => StepsLeft' = StepsLeft
<1>1. Tick \/ Agent => UNCHANGED loopVars
    BY DEF Tick, Agent, Say, Complain, Listen, HangUp, Exit
<1> QED
    BY <1>1 DEF loopVars, StepsLeft, BatchLeft, Pending, Stretch

(* governor_process.py:198-202, "with a wall deadline ... must all remain    *)
(* finite": once the deadline has passed every step of run_agent brings its *)
(* end nearer, and nothing the agent does puts it off.                      *)
THEOREM DeadlineEnds == Spec => Hurries
<1>1. Inv /\ [Next]_vars =>
          [late => /\ Governor => StepsLeft' < StepsLeft
                   /\ Tick \/ Agent => StepsLeft' = StepsLeft]_vars
    BY Shrinks, Quiet
<1> QED
    BY <1>1, Invariance, PTL DEF Spec, Hurries

(* ...and that number is one of steps, never negative.                      *)
THEOREM StepsAreCounted == Spec => [](StepsLeft \in Nat)
<1>1. TypeOK => StepsLeft \in Nat
    BY StepsBounded
<1> QED
    BY <1>1, TypeCorrect, PTL

(* governor_process.py:198-202, "kills leftover members of the subprocess   *)
(* group, closes pipes, and reaps the child": on every path to its end.     *)
THEOREM EndsCleanly == Spec => []Reaped
<1>1. Init => Reaped
    BY DEF Init, Reaped
<1>2. ASSUME Reaped, [Next]_vars PROVE Reaped'
    <2>1. CASE UNCHANGED vars
        BY <1>2, <2>1 DEF Reaped, vars, agentVars, loopVars
    <2>2. CASE Tick \/ Agent
        BY <1>2, <2>2 DEF Reaped, Tick, Agent, Say, Complain, Listen, HangUp, Exit, agentVars, loopVars
    <2>3. CASE Cleanup
        BY <2>3 DEF Cleanup, Go, Reaped
    <2>4. CASE Governor /\ ~Cleanup
        <3>1. pc' # "done"
            BY <2>4 DEF Governor, Check, Select, BatchDone, Write, WriteBroken, ReadErrors, EndOfErrors,
               ReadOutput, EndOfOutput, RefuseLine, HandleLine, LinesDone, Wait, Event, Go, Raise
        <3> QED
            BY <3>1 DEF Reaped
    <2> QED
        BY <1>2, <2>1, <2>2, <2>3, <2>4 DEF Next
<1> QED
    BY <1>1, <1>2, PTL DEF Spec

-------------------------------------------------------------------------------
(* The layers are those of the stages that are done, a process that ended   *)
(* well had them all, and the loop learns of an end only when there is one. *)
RunInv ==
    /\ harden \in BOOLEAN /\ stage \in 1 .. Over
    /\ harden /\ stage < Over => layers = {Chain[i] : i \in 1 .. stage - 1}
    /\ harden /\ stage = Over /\ status = 0 => layers = Layer
    /\ stage = Over => status \in OwnExit \cup ShellExit \cup ToolExit
    /\ harden /\ Heard => layers = Layer
    /\ ~running => stage = Over \/ ~Handling
    /\ result = "exited" => stage = Over
    /\ pc = "done" => ~running

OutcomeInv ==
    /\ outcome # "none" => pc = "done"
    /\ outcome = "returned" => result = "exited" /\ status = 0
    /\ outcome = "killed" => result = "exited" /\ status < 0

Strong == Inv /\ RunInv /\ OutcomeInv

-------------------------------------------------------------------------------
LEMMA Stages ==
    /\ Len(Chain) = 7 /\ AgentStage = 8 /\ Over = 9
    /\ Layer = {Chain[i] : i \in 1 .. AgentStage - 1}
    /\ DOMAIN Chain = 1 .. 7
BY DEF Chain, AgentStage, Over, Layer

LEMMA Statuses ==
    /\ \A s \in OwnExit \cup ShellExit \cup ToolExit : s \in Int /\ (s < 0 => s \in {-n : n \in Signal})
    /\ 0 \notin ShellExit /\ 0 \notin ToolExit
BY RunAssumption DEF OwnExit, ShellExit, ToolExit

LEMMA StepOfLoop == RunNext => [Next]_vars
BY DEF RunNext, Advance, Die, Process, Report, Next, Agent

LEMMA InitStrong == RunInit => Strong
<1> SUFFICES ASSUME RunInit PROVE Strong
    OBVIOUS
<1>1. Inv
    BY InitInv DEF RunInit
<1>2. RunInv
    BY Stages DEF RunInit, RunInv, Init, Heard, Handling
<1>3. OutcomeInv
    BY DEF RunInit, OutcomeInv
<1> QED
    BY <1>1, <1>2, <1>3 DEF Strong

(* The last layer is there when the agent's code starts.                    *)
LEMMA AdvanceStrong == Strong /\ Advance => RunInv' /\ OutcomeInv'
<1> SUFFICES ASSUME Strong, Advance PROVE RunInv' /\ OutcomeInv'
    OBVIOUS
<1>1. stage \in 1 .. 7 /\ stage' = stage + 1 /\ layers' = layers \cup {Chain[stage]}
    BY Stages DEF Strong, RunInv, Advance, AfterStage
<1>2. harden => layers' = {Chain[i] : i \in 1 .. stage' - 1}
    <2> SUFFICES ASSUME harden PROVE layers' = {Chain[i] : i \in 1 .. stage' - 1}
        OBVIOUS
    <2>1. layers = {Chain[i] : i \in 1 .. stage - 1}
        BY <1>1, Stages DEF Strong, RunInv
    <2>2. 1 .. stage' - 1 = (1 .. stage - 1) \cup {stage}
        BY <1>1
    <2> QED
        BY <1>1, <2>1, <2>2
<1>3. harden /\ Heard => layers' = Layer
    <2>1. harden /\ Heard => layers = Layer
        BY DEF Strong, RunInv
    <2>2. Chain[stage] \in Layer
        BY <1>1, Stages DEF Layer
    <2> QED
        BY <1>1, <2>1, <2>2
<1>4. UNCHANGED <<running, wire, incoming, requests, pc, result, harden, status, outcome>>
    BY DEF Advance, vars, agentVars, loopVars
<1>5. RunInv'
    BY <1>1, <1>2, <1>3, <1>4, Stages DEF Strong, RunInv, Heard, Handling, Advance
<1>6. OutcomeInv'
    BY <1>4 DEF Strong, OutcomeInv
<1> QED
    BY <1>5, <1>6

LEMMA DieStrong == Strong /\ Die => RunInv' /\ OutcomeInv'
<1> SUFFICES ASSUME Strong, Die PROVE RunInv' /\ OutcomeInv'
    OBVIOUS
<1>1. stage \in 1 .. 8 /\ stage' = Over /\ running
    BY Stages DEF Strong, RunInv, Die
<1>2. UNCHANGED <<wire, incoming, requests, pc, result, harden, layers, outcome>>
    BY DEF Die, Exit, vars, agentVars, loopVars
<1>3. status' \in OwnExit \cup ShellExit \cup ToolExit /\ (status' = 0 => stage = AgentStage)
    BY <1>1, Statuses DEF Die, ExitsOf
<1>4. harden /\ stage = AgentStage => layers = Layer
    BY Stages DEF Strong, RunInv
<1>5. pc # "done"
    BY <1>1 DEF Strong, RunInv
<1>6. RunInv'
    BY <1>1, <1>2, <1>3, <1>4, <1>5, Stages DEF Strong, RunInv, Heard, Handling
<1>7. OutcomeInv'
    BY <1>2, <1>5 DEF Strong, OutcomeInv
<1> QED
    BY <1>6, <1>7

(* Only the agent's own stage puts a word on the wire.                      *)
LEMMA ProcessStrong == Strong /\ Process => RunInv' /\ OutcomeInv'
<1> SUFFICES ASSUME Strong, Process PROVE RunInv' /\ OutcomeInv'
    OBVIOUS
<1>1. UNCHANGED <<incoming, requests, pc, result, harden, stage, layers, status, outcome>>
    BY DEF Process, Say, Listen, Complain, HangUp, Exit, loopVars, runVars
<1>2. harden /\ wire' # wire => stage = AgentStage
    BY DEF Process, Say, Listen, Complain, HangUp, Exit
<1>3. running' = running \/ (stage = Over /\ running' = FALSE)
    BY DEF Process, Say, Listen, Complain, HangUp, Exit
<1>4. harden /\ stage = AgentStage => layers = Layer
    BY Stages DEF Strong, RunInv
<1>5. RunInv'
    BY <1>1, <1>2, <1>3, <1>4 DEF Strong, RunInv, Heard, Handling
<1>6. OutcomeInv'
    BY <1>1 DEF Strong, OutcomeInv
<1> QED
    BY <1>5, <1>6

(* The loop hears only what is on the wire, and of an exit only when the    *)
(* process has ended.                                                       *)
LEMMA LoopStrong == Strong /\ (Tick \/ Governor) /\ UNCHANGED runVars => RunInv' /\ OutcomeInv'
<1> SUFFICES ASSUME Strong, Tick \/ Governor, UNCHANGED runVars PROVE RunInv' /\ OutcomeInv'
    OBVIOUS
<1>1. UNCHANGED <<harden, stage, layers, status, outcome>>
    BY DEF runVars
<1>2. Heard' => Heard
    <2>1. CASE \E n \in 1 .. Len(wire) : ReadOutput(n)
        <3>1. wire # << >>
            BY <2>1
        <3> QED
            BY <3>1 DEF Heard
    <2>2. CASE \E size \in 1 .. MaxResponse : HandleLine(size)
        <3>1. incoming # << >>
            BY <2>2 DEF HandleLine, Ends
        <3> QED
            BY <3>1 DEF Heard
    <2>3. CASE ~(\E n \in 1 .. Len(wire) : ReadOutput(n))
               /\ ~(\E size \in 1 .. MaxResponse : HandleLine(size))
        <3>1. UNCHANGED <<wire, incoming, requests>>
            BY <2>3 DEF Governor, Tick, Check, Select, BatchDone, Write, WriteBroken, ReadErrors,
               EndOfErrors, EndOfOutput, RefuseLine, LinesDone, Wait, Cleanup, agentVars, loopVars
        <3> QED
            BY <3>1 DEF Heard
    <2> QED
        BY <2>1, <2>2, <2>3
<1>3. /\ pc # "done" \/ UNCHANGED <<pc, result, running>>
      /\ running' = running \/ (running' = FALSE /\ pc' = "done")
      /\ pc' = "done" => ~running'
      /\ Handling' => Handling
      /\ result' = "exited" => result = "exited" \/ (~running /\ Handling)
    BY DEF Strong, RunInv, Governor, Tick, Check, Select, BatchDone, Write, WriteBroken,
       ReadErrors, EndOfErrors, ReadOutput, EndOfOutput, RefuseLine, HandleLine, LinesDone, Wait,
       Cleanup, Go, Raise, Event, Handling, agentVars, loopVars
<1>4. RunInv'
    BY <1>1, <1>2, <1>3 DEF Strong, RunInv, Handling
<1>5. OutcomeInv'
    BY <1>1, <1>3 DEF Strong, OutcomeInv
<1> QED
    BY <1>4, <1>5

LEMMA ReportStrong == Strong /\ Report => RunInv' /\ OutcomeInv'
<1> SUFFICES ASSUME Strong, Report PROVE RunInv' /\ OutcomeInv'
    OBVIOUS
<1>1. UNCHANGED <<running, wire, incoming, requests, pc, result, harden, stage, layers, status>>
    BY DEF Report, vars, agentVars, loopVars
<1>2. RunInv'
    BY <1>1 DEF Strong, RunInv, Heard, Handling
<1>3. OutcomeInv'
    BY <1>1 DEF Report, OutcomeInv
<1> QED
    BY <1>2, <1>3

LEMMA NextStrong == Strong /\ [RunNext]_allVars => Strong'
<1> SUFFICES ASSUME Strong, [RunNext]_allVars PROVE Strong'
    OBVIOUS
<1>1. [Next]_vars
    BY StepOfLoop DEF allVars
<1>2. Inv'
    BY <1>1, NextInv DEF Strong
<1>3. CASE UNCHANGED allVars
    <2>1. UNCHANGED <<running, wire, incoming, requests, pc, result, harden, stage, layers,
                      status, outcome>>
        BY <1>3 DEF allVars, vars, agentVars, loopVars, runVars
    <2> QED
        BY <1>2, <2>1 DEF Strong, RunInv, OutcomeInv, Heard, Handling
<1>4. CASE RunNext
    BY <1>2, <1>4, AdvanceStrong, DieStrong, ProcessStrong, LoopStrong, ReportStrong
       DEF RunNext, Strong
<1> QED
    BY <1>3, <1>4

-------------------------------------------------------------------------------
LEMMA StrongHolds == RunSpec => []Strong
BY InitStrong, NextStrong, PTL DEF RunSpec

(* The loop with the process that it starts, hardened or not, behaves as    *)
(* the loop with an agent that does anything.                               *)
THEOREM RunsTheLoop == RunSpec => Spec
<1>1. RunInit => Init
    BY DEF RunInit
<1>2. [RunNext]_allVars => [Next]_vars
    BY StepOfLoop DEF allVars
<1> QED
    BY <1>1, <1>2, PTL DEF RunSpec, Spec

(* Whichever stages fail, no word of a hardened process that lacks a layer  *)
(* reaches the governor.                                                    *)
THEOREM NoWordUnconfined == RunSpec => []RunsConfined
<1>1. Strong => RunsConfined
    BY Stages DEF Strong, RunInv, RunsConfined
<1> QED
    BY <1>1, StrongHolds, PTL

(* A normal return is that of an agent that ran confined, exited with 0 and *)
(* was heard out; AgentKilledByKernel is about a process that was killed.   *)
THEOREM OutcomeTrue == RunSpec => []ReportedTruly
<1>1. Strong => ReportedTruly
    <2> SUFFICES ASSUME Strong PROVE ReportedTruly
        OBVIOUS
    <2>1. outcome \in {"returned", "killed"} => stage = Over
        BY DEF Strong, RunInv, OutcomeInv
    <2>2. outcome = "returned" => wire = << >> /\ incoming = << >> /\ outgoing = 0
        BY DEF Strong, OutcomeInv, Inv, Whole
    <2>3. outcome = "returned" => status = 0 /\ (harden => layers = Layer)
        BY <2>1 DEF Strong, RunInv, OutcomeInv
    <2>4. outcome = "killed" => status \in {-n : n \in Signal}
        BY <2>1, Statuses DEF Strong, RunInv, OutcomeInv
    <2> QED
        BY <2>1, <2>2, <2>3, <2>4 DEF ReportedTruly
<1> QED
    BY <1>1, StrongHolds, PTL
===============================================================================
