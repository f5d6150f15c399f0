------------------------ MODULE CommandHandlerProofs ------------------------
(***************************************************************************)
(* handleCommand implements the reply protocol and outlives the goroutine  *)
(* it feeds on, for every command, every capacity and every moment of      *)
(* cancellation.                                                           *)
(***************************************************************************)
EXTENDS CommandHandler, ExecutorProofs

\* Every step of the handler is a step of the executor or leaves it alone.
LEMMA ExecutorSteps == [HandlerNext]_vars => [ExecNext]_execVars
  BY DEF HandlerNext, Handle, TakeCommand, Decrypt, RejectMalformed, SendAck, CallExecutor,
         RejectCommand, ForwardLine, EndOfStream, ExecNext, Call, vars

-----------------------------------------------------------------------------
(* The executor, once more: the exit code is one the command can have, and *)
(* a channel that is closed has been given a Done line.                    *)

EndInv ==
    /\ shell = "exited" => exit \in ExitCodes \cup {Killed}
    /\ reader = "closed" =>
         IF ch = <<>> THEN Len(taken) > 0 /\ taken[Len(taken)].done ELSE ch[Len(ch)].done

LEMMA EndStep == ExecTypeOK /\ EndInv /\ [ExecNext]_execVars => EndInv'
<1> SUFFICES ASSUME ExecTypeOK, EndInv, [ExecNext]_execVars PROVE EndInv'
  OBVIOUS
<1>l. Len(ch) \in Nat /\ Len(taken) \in Nat /\ (ch = <<>> <=> Len(ch) = 0)
  BY QueueOps DEF ExecTypeOK
<1>1. CASE ReportDone
  <2>1. DoneLine(code) \in OutputLine /\ DoneLine(code).done
    BY LineTypes DEF DoneLine, ExecTypeOK
  <2>2. ch' = Append(ch, DoneLine(code)) /\ UNCHANGED <<shell, exit, taken>>
    BY <1>1 DEF ReportDone
  <2>3. ch' \in Seq(OutputLine) /\ Len(ch') = Len(ch) + 1 /\ ch'[Len(ch) + 1] = DoneLine(code)
    BY <2>1, <2>2, QueueOps DEF ExecTypeOK
  <2>4. ch' # <<>>
    BY <1>l, <2>3, QueueOps
  <2> QED
    BY <2>1, <2>2, <2>3, <2>4 DEF EndInv
<1>2. CASE Receive
  <2>1. /\ ch # <<>> /\ ch' = Tail(ch) /\ taken' = Append(taken, Head(ch))
        /\ UNCHANGED <<shell, exit, reader>>
    BY <1>2 DEF Receive
  <2>2. /\ Head(ch) \in OutputLine /\ Head(ch) = ch[1] /\ Tail(ch) \in Seq(OutputLine)
        /\ Len(Tail(ch)) = Len(ch) - 1
        /\ \A i \in 1..Len(Tail(ch)) : Tail(ch)[i] = ch[i + 1]
    BY <2>1, QueueOps DEF ExecTypeOK
  <2>3. Len(taken') = Len(taken) + 1 /\ taken'[Len(taken) + 1] = ch[1]
    BY <2>1, <2>2, QueueOps DEF ExecTypeOK
  <2>4. ch' = <<>> <=> Len(ch) = 1
    BY <1>l, <2>1, <2>2, QueueOps
  <2>5. ASSUME ch' # <<>>
        PROVE  ch'[Len(ch')] = ch[Len(ch)]
    <3>1. Len(ch') = Len(ch) - 1
      BY <2>1, <2>2
    <3>2. Len(ch') \in 1..Len(ch') /\ Len(ch') + 1 = Len(ch)
      BY <1>l, <2>4, <2>5, <2>1, <3>1
    <3> QED
      BY <2>1, <2>2, <3>2
  <2> QED
    BY <1>l, <2>1, <2>3, <2>4, <2>5 DEF EndInv
<1>3. CASE ShellExits \/ ShellKilled
  BY <1>3 DEF ShellExits, ShellKilled, ShellEnds, EndInv
<1>4. ASSUME UNCHANGED <<shell, exit, reader, ch, taken>>
      PROVE  EndInv'
  BY <1>4 DEF EndInv
<1>5. CASE ExecuteFails \/ ShellWrites \/ ShellForks \/ ChildWrites \/ ChildCloses \/ Cancel
           \/ UNCHANGED execVars
  BY <1>4, <1>5 DEF ExecuteFails, ShellWrites, ShellForks, ChildWrites, ChildCloses, Cancel, execVars, stdinVars
<1>6. CASE ExecuteStarts \/ ScanLine \/ ScanTooLong \/ ScanEOF \/ SendLine \/ WaitReturns
  BY <1>6 DEF ExecuteStarts, ScanLine, ScanTooLong, ScanEOF, SendLine, WaitReturns, EndInv
<1>7. CASE Aside
  BY <1>4, <1>7, AsideSilent
<1> QED
  BY <1>1, <1>2, <1>3, <1>5, <1>6, <1>7 DEF ExecNext, Call, Processes, Goroutine, Aside

-----------------------------------------------------------------------------
(* The invariant of the executor's call inside the handler. *)

CallInv == ExecTypeOK /\ OrderInv /\ ExitInv /\ EndInv /\ CompleteInv

LEMMA CallStep == CallInv /\ [HandlerNext]_vars => CallInv'
BY ExecutorSteps, TypeStep, OrderStep, ExitStep, EndStep, CompleteStep DEF CallInv

-----------------------------------------------------------------------------
(* The phase of the protocol in each state of the handler. *)

PhaseTable ==
    /\ handler \in {"idle", "decrypt", "parse"} => Phase = "pending"
    /\ handler \in {"call", "refuse"} => Phase = "acked"
    /\ handler = "stream" /\ ~Ended /\ Len(sent) = 1 => Phase = "acked"
    /\ handler = "stream" /\ ~Ended /\ Len(sent) # 1 => Phase = "streaming"
    /\ handler = "stream" /\ Ended => Phase = "closed"
    /\ handler = "finished" => Phase = "closed"

LEMMA PhaseAt == PhaseTable
<1>1. handler \in {"idle", "decrypt", "parse"} => Phase = "pending"
  BY Zenon DEF Phase
<1>2. handler \in {"call", "refuse"} => Phase = "acked"
  BY Zenon DEF Phase
<1>3. handler = "stream" /\ ~Ended /\ Len(sent) = 1 => Phase = "acked"
  BY Zenon DEF Phase
<1>4. handler = "stream" /\ ~Ended /\ Len(sent) # 1 => Phase = "streaming"
  BY Zenon DEF Phase
<1>5. handler = "stream" /\ Ended => Phase = "closed"
  BY Zenon DEF Phase
<1>6. handler = "finished" => Phase = "closed"
  BY Zenon DEF Phase
<1> QED
  BY <1>1, <1>2, <1>3, <1>4, <1>5, <1>6 DEF PhaseTable

LEMMA PhaseNext == PhaseTable'
  BY PhaseAt, PTL

-----------------------------------------------------------------------------
(* The invariant.  ResultCoversOutput and the protocol speak of the frames *)
(* sent; they are inductive only with what ties each of them to the line   *)
(* it was made from, and the program counter to the call's return.         *)

FlowInv ==
    /\ handler \in {"idle", "decrypt", "parse", "call"} => ret = "none"
    /\ handler = "refuse" => ret = "error"
    /\ handler = "stream" => ret = "ok"
    /\ handler = "finished" /\ ret = "ok" => reader = "closed" /\ ch = <<>>

SentInv ==
    /\ ret # "ok" => taken = <<>>
    /\ handler \in {"idle", "decrypt", "parse"} => sent = <<>>
    /\ handler \in {"call", "refuse"} => Len(sent) = 1
    /\ ret = "ok" => /\ Len(sent) = Len(taken) + 1
                     /\ \A i \in 1..Len(taken) : sent[i + 1] = FrameOf(taken[i])
    /\ \A i \in 1..Len(sent) : sent[i].type = "COMMAND_RESULT" => i > 1 /\ ret = "ok"

HandlerInv == CallInv /\ HandlerTypeOK /\ FlowInv /\ SentInv

LEMMA FrameTypes ==
    /\ Abstract!Ack \in ReplyFrame /\ Abstract!Ack.type # "COMMAND_RESULT"
    /\ Abstract!Error \in ReplyFrame /\ Abstract!Error.type # "COMMAND_RESULT"
    /\ \A e \in OutputLine : /\ FrameOf(e) \in ReplyFrame
                             /\ FrameOf(e).type = "COMMAND_RESULT" <=> e.done
BY DEF Abstract!Ack, Abstract!Error, FrameOf, Abstract!Result, Abstract!Data, ReplyFrame, OutputLine

\* What handing a frame to SendFrame does to the frames sent.
LEMMA SendStep ==
    ASSUME HandlerTypeOK, NEW f \in ReplyFrame, SendFrame(f)
    PROVE  /\ sent' \in Seq(ReplyFrame)
           /\ Len(sent') = Len(sent) + 1
           /\ \A i \in 1..Len(sent) : sent'[i] = sent[i]
           /\ sent'[Len(sent) + 1] = f
BY QueueOps DEF HandlerTypeOK, SendFrame

\* What the call's own steps leave of the handler's concern.
LEMMA CallSilent ==
    ASSUME CallInv, Processes \/ Goroutine \/ Cancel \/ AgentExits
    PROVE  /\ ret' = ret /\ taken' = taken
           /\ reader = "closed" => reader' = "closed" /\ ch' = ch
BY AsideSilent
   DEF Aside, Processes, Goroutine, ShellWrites, ShellForks, ChildWrites, ChildCloses, ShellExits,
       ShellEnds, ShellKilled, Cancel, ScanLine, ScanTooLong, ScanEOF, SendLine, WaitReturns, ReportDone

\* ForwardLine passes on the first line of the channel.
LEMMA ForwardStep ==
    ASSUME CallInv, HandlerTypeOK, ForwardLine
    PROVE  /\ ch # <<>> /\ ch[1] \in OutputLine
           /\ SendFrame(FrameOf(ch[1]))
           /\ Len(taken') = Len(taken) + 1
           /\ \A i \in 1..Len(taken) : taken'[i] = taken[i]
           /\ taken'[Len(taken) + 1] = ch[1]
           /\ UNCHANGED <<ret, reader, handler>>
<1>1. /\ ch # <<>> /\ taken' = Append(taken, Head(ch)) /\ UNCHANGED <<ret, reader, handler>>
      /\ SendFrame(FrameOf(Head(ch)))
  BY DEF ForwardLine, Receive
<1>2. Head(ch) = ch[1] /\ Head(ch) \in OutputLine
  BY <1>1, QueueOps DEF CallInv, ExecTypeOK
<1> QED
  BY <1>1, <1>2, QueueOps DEF CallInv, ExecTypeOK

LEMMA HandlerTypeStep ==
    CallInv /\ HandlerTypeOK /\ [HandlerNext]_vars => HandlerTypeOK'
<1> SUFFICES ASSUME CallInv, HandlerTypeOK, [HandlerNext]_vars PROVE HandlerTypeOK'
  OBVIOUS
<1>t. ExecTypeOK'
  BY CallStep DEF CallInv
<1>1. payload' \in Payloads \cup {"none"}
  BY DEF HandlerTypeOK, HandlerNext, Handle, TakeCommand, Decrypt, RejectMalformed, SendAck,
         CallExecutor, RejectCommand, ForwardLine, EndOfStream, vars, handlerVars
<1>2. handler' \in {"idle", "decrypt", "parse", "call", "refuse", "stream", "finished"}
  BY DEF HandlerTypeOK, HandlerNext, Handle, TakeCommand, Decrypt, RejectMalformed, SendAck,
         CallExecutor, RejectCommand, ForwardLine, EndOfStream, vars, handlerVars
<1>3. sent' \in Seq(ReplyFrame)
  <2>1. CASE RejectMalformed \/ SendAck \/ RejectCommand
    BY <2>1, FrameTypes, SendStep DEF RejectMalformed, SendAck, RejectCommand
  <2>2. CASE ForwardLine
    BY <2>2, FrameTypes, ForwardStep, SendStep
  <2>3. CASE UNCHANGED sent
    BY <2>3 DEF HandlerTypeOK
  <2> QED
    BY <2>1, <2>2, <2>3 DEF HandlerNext, Handle, TakeCommand, Decrypt, CallExecutor, EndOfStream,
                            vars, handlerVars
<1> QED
  BY <1>t, <1>1, <1>2, <1>3 DEF HandlerTypeOK

LEMMA FlowStep ==
    CallInv /\ HandlerTypeOK /\ FlowInv /\ [HandlerNext]_vars => FlowInv'
<1> SUFFICES ASSUME CallInv, HandlerTypeOK, FlowInv, [HandlerNext]_vars PROVE FlowInv'
  OBVIOUS
<1>1. CASE CallExecutor
  BY <1>1 DEF CallExecutor, ExecuteFails, ExecuteStarts, FlowInv
<1>2. CASE ForwardLine
  BY <1>2, ForwardStep DEF ForwardLine, FlowInv
<1>3. CASE (Processes \/ Goroutine \/ Cancel \/ AgentExits) /\ UNCHANGED handlerVars
  BY <1>3, CallSilent DEF FlowInv, handlerVars
<1>4. CASE TakeCommand \/ Decrypt \/ RejectMalformed \/ SendAck \/ RejectCommand \/ EndOfStream
           \/ UNCHANGED vars
  BY <1>4 DEF TakeCommand, Decrypt, RejectMalformed, SendAck, RejectCommand, EndOfStream,
              FlowInv, vars, execVars, stdinVars, handlerVars
<1> QED
  BY <1>1, <1>2, <1>3, <1>4 DEF HandlerNext, Handle

LEMMA SentStep ==
    HandlerInv /\ [HandlerNext]_vars => SentInv'
<1> SUFFICES ASSUME HandlerInv, [HandlerNext]_vars PROVE SentInv'
  OBVIOUS
<1> USE DEF HandlerInv
<1>l. Len(sent) \in Nat /\ Len(taken) \in Nat /\ Len(<<>>) = 0
      /\ (taken = <<>> <=> Len(taken) = 0) /\ (sent = <<>> <=> Len(sent) = 0)
  BY QueueOps DEF CallInv, ExecTypeOK, HandlerTypeOK
<1>1. ASSUME NEW f \in ReplyFrame, f.type # "COMMAND_RESULT", SendFrame(f),
             UNCHANGED <<ret, taken>>, ret # "ok", handler' \in {"call", "finished"},
             handler' = "call" => sent = <<>>
      PROVE  SentInv'
  <2>1. Len(sent') = Len(sent) + 1
    BY <1>1, SendStep
  <2>2. \A i \in 1..Len(sent') : sent'[i].type # "COMMAND_RESULT"
    BY <1>l, <1>1, <2>1, SendStep DEF SentInv
  <2> QED
    BY <1>l, <1>1, <2>1, <2>2 DEF SentInv
<1>2. CASE RejectMalformed \/ SendAck \/ RejectCommand
  <2>1. ret # "ok"
    BY <1>2 DEF RejectMalformed, SendAck, RejectCommand, FlowInv
  <2> QED
    BY <1>1, <1>2, <2>1, FrameTypes
       DEF RejectMalformed, SendAck, RejectCommand, SentInv, execVars
<1>3. CASE CallExecutor
  <2>1. Len(sent) = 1 /\ taken = <<>> /\ ret = "none"
    BY <1>3 DEF CallExecutor, SentInv, FlowInv
  <2>2. /\ UNCHANGED <<sent, taken>> /\ handler' \in {"refuse", "stream"}
        /\ handler' = "refuse" => ret' # "ok"
    BY <1>3 DEF CallExecutor, ExecuteFails, ExecuteStarts
  <2>3. Len(taken) = 0
    BY <1>l, <2>1
  <2>4. \A i \in 1..Len(sent) : sent[i].type # "COMMAND_RESULT"
    BY <2>1 DEF SentInv
  <2>5. handler' \in {"call", "refuse"} => Len(sent') = 1
    BY <2>1, <2>2
  <2>6. Len(sent') = Len(taken') + 1 /\ \A i \in 1..Len(taken') : FALSE
    BY <2>1, <2>2, <2>3
  <2>7. \A i \in 1..Len(sent') : sent'[i].type # "COMMAND_RESULT"
    BY <2>2, <2>4
  <2>8. taken' = <<>> /\ ~(handler' \in {"idle", "decrypt", "parse"})
    BY <2>1, <2>2
  <2> QED
    BY <2>5, <2>6, <2>7, <2>8 DEF SentInv
<1>4. CASE ForwardLine
  <2>1. /\ ret = "ok" /\ ret' = "ok" /\ handler' = "stream"
        /\ Len(sent) = Len(taken) + 1 /\ Len(taken') = Len(taken) + 1
    BY <1>4, ForwardStep DEF ForwardLine, FlowInv, SentInv
  <2>2. /\ Len(sent') = Len(sent) + 1
        /\ \A i \in 1..Len(sent) : sent'[i] = sent[i]
        /\ sent'[Len(sent) + 1] = FrameOf(ch[1])
    BY <1>4, ForwardStep, SendStep, FrameTypes
  <2>3. \A i \in 1..Len(taken') : sent'[i + 1] = FrameOf(taken'[i])
    <3> TAKE i \in 1..Len(taken')
    <3>1. CASE i \in 1..Len(taken)
      BY <1>4, <1>l, <2>1, <2>2, <3>1, ForwardStep DEF SentInv
    <3>2. CASE i = Len(taken) + 1
      BY <1>4, <1>l, <2>1, <2>2, <3>2, ForwardStep
    <3> QED
      BY <1>l, <2>1, <3>1, <3>2
  <2>4. \A i \in 1..Len(sent') : sent'[i].type = "COMMAND_RESULT" => i > 1
    BY <1>l, <2>1, <2>2 DEF SentInv
  <2> QED
    BY <2>1, <2>2, <2>3, <2>4 DEF SentInv, FrameOf
<1>5. CASE (Processes \/ Goroutine \/ Cancel \/ AgentExits) /\ UNCHANGED handlerVars
  BY <1>5, CallSilent DEF SentInv, handlerVars, FrameOf
<1>6. CASE TakeCommand \/ Decrypt \/ EndOfStream \/ UNCHANGED vars
  BY <1>6 DEF TakeCommand, Decrypt, EndOfStream, SentInv, FlowInv, FrameOf, vars, execVars, stdinVars, handlerVars
<1> QED
  BY <1>2, <1>3, <1>4, <1>5, <1>6 DEF HandlerNext, Handle

LEMMA HandlerInitInv == HandlerInit => HandlerInv
<1> SUFFICES ASSUME HandlerInit PROVE HandlerInv
  OBVIOUS
<1>1. ExecInit /\ payload = "none" /\ handler = "idle" /\ sent = <<>>
  BY DEF HandlerInit
<1>2. ExecTypeOK
  BY <1>1, ExecInitType
<1>3. reader = "none" /\ ret = "none" /\ shell = "none" /\ taken = <<>>
  BY <1>1 DEF ExecInit
<1>4. Len(sent) = 0 /\ sent \in Seq(ReplyFrame)
  BY <1>1, EmptySeq
<1>5. EndInv
  BY <1>3 DEF EndInv
<1>6. CallInv
  BY <1>1, <1>2, <1>5, InitInv DEF CallInv
<1>7. HandlerTypeOK
  BY <1>1, <1>2, <1>4 DEF HandlerTypeOK
<1>8. FlowInv /\ SentInv
  BY <1>1, <1>3, <1>4 DEF FlowInv, SentInv
<1> QED
  BY <1>6, <1>7, <1>8 DEF HandlerInv

LEMMA HandlerStep == HandlerInv /\ [HandlerNext]_vars => HandlerInv'
BY CallStep, HandlerTypeStep, FlowStep, SentStep DEF HandlerInv

LEMMA HandlerAlways == HandlerSpec => []HandlerInv
BY HandlerInitInv, HandlerStep, PTL DEF HandlerSpec

-----------------------------------------------------------------------------
(* The theorems. *)

\* Every variable keeps its type, and the frames sent are reply frames.
THEOREM HandlerTypeCorrect == HandlerSpec => []HandlerTypeOK
BY HandlerAlways, PTL DEF HandlerInv

\* The handler returns only after the goroutine that feeds it has closed the
\* channel and the shell it waited for is gone.
THEOREM HandlerNeverAbandons == HandlerSpec => []HandlerOutlivesStream
<1>1. HandlerInv => HandlerOutlivesStream
  BY DEF HandlerInv, CallInv, FlowInv, ExitInv, HandlerOutlivesStream
<1> QED
  BY <1>1, HandlerAlways, PTL

\* The result comes after as many lines as the shell and its descendants
\* printed, as long as every line fits the scanner.
THEOREM ResultIsLast == HandlerSpec => []ResultCoversOutput
<1>1. HandlerInv => ResultCoversOutput
  <2> SUFFICES ASSUME HandlerInv, Fits, NEW i \in 1..Len(sent), sent[i].type = "COMMAND_RESULT"
               PROVE  i = written + 2
    BY DEF ResultCoversOutput
  <2> USE DEF HandlerInv, CallInv
  <2>l. Len(sent) \in Nat /\ Len(taken) \in Nat /\ Len(ch) \in Nat
    BY QueueOps DEF ExecTypeOK, HandlerTypeOK
  <2>1. i > 1 /\ Len(sent) = Len(taken) + 1 /\ i - 1 \in 1..Len(taken)
    BY <2>l DEF SentInv
  <2>2. sent[(i - 1) + 1] = FrameOf(taken[i - 1]) /\ (i - 1) + 1 = i
    BY <2>1 DEF SentInv
  <2>3. taken[i - 1] \in OutputLine
    BY <2>1, ElementOfSeq DEF ExecTypeOK
  <2>4. taken[i - 1].done
    BY <2>2, <2>3, FrameTypes
  <2>5. i - 1 = Sent /\ reader = "closed"
    BY <2>1, <2>4 DEF OrderInv, LineAt
  <2>6. Sent = written + 1 /\ written \in Nat
    BY <2>5 DEF CompleteInv, ScannedToTheEnd, ExecTypeOK
  <2> QED
    BY <2>l, <2>5, <2>6
<1> QED
  BY <1>1, HandlerAlways, PTL

-----------------------------------------------------------------------------
(* handleCommand implements ReplyProtocol.                                 *)

\* ForwardLine streams the next line or finishes with a code of the command's.
LEMMA ForwardRefines ==
    ASSUME HandlerInv, ForwardLine
    PROVE  Abstract!Stream \/ Abstract!Finish
<1> USE DEF HandlerInv, CallInv
<1>l. Len(sent) \in Nat /\ Len(taken) \in Nat /\ Len(ch) \in Nat /\ (ch = <<>> <=> Len(ch) = 0)
  BY QueueOps DEF ExecTypeOK, HandlerTypeOK
<1>1. /\ handler = "stream" /\ handler' = "stream" /\ ret = "ok"
      /\ Len(ch) > 0 /\ ch[1] \in OutputLine
      /\ Len(sent) = Len(taken) + 1
      /\ sent' = Append(sent, FrameOf(ch[1]))
      /\ Len(sent') = Len(sent) + 1
  BY <1>l, ForwardStep, SendStep, FrameTypes DEF ForwardLine, FlowInv, SentInv, SendFrame
<1>2. LineAt(ch[1], Len(taken) + 1)
  BY <1>l, <1>1 DEF OrderInv
<1>3. ~Ended
  BY <1>l, <1>1 DEF Ended, OrderInv, LineAt, Sent
<1>4. Phase \in {"acked", "streaming"}
  BY <1>1, <1>3, PhaseAt DEF PhaseTable
<1>5. Len(taken') = Len(taken) + 1 /\ taken'[Len(taken) + 1] = ch[1]
      /\ \A i \in 1..Len(taken) : taken'[i] = taken[i]
  BY ForwardStep
<1>6. CASE ch[1].done
  <2>1. Ended'
    BY <1>l, <1>5, <1>6 DEF Ended
  <2>2. Phase' = "closed"
    BY <1>1, <2>1, PhaseNext DEF PhaseTable
  <2>3. ch[1].exitCode \in Reported
    BY <1>l, <1>1, <1>2, <1>6 DEF LineAt, ExitInv, EndInv, Reported
  <2>4. FrameOf(ch[1]) = Abstract!Result(ch[1].exitCode)
    BY <1>6 DEF FrameOf
  <2> QED
    BY <1>1, <1>4, <2>2, <2>3, <2>4 DEF Abstract!Finish, Abstract!Reply
<1>7. CASE ~ch[1].done
  <2>1. ~Ended'
    BY <1>l, <1>3, <1>5, <1>7 DEF Ended
  <2>2. Phase' = "streaming"
    BY <1>l, <1>1, <2>1, PhaseNext DEF PhaseTable
  <2>3. ch[1].text = Len(sent)
    BY <1>1, <1>2, <1>7 DEF LineAt
  <2>4. FrameOf(ch[1]) = Abstract!Data(Len(sent))
    BY <1>7, <2>3 DEF FrameOf
  <2> QED
    BY <1>1, <1>4, <2>2, <2>4 DEF Abstract!Stream, Abstract!Reply
<1> QED
  BY <1>6, <1>7

\* Every step of the handler is a step of the protocol or none of its concern.
LEMMA HandlerRefines ==
    HandlerInv /\ [HandlerNext]_vars => [Abstract!ReplyNext]_(Abstract!replyVars)
<1> SUFFICES ASSUME HandlerInv, [HandlerNext]_vars
             PROVE  Abstract!ReplyNext \/ UNCHANGED <<Phase, sent>>
  BY DEF Abstract!replyVars
<1> USE PhaseAt, PhaseNext DEF HandlerInv
<1>1. CASE TakeCommand
  BY <1>1 DEF TakeCommand, PhaseTable
<1>2. CASE Decrypt
  BY <1>2 DEF Decrypt, PhaseTable, Abstract!ReplyNext, Abstract!Ignore
<1>3. CASE RejectMalformed
  BY <1>3 DEF RejectMalformed, SendFrame, PhaseTable,
              Abstract!ReplyNext, Abstract!Refuse, Abstract!Reply
<1>4. CASE SendAck
  BY <1>4 DEF SendAck, SendFrame, PhaseTable,
              Abstract!ReplyNext, Abstract!Acknowledge, Abstract!Reply
<1>5. CASE CallExecutor
  <2>1. Phase = "acked" /\ sent' = sent /\ Len(sent) = 1 /\ taken' = <<>>
    BY <1>5 DEF CallExecutor, ExecuteFails, ExecuteStarts, FlowInv, SentInv, PhaseTable
  <2>2. ~Ended'
    BY <2>1, EmptySeq DEF Ended
  <2>3. handler' \in {"refuse", "stream"}
    BY <1>5 DEF CallExecutor
  <2> QED
    BY <2>1, <2>2, <2>3 DEF PhaseTable
<1>6. CASE RejectCommand
  BY <1>6 DEF RejectCommand, SendFrame, PhaseTable,
              Abstract!ReplyNext, Abstract!Refuse, Abstract!Reply
<1>7. CASE ForwardLine
  BY <1>7, ForwardRefines DEF Abstract!ReplyNext
<1>8. CASE EndOfStream
  <2>1. Ended
    BY <1>8, QueueOps DEF EndOfStream, CallInv, EndInv, ExecTypeOK, Ended
  <2> QED
    BY <1>8, <2>1 DEF EndOfStream, PhaseTable
<1>9. ASSUME UNCHANGED <<handler, taken, sent>>
      PROVE  UNCHANGED <<Phase, sent>>
  BY <1>9, Zenon DEF Phase, Ended
<1>10. CASE (Processes \/ Goroutine \/ Cancel \/ AgentExits) /\ UNCHANGED handlerVars
  BY <1>9, <1>10, CallSilent DEF handlerVars
<1>11. CASE UNCHANGED vars
  BY <1>9, <1>11 DEF vars, execVars, stdinVars, handlerVars
<1> QED
  BY <1>1, <1>2, <1>3, <1>4, <1>5, <1>6, <1>7, <1>8, <1>10, <1>11 DEF HandlerNext, Handle

\* Whatever the process, the pipe, the channel and a cancellation do meanwhile,
\* the sender of a COMMAND frame sees the reply protocol: an acknowledgement,
\* the lines in order and one result, or a refusal, and nothing after either.
THEOREM HandlerFollowsProtocol == HandlerSpec => FollowsReplyProtocol
<1>1. HandlerInit => Abstract!ReplyInit
  BY PhaseAt DEF HandlerInit, Abstract!ReplyInit, PhaseTable
<1> QED
  BY <1>1, HandlerRefines, HandlerAlways, PTL DEF HandlerSpec, FollowsReplyProtocol, Abstract!ReplySpec

=============================================================================
