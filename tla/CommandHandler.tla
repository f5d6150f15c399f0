--------------------------- MODULE CommandHandler ---------------------------
(***************************************************************************)
(* The goroutine the agent starts for one COMMAND frame, handleCommand in  *)
(* internal/agent/agent.go, composed with the call of the executor it      *)
(* makes.  The two share the OutputLine channel and the call's return.     *)
(* Frames are recorded in the order they are handed to SendFrame, whose    *)
(* errors the handler ignores; what the network does to them is the        *)
(* subject of AgentSession.                                                *)
(***************************************************************************)
EXTENDS Executor

VARIABLES
    payload,    \* what the COMMAND frame carries
    handler,    \* where the goroutine is
    sent        \* the reply frames, in order

handlerVars == <<payload, handler, sent>>
vars == <<execVars, handlerVars>>

\* "encrypted": FlagEncrypted is set; "malformed": not a JSON command
Payloads == {"encrypted", "malformed", "command"}

\* The exit codes a command may be reported to have ended with.
Reported == ExitCodes \cup {Killed, 1}

\* The phase of the reply protocol, read off the program counter and the frames
\* sent.
Phase ==
    CASE handler \in {"idle", "decrypt", "parse"} -> "pending"
      [] handler \in {"call", "refuse"} -> "acked"
      [] handler = "stream" /\ ~Ended /\ Len(sent) = 1 -> "acked"
      [] handler = "stream" /\ ~Ended /\ Len(sent) # 1 -> "streaming"
      [] OTHER -> "closed"

Abstract == INSTANCE ReplyProtocol WITH Codes <- Reported, replies <- sent, phase <- Phase

HandlerInit ==
    /\ ExecInit
    /\ payload = "none"
    /\ handler = "idle"
    /\ sent = <<>>

-----------------------------------------------------------------------------

SendFrame(f) == sent' = Append(sent, f)

\* The message loop's "go a.handleCommand(ctx, frame)".
TakeCommand ==
    /\ handler = "idle"
    /\ payload' \in Payloads
    /\ handler' = "decrypt"
    /\ UNCHANGED <<execVars, sent>>

\* The sender's key is not looked up: DecodePublicKey("") fails and the
\* handler returns without a reply.
Decrypt ==
    /\ handler = "decrypt"
    /\ handler' = IF payload = "encrypted" THEN "finished" ELSE "parse"
    /\ UNCHANGED <<execVars, payload, sent>>

\* Faulty variant: the return after the refusal is missing.
RejectMalformed_FallsThrough ==
    /\ handler = "parse" /\ payload = "malformed"
    /\ SendFrame(Abstract!Error)
    /\ handler' = "call"
    /\ UNCHANGED <<execVars, payload>>

RejectMalformed ==
    /\ handler = "parse" /\ payload = "malformed"
    /\ SendFrame(Abstract!Error)
    /\ handler' = "finished"
    /\ UNCHANGED <<execVars, payload>>

SendAck ==
    /\ handler = "parse" /\ payload = "command"
    /\ SendFrame(Abstract!Ack)
    /\ handler' = "call"
    /\ UNCHANGED <<execVars, payload>>

CallExecutor ==
    /\ handler = "call"
    /\ \/ ExecuteFails /\ handler' = "refuse"
       \/ ExecuteStarts /\ handler' = "stream"
    /\ UNCHANGED <<payload, sent>>

RejectCommand ==
    /\ handler = "refuse"
    /\ SendFrame(Abstract!Error)
    /\ handler' = "finished"
    /\ UNCHANGED <<execVars, payload>>

\* The body of "for line := range outputCh".
FrameOf(line) ==
    IF line.done THEN Abstract!Result(line.exitCode) ELSE Abstract!Data(line.text)

ForwardLine ==
    /\ handler = "stream"
    /\ Receive
    /\ SendFrame(FrameOf(Head(ch)))
    /\ UNCHANGED <<payload, handler>>

\* Faulty variant: an empty channel taken for a closed one.
EndOfStream_OnEmptyChannel ==
    /\ handler = "stream" /\ ch = <<>>
    /\ handler' = "finished"
    /\ UNCHANGED <<execVars, payload, sent>>

\* The channel is closed and drained.
EndOfStream ==
    /\ handler = "stream" /\ reader = "closed" /\ ch = <<>>
    /\ handler' = "finished"
    /\ UNCHANGED <<execVars, payload, sent>>

-----------------------------------------------------------------------------

\* The handler ends where it stands when the agent's process does.
Handle ==
    /\ alive
    /\ \/ Decrypt \/ RejectMalformed \/ SendAck \/ CallExecutor
       \/ RejectCommand \/ ForwardLine \/ EndOfStream

HandlerNext ==
    \/ alive /\ TakeCommand
    \/ Handle
    \/ (Processes \/ Goroutine \/ Cancel \/ AgentExits) /\ UNCHANGED handlerVars

\* Goroutines that can run do run, the kill is delivered, and SendFrame
\* returns.  Nothing obliges a command to end.
HandlerFairness ==
    /\ WF_vars(Handle)
    /\ WF_vars(Goroutine /\ UNCHANGED handlerVars)
    /\ WF_vars(ShellKilled /\ UNCHANGED handlerVars)

HandlerSpec == HandlerInit /\ [][HandlerNext]_vars /\ HandlerFairness

-----------------------------------------------------------------------------
(* Properties. *)

ReplyFrame == [type : {"COMMAND_ACK", "COMMAND_ERROR", "STREAM_DATA", "COMMAND_RESULT"},
               line : Nat, exitCode : Int]

HandlerTypeOK ==
    /\ ExecTypeOK
    /\ payload \in Payloads \cup {"none"}
    /\ handler \in {"idle", "decrypt", "parse", "call", "refuse", "stream", "finished"}
    /\ sent \in Seq(ReplyFrame)

Answered ==
    \E i \in 1..Len(sent) : sent[i].type \in {"COMMAND_ERROR", "COMMAND_RESULT"}

\* The reply frames follow the protocol, whatever the process, the pipe, the
\* channel and a cancellation do meanwhile (agent.go, handleCommand).
FollowsReplyProtocol == Abstract!ReplySpec

\* The handler goroutine does not leak: it never returns while the streaming
\* goroutine can still be blocked on the channel, and no process it started
\* is left to run unobserved.
HandlerOutlivesStream ==
    handler = "finished" /\ ret = "ok" => reader = "closed" /\ shell = "exited" /\ ch = <<>>

\* The result the other side reads is about the whole output: as long as every
\* line fits the scanner, it has been sent as many lines as the command and its
\* children printed.
ResultCoversOutput ==
    Fits => \A i \in 1..Len(sent) : sent[i].type = "COMMAND_RESULT" => i = written + 2

\* A command in clear that ends on its own, with every line of its output
\* fitting the scanner, is answered by a refusal or by its result, unless a
\* cancellation ends the agent's process first (agent.go, handleCommand).
ClearCommandAnswered ==
    CommandEnds /\ []Fits =>
        ((handler = "decrypt" /\ payload # "encrypted") ~> (Answered \/ ~alive))

=============================================================================
