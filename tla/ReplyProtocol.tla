---------------------------- MODULE ReplyProtocol ----------------------------
(***************************************************************************)
(* What the sender of one COMMAND frame may see of it, whatever the agent  *)
(* does inside: no frame at all, a refusal, or an acknowledgement followed *)
(* by a refusal or by the lines of the output in order and one result.     *)
(* Nothing follows a refusal or a result.                                  *)
(***************************************************************************)
EXTENDS Integers, Sequences

CONSTANT Codes      \* the exit codes a result may report

VARIABLES
    phase,      \* "pending", "acked", "streaming", "closed"
    replies     \* the frames sent back so far

replyVars == <<phase, replies>>

Ack == [type |-> "COMMAND_ACK", line |-> 0, exitCode |-> 0]
Error == [type |-> "COMMAND_ERROR", line |-> 0, exitCode |-> 0]
Data(i) == [type |-> "STREAM_DATA", line |-> i, exitCode |-> 0]
Result(c) == [type |-> "COMMAND_RESULT", line |-> 0, exitCode |-> c]

Reply(r) == replies' = Append(replies, r)

ReplyInit == phase = "pending" /\ replies = <<>>

Ignore ==
    /\ phase = "pending"
    /\ phase' = "closed"
    /\ UNCHANGED replies

Acknowledge ==
    /\ phase = "pending"
    /\ phase' = "acked"
    /\ Reply(Ack)

Refuse ==
    /\ phase \in {"pending", "acked"}
    /\ phase' = "closed"
    /\ Reply(Error)

\* The acknowledgement is the first reply, so the next line of the output is
\* the one whose place is the number of replies so far.
Stream ==
    /\ phase \in {"acked", "streaming"}
    /\ phase' = "streaming"
    /\ Reply(Data(Len(replies)))

Finish ==
    /\ phase \in {"acked", "streaming"}
    /\ phase' = "closed"
    /\ \E c \in Codes : Reply(Result(c))

ReplyNext == Ignore \/ Acknowledge \/ Refuse \/ Stream \/ Finish

ReplySpec == ReplyInit /\ [][ReplyNext]_replyVars

=============================================================================
