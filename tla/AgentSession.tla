---------------------------- MODULE AgentSession ----------------------------
(***************************************************************************)
(* One agent over the connections it opens, one after the other: the loop  *)
(* of ConnectLoop with Connect, Authenticate, Close, SendFrame and         *)
(* ReadFrame of pkg/tunnel/client.go and Run and messageLoop of            *)
(* internal/agent/agent.go filled in; the goroutine of each COMMAND, seen  *)
(* as a sender of a fixed number of replies; the network; and the relay,   *)
(* which is not part of the repository and follows docs/protocol.md.       *)
(*                                                                         *)
(* The client holds one connection at a time, but a goroutine that has     *)
(* read c.conn under the lock may write to it after the loop has moved on. *)
(***************************************************************************)
EXTENDS ConnectLoop, Sequences, FiniteSets

CONSTANTS
    Commands,       \* COMMAND frames the relay has for the agent
    NoCommand,      \* the command of a frame that belongs to none
    Replies,        \* reply frames the agent sends for each of them
    MaxFaults,      \* bound: breaks, refusals, failed dials and malformed frames
    MaxRequests     \* bound: heartbeats and key exchanges per connection

ASSUME AgentSessionAssumption ==
    /\ IsFiniteSet(Commands)
    /\ NoCommand \notin Commands
    /\ Replies \in Nat \ {0}
    /\ MaxFaults \in Nat
    /\ MaxRequests \in Nat

VARIABLES
    at,         \* where the loop is within Authenticate or onConnected
    conn,       \* c.conn, the number of a connection; 0 is nil
    opened,     \* number of connections opened so far
    closed,     \* connections the agent closed
    broken,     \* connections that failed, for the agent
    out,        \* per connection: frames on their way to the relay
    in,         \* per connection: frames on their way to the agent
    got,        \* per connection, history: frames the relay has received
    relay,      \* per connection: the relay's side of it
    command,    \* per command: where it is
    next,       \* per command: the number of the next reply
    snap,       \* per command: the connection SendFrame has read, 0 for none
    faults,     \* number of faults so far
    asked       \* per connection, history: heartbeats and key exchanges the relay
                \* sent, or "MISSED" for one that was read in place of RELAY_ACK

netVars == <<closed, broken, out, in, got, relay, faults, asked>>
handlerVars == <<command, next, snap>>
vars == <<loopVars, at, conn, opened, netVars, handlerVars>>

\* Every connection but the first takes a fault.
Conns == 1..(MaxFaults + 1)

\* The frames the message loop answers itself.
Questions == {"HEARTBEAT", "KEY_EXCHANGE"}

\* A question and the answer to it have the number of the question in seq, as
\* a history; the frames themselves carry none.
Numbered(t, n) == [type |-> t, cmd |-> NoCommand, seq |-> n]
Frame(t) == Numbered(t, 0)
CommandFrame(c) == [type |-> "COMMAND", cmd |-> c, seq |-> 0]
ReplyFrame(c, i) == [type |-> "REPLY", cmd |-> c, seq |-> i]

SessionInit ==
    /\ LoopInit
    /\ at = "none" /\ conn = 0 /\ opened = 0
    /\ closed = {} /\ broken = {}
    /\ out = [k \in Conns |-> <<>>]
    /\ in = [k \in Conns |-> <<>>]
    /\ got = [k \in Conns |-> <<>>]
    /\ relay = [k \in Conns |-> "await"]
    /\ command = [c \in Commands |-> "new"]
    /\ next = [c \in Commands |-> 1]
    /\ snap = [c \in Commands |-> 0]
    /\ faults = 0
    /\ asked = [k \in Conns |-> <<>>]

-----------------------------------------------------------------------------
(* The client's reads and writes of connection k. *)

Dead(k) == k \in broken \cup closed

\* A write on a broken connection may still be accepted by the system, and is
\* lost.
WriteSucceeds(k, f) ==
    /\ k \notin closed
    /\ out' = IF k \in broken THEN out ELSE [out EXCEPT ![k] = Append(@, f)]

WriteFails(k) == Dead(k) /\ UNCHANGED out

Waiting(k) == k \notin closed /\ in[k] # <<>>
TakeFrame(k) == in' = [in EXCEPT ![k] = Tail(@)]

Readable(k) == Waiting(k) /\ Head(in[k]).type # "MALFORMED"

\* A frame that does not decode is an error of ReadFrame like any other, on a
\* connection that is still open both ways.
ReadFails(k) ==
    \/ Dead(k) /\ UNCHANGED in
    \/ Waiting(k) /\ ~Readable(k) /\ TakeFrame(k)

-----------------------------------------------------------------------------
(* The loop: Connect, Authenticate and their failures. *)

Connect ==
    /\ DialSucceeds
    /\ opened < MaxFaults + 1
    /\ opened' = opened + 1
    /\ conn' = opened + 1
    /\ at' = "authSend"
    /\ UNCHANGED <<netVars, handlerVars>>

ConnectFails ==
    /\ DialFails
    /\ faults < MaxFaults
    /\ faults' = faults + 1
    /\ UNCHANGED <<at, conn, opened, closed, broken, out, in, got, relay, asked, handlerVars>>

\* Authenticate returned an error: Close, then back off.
CloseAndRetry ==
    /\ AuthFails
    /\ closed' = closed \cup {conn}
    /\ at' = "none"

\* Faulty variant: the response is not waited for.
SendAuth_Pipelined ==
    /\ at = "authSend"
    /\ \/ /\ WriteSucceeds(conn, Frame("AUTH_REQUEST"))
          /\ Authenticated /\ at' = "helloSend"
          /\ UNCHANGED closed
       \/ WriteFails(conn) /\ CloseAndRetry
    /\ UNCHANGED <<conn, opened, broken, in, got, relay, faults, asked, handlerVars>>

SendAuth ==
    /\ at = "authSend"
    /\ \/ /\ WriteSucceeds(conn, Frame("AUTH_REQUEST"))
          /\ at' = "authRead"
          /\ UNCHANGED <<loopVars, closed>>
       \/ WriteFails(conn) /\ CloseAndRetry
    /\ UNCHANGED <<conn, opened, broken, in, got, relay, faults, asked, handlerVars>>

ReadAuthResponse ==
    /\ at = "authRead" /\ Readable(conn)
    /\ TakeFrame(conn)
    /\ IF Head(in[conn]).type = "AUTH_OK"
         THEN Authenticated /\ at' = "helloSend" /\ UNCHANGED closed
         ELSE CloseAndRetry
    /\ UNCHANGED <<conn, opened, broken, out, got, relay, faults, asked, handlerVars>>

ReadAuthFails ==
    /\ at = "authRead" /\ ReadFails(conn)
    /\ CloseAndRetry
    /\ UNCHANGED <<conn, opened, broken, out, got, relay, faults, asked, handlerVars>>

-----------------------------------------------------------------------------
(* The loop: onConnected, that is the callback of Run and messageLoop.  An *)
(* error ends it; the connection is not closed.                            *)

Lose == Disconnected /\ at' = "none"

\* Faulty variant: the agent registers on its first connection only, as if the
\* relay remembered it across a reconnection.
SendHello_FirstOnly ==
    /\ at = "helloSend"
    /\ \/ /\ IF conn = 1 THEN WriteSucceeds(conn, Frame("AGENT_HELLO")) ELSE UNCHANGED out
          /\ at' = "ackRead"
          /\ UNCHANGED loopVars
       \/ WriteFails(conn) /\ Lose
    /\ UNCHANGED <<conn, opened, closed, broken, in, got, relay, faults, asked, handlerVars>>

SendHello ==
    /\ at = "helloSend"
    /\ \/ /\ WriteSucceeds(conn, Frame("AGENT_HELLO"))
          /\ at' = "ackRead"
          /\ UNCHANGED loopVars
       \/ WriteFails(conn) /\ Lose
    /\ UNCHANGED <<conn, opened, closed, broken, in, got, relay, faults, asked, handlerVars>>

\* One frame is read in place of RELAY_ACK; any other one is logged and lost.
ReadAck ==
    /\ at = "ackRead" /\ Readable(conn)
    /\ TakeFrame(conn)
    /\ at' = "serve"
    /\ LET f == Head(in[conn]) IN
       /\ command' = IF f.type = "COMMAND" THEN [command EXCEPT ![f.cmd] = "dropped"] ELSE command
       /\ asked' = IF f.type \in Questions THEN [asked EXCEPT ![conn][f.seq] = "MISSED"] ELSE asked
    /\ UNCHANGED <<loopVars, conn, opened, closed, broken, out, got, relay, faults, next, snap>>

ReadFailsWhileConnected ==
    /\ at \in {"ackRead", "serve"} /\ ReadFails(conn)
    /\ Lose
    /\ UNCHANGED <<conn, opened, closed, broken, out, got, relay, faults, asked, handlerVars>>

Serving(type) == at = "serve" /\ Readable(conn) /\ Head(in[conn]).type = type

\* Faulty variant: a heartbeat is read and not answered.
ServeHeartbeat_Unanswered ==
    /\ Serving("HEARTBEAT")
    /\ TakeFrame(conn)
    /\ UNCHANGED <<loopVars, at, conn, opened, closed, broken, out, got, relay, faults, asked, handlerVars>>

ServeHeartbeat ==
    /\ Serving("HEARTBEAT")
    /\ TakeFrame(conn)
    /\ \/ WriteSucceeds(conn, Numbered("HEARTBEAT_ACK", Head(in[conn]).seq)) /\ UNCHANGED <<loopVars, at>>
       \/ WriteFails(conn) /\ Lose
    /\ UNCHANGED <<conn, opened, closed, broken, got, relay, faults, asked, handlerVars>>

\* handleKeyExchange does not look at the error of SendFrame.
ServeKeyExchange ==
    /\ Serving("KEY_EXCHANGE")
    /\ TakeFrame(conn)
    /\ WriteSucceeds(conn, Numbered("KEY_EXCHANGE_ACK", Head(in[conn]).seq)) \/ WriteFails(conn)
    /\ UNCHANGED <<loopVars, at, conn, opened, closed, broken, got, relay, faults, asked, handlerVars>>

\* "go a.handleCommand(ctx, frame)"
ServeCommand ==
    /\ Serving("COMMAND")
    /\ TakeFrame(conn)
    /\ command' = [command EXCEPT ![Head(in[conn]).cmd] = "running"]
    /\ UNCHANGED <<loopVars, at, conn, opened, closed, broken, out, got, relay, faults, asked, next, snap>>

\* A late RELAY_ACK falls through to the default case.
ServeOther ==
    /\ Serving("RELAY_ACK")
    /\ TakeFrame(conn)
    /\ UNCHANGED <<loopVars, at, conn, opened, closed, broken, out, got, relay, faults, asked, handlerVars>>

BackOff ==
    /\ BackoffElapses \/ BackoffCancelled
    /\ UNCHANGED <<at, conn, opened, netVars, handlerVars>>

CancelAgent == Cancel /\ UNCHANGED <<at, conn, opened, netVars, handlerVars>>

-----------------------------------------------------------------------------
(* SendFrame in the goroutine of a command: c.conn is read under the lock, *)
(* the frame is written after it, and the error is ignored.  The process   *)
(* ends with the loop.                                                     *)

\* Faulty variant: off by one.
Sending_OneMore(c) == command[c] = "running" /\ next[c] <= Replies + 1 /\ loop # "exited"

Sending(c) == command[c] = "running" /\ next[c] <= Replies /\ loop # "exited"

ReadConn(c) ==
    /\ Sending(c) /\ snap[c] = 0
    /\ snap' = [snap EXCEPT ![c] = conn]
    /\ UNCHANGED <<loopVars, at, conn, opened, netVars, command, next>>

\* Faulty variant: a reply is sent once more if the loop has reconnected in
\* the meantime.
WriteReply_Resends(c) ==
    /\ Sending(c) /\ snap[c] # 0
    /\ WriteSucceeds(snap[c], ReplyFrame(c, next[c])) \/ WriteFails(snap[c])
    /\ next' = [next EXCEPT ![c] = IF snap[c] = conn THEN @ + 1 ELSE @]
    /\ snap' = [snap EXCEPT ![c] = 0]
    /\ UNCHANGED <<loopVars, at, conn, opened, closed, broken, in, got, relay, faults, asked, command>>

WriteReply(c) ==
    /\ Sending(c) /\ snap[c] # 0
    /\ WriteSucceeds(snap[c], ReplyFrame(c, next[c])) \/ WriteFails(snap[c])
    /\ next' = [next EXCEPT ![c] = @ + 1]
    /\ snap' = [snap EXCEPT ![c] = 0]
    /\ UNCHANGED <<loopVars, at, conn, opened, closed, broken, in, got, relay, faults, asked, command>>

-----------------------------------------------------------------------------
(* The network and the relay.  A connection that is lost for the agent may *)
(* have frames in it that the relay still reads.                           *)

Break(k) ==
    /\ k <= opened /\ ~Dead(k) /\ faults < MaxFaults
    /\ broken' = broken \cup {k}
    /\ faults' = faults + 1
    /\ UNCHANGED <<loopVars, at, conn, opened, closed, out, in, got, relay, asked, handlerVars>>

LoseInFlight(k) ==
    /\ Dead(k) /\ out[k] # <<>>
    /\ out' = [out EXCEPT ![k] = <<>>]
    /\ UNCHANGED <<loopVars, at, conn, opened, closed, broken, in, got, relay, faults, asked, handlerVars>>

RelayReads(k) ==
    /\ out[k] # <<>>
    /\ out' = [out EXCEPT ![k] = Tail(@)]
    /\ got' = [got EXCEPT ![k] = Append(@, Head(out[k]))]
    /\ UNCHANGED <<loopVars, at, conn, opened, closed, broken, asked, handlerVars>>

RelaySends(k, f) == in' = IF Dead(k) THEN in ELSE [in EXCEPT ![k] = Append(@, f)]

RelayGarbles(k) ==
    /\ k <= opened /\ ~Dead(k) /\ faults < MaxFaults
    /\ RelaySends(k, Frame("MALFORMED"))
    /\ faults' = faults + 1
    /\ UNCHANGED <<loopVars, at, conn, opened, closed, broken, out, got, relay, asked, handlerVars>>

RelayAccepts(k) ==
    /\ RelayReads(k)
    /\ relay[k] = "await" /\ Head(out[k]).type = "AUTH_REQUEST"
    /\ relay' = [relay EXCEPT ![k] = "authed"]
    /\ RelaySends(k, Frame("AUTH_OK"))
    /\ UNCHANGED faults

RelayRefuses(k) ==
    /\ RelayReads(k)
    /\ relay[k] = "await" /\ Head(out[k]).type = "AUTH_REQUEST"
    /\ faults < MaxFaults
    /\ faults' = faults + 1
    /\ relay' = [relay EXCEPT ![k] = "refused"]
    /\ RelaySends(k, Frame("AUTH_FAILED"))

RelayRegisters(k) ==
    /\ RelayReads(k)
    /\ relay[k] = "authed" /\ Head(out[k]).type = "AGENT_HELLO"
    /\ relay' = [relay EXCEPT ![k] = "online"]
    /\ RelaySends(k, Frame("RELAY_ACK"))
    /\ UNCHANGED faults

RelayReadsOther(k) ==
    /\ RelayReads(k)
    /\ <<relay[k], Head(out[k]).type>> \notin
           {<<"await", "AUTH_REQUEST">>, <<"authed", "AGENT_HELLO">>}
    /\ UNCHANGED <<in, relay, faults>>

\* An authenticated identity is routed to, from its newest connection on.
Routed(k) ==
    /\ relay[k] \in {"authed", "online"} /\ ~Dead(k)
    /\ \A l \in Conns : l > k => relay[l] \notin {"authed", "online"}

RelayForwards(k, c) ==
    /\ Routed(k) /\ command[c] = "new"
    /\ RelaySends(k, CommandFrame(c))
    /\ command' = [command EXCEPT ![c] = "sent"]
    /\ UNCHANGED <<loopVars, at, conn, opened, closed, broken, out, got, relay, faults, asked, next, snap>>

RelayAsks(k, t) ==
    /\ Routed(k) /\ Len(asked[k]) < MaxRequests
    /\ RelaySends(k, Numbered(t, Len(asked[k]) + 1))
    /\ asked' = [asked EXCEPT ![k] = Append(@, t)]
    /\ UNCHANGED <<loopVars, at, conn, opened, closed, broken, out, got, relay, faults, handlerVars>>

-----------------------------------------------------------------------------

LoopActions ==
    \/ Connect \/ ConnectFails \/ SendAuth \/ ReadAuthResponse \/ ReadAuthFails
    \/ SendHello \/ ReadAck \/ ReadFailsWhileConnected
    \/ ServeHeartbeat \/ ServeKeyExchange \/ ServeCommand \/ ServeOther
    \/ BackOff

HandlerActions == \E c \in Commands : ReadConn(c) \/ WriteReply(c)

RelayReceives ==
    \E k \in Conns :
        RelayAccepts(k) \/ RelayRefuses(k) \/ RelayRegisters(k) \/ RelayReadsOther(k)

Environment ==
    \E k \in Conns :
        \/ Break(k) \/ LoseInFlight(k) \/ RelayGarbles(k)
        \/ \E c \in Commands : RelayForwards(k, c)
        \/ \E t \in Questions : RelayAsks(k, t)

SessionNext == LoopActions \/ HandlerActions \/ RelayReceives \/ Environment \/ CancelAgent

\* Goroutines that can run do run, a dead connection is noticed (by the TCP
\* keep-alive of Go's default dialer, if nothing else), and the relay reads
\* what it is sent and answers it.
SessionFairness ==
    /\ WF_vars(LoopActions)
    /\ WF_vars(HandlerActions)
    /\ WF_vars(RelayReceives)

SessionSpec == SessionInit /\ [][SessionNext]_vars /\ SessionFairness

-----------------------------------------------------------------------------
(* Properties. *)

FrameTypes ==
    {"AUTH_REQUEST", "AUTH_OK", "AUTH_FAILED", "AGENT_HELLO", "RELAY_ACK", "HEARTBEAT",
     "HEARTBEAT_ACK", "KEY_EXCHANGE", "KEY_EXCHANGE_ACK", "COMMAND", "REPLY", "MALFORMED"}

Frames == [type : FrameTypes, cmd : Commands \cup {NoCommand}, seq : Nat]

SessionTypeOK ==
    /\ LoopTypeOK
    /\ at \in {"none", "authSend", "authRead", "helloSend", "ackRead", "serve"}
    /\ conn \in 0..opened
    /\ opened \in 0..(MaxFaults + 1)
    /\ closed \subseteq Conns
    /\ broken \subseteq Conns
    /\ out \in [Conns -> Seq(Frames)]
    /\ in \in [Conns -> Seq(Frames)]
    /\ got \in [Conns -> Seq(Frames)]
    /\ relay \in [Conns -> {"await", "refused", "authed", "online"}]
    /\ command \in [Commands -> {"new", "sent", "dropped", "running"}]
    /\ next \in [Commands -> 1..(Replies + 1)]
    /\ snap \in [Commands -> Conns \cup {0}]
    /\ faults \in 0..MaxFaults
    /\ asked \in [Conns -> Seq(Questions \cup {"MISSED"})]

\* What the relay has or will get over connection k, if nothing more is lost.
Uplink(k) == got[k] \o out[k]

AnswerTo(t) == IF t = "HEARTBEAT" THEN "HEARTBEAT_ACK" ELSE "KEY_EXCHANGE_ACK"
Inline(f) == f.type \in {"HEARTBEAT_ACK", "KEY_EXCHANGE_ACK"}

\* The connection the loop serves is its newest, not closed, and one on which
\* the relay has accepted the agent; and on every connection the relay reads
\* AGENT_HELLO before any answer of the message loop to a heartbeat or a key
\* exchange (client.go, Authenticate; agent.go, Run and messageLoop).
ServesAcceptedConnection ==
    /\ at \in {"helloSend", "ackRead", "serve"} =>
        /\ conn = opened
        /\ relay[conn] \in {"authed", "online"}
        /\ conn \notin closed
    /\ \A k \in Conns : \A i \in 1..Len(Uplink(k)) : Inline(Uplink(k)[i]) =>
        \E j \in 1..(i - 1) : Uplink(k)[j].type = "AGENT_HELLO"

\* No AGENT_HELLO reaches the relay on a connection it has not accepted, and
\* the agent registers at most once per connection.
HelloAfterAuth ==
    \A k \in Conns : \A i \in 1..Len(got[k]) : got[k][i].type = "AGENT_HELLO" =>
        /\ relay[k] = "online"
        /\ \E j \in 1..(i - 1) : got[k][j].type = "AUTH_REQUEST"
        /\ \A j \in 1..Len(Uplink(k)) : Uplink(k)[j].type = "AGENT_HELLO" => j = i

\* The replies to one command never repeat, are in order on each connection,
\* and those on an older connection are all older than those on a newer one,
\* although the goroutine writes to a connection the loop may have left.
RepliesInOrder ==
    \A k, l \in Conns :
        \A i \in 1..Len(Uplink(k)), j \in 1..Len(Uplink(l)) :
            LET f == Uplink(k)[i]
                g == Uplink(l)[j]
            IN  f.type = "REPLY" /\ g.type = "REPLY" /\ f.cmd = g.cmd
                /\ (k < l \/ (k = l /\ i < j))
                => f.seq < g.seq

\* The message loop answers heartbeats and key exchanges on the connection they
\* were asked on, in the order they were asked, each at most once, and leaves
\* out none but one that was read in place of RELAY_ACK.
InlineAnswersMatch ==
    \A k \in Conns : \A i \in 1..Len(Uplink(k)) :
        LET f == Uplink(k)[i]
            before == {j \in 1..(i - 1) : Inline(Uplink(k)[j])}
        IN  Inline(f) =>
                /\ f.seq \in 1..Len(asked[k])
                /\ asked[k][f.seq] \in Questions /\ f.type = AnswerTo(asked[k][f.seq])
                /\ \A j \in before : Uplink(k)[j].seq < f.seq
                /\ \/ f.seq = 1 \/ asked[k][f.seq - 1] = "MISSED"
                   \/ \E j \in before : Uplink(k)[j].seq = f.seq - 1

\* Faults end: the agent comes back to its message loop until it is cancelled.
ComesBack == []<>(at = "serve" \/ cancelled)

\* Every connection (agent or CLI) must authenticate before sending other
\* messages (docs/protocol.md, Authentication).
AuthenticatesFirst ==
    \A k \in Conns : got[k] # <<>> => got[k][1].type = "AUTH_REQUEST"

\* The loop runs until ctx is cancelled (reconnect.go, ConnectLoop).
CancelledAgentExits == cancelled ~> (loop = "exited")

=============================================================================
