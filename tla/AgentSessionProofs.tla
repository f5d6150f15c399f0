------------------------- MODULE AgentSessionProofs -------------------------
(***************************************************************************)
(* What the relay sees of an agent over its connections, for every number  *)
(* of commands, replies, faults and requests: the registration comes after *)
(* the acceptance and once, replies and answers are never repeated and in  *)
(* order, whatever breaks and whichever connection a goroutine still holds.*)
(***************************************************************************)
EXTENDS AgentSession, ConnectLoopProofs, SequenceLemmas

-----------------------------------------------------------------------------
(* The invariant. *)

Has(s, t) == \E i \in 1..Len(s) : s[i].type = t

\* A connection that is not open yet has not been used.
Unused(k) ==
    /\ out[k] = <<>> /\ got[k] = <<>> /\ in[k] = <<>>
    /\ relay[k] = "await" /\ k \notin closed

OpenInv ==
    /\ at # "none" => conn = opened /\ conn \in Conns /\ conn \notin closed
    /\ \A k \in Conns : k > opened => Unused(k)

\* Where the relay is on a connection, told by the frames it has read there.
AcceptInv ==
    /\ at \in {"helloSend", "ackRead", "serve"} => relay[conn] \in {"authed", "online"}
    /\ \A k \in Conns : Has(in[k], "AUTH_OK") => relay[k] \in {"authed", "online"}
    /\ \A k \in Conns : relay[k] \in {"authed", "online"} => Has(got[k], "AUTH_REQUEST")
    /\ \A k \in Conns : Has(out[k], "AGENT_HELLO") => relay[k] = "authed"
    /\ \A k \in Conns : Has(got[k], "AGENT_HELLO") <=> relay[k] = "online"

\* At most one AGENT_HELLO on a connection, and none before it is its turn.
HelloInv ==
    /\ at \in {"authSend", "authRead", "helloSend"} => ~Has(Uplink(conn), "AGENT_HELLO")
    /\ \A k \in Conns : \A i, j \in 1..Len(Uplink(k)) :
         Uplink(k)[i].type = "AGENT_HELLO" /\ Uplink(k)[j].type = "AGENT_HELLO" => i = j
    /\ \A k \in Conns : \A i \in 1..Len(got[k]) :
         got[k][i].type = "AGENT_HELLO" => \E j \in 1..(i - 1) : got[k][j].type = "AUTH_REQUEST"

\* Behind the registration the loop has written AGENT_HELLO, unless the
\* connection lost it, and no answer is ahead of it.
RegisterInv ==
    /\ at \in {"ackRead", "serve"} => conn \in broken \/ Has(Uplink(conn), "AGENT_HELLO")
    /\ \A k \in Conns : \A i \in 1..Len(Uplink(k)) : Inline(Uplink(k)[i]) =>
         \E j \in 1..(i - 1) : Uplink(k)[j].type = "AGENT_HELLO"

\* A goroutine holds a connection the client has had, and has written nothing
\* to a newer one; what it has written is older than what it writes next.
ReplyInv ==
    /\ \A c \in Commands : snap[c] <= conn
    /\ \A k \in Conns : \A i \in 1..Len(Uplink(k)) :
         LET f == Uplink(k)[i]
         IN  f.type = "REPLY" =>
               /\ f.cmd \in Commands /\ f.seq < next[f.cmd]
               /\ k <= conn
               /\ snap[f.cmd] # 0 => k <= snap[f.cmd]
    /\ RepliesInOrder

Question(f) == f.type \in Questions

Pending(k, n) == \E i \in 1..Len(in[k]) : Question(in[k][i]) /\ in[k][i].seq = n
Answered(k, n) == \E j \in 1..Len(Uplink(k)) : Inline(Uplink(k)[j]) /\ Uplink(k)[j].seq = n

\* The questions under way are numbered in order and come after those
\* answered; on a live connection every question was missed, is under way or
\* has been answered.
AskInv ==
    /\ \A k \in Conns : \A i \in 1..Len(in[k]) : Question(in[k][i]) =>
         /\ in[k][i].seq \in 1..Len(asked[k]) /\ asked[k][in[k][i].seq] = in[k][i].type
         /\ \A j \in 1..(i - 1) : Question(in[k][j]) => in[k][j].seq < in[k][i].seq
         /\ \A j \in 1..Len(Uplink(k)) : Inline(Uplink(k)[j]) => Uplink(k)[j].seq < in[k][i].seq
    /\ \A k \in Conns : Dead(k) \/ \A n \in 1..Len(asked[k]) :
         asked[k][n] = "MISSED" \/ Pending(k, n) \/ Answered(k, n)
    /\ InlineAnswersMatch

SessionInv ==
    SessionTypeOK /\ CounterInv /\ OpenInv /\ AcceptInv /\ HelloInv /\ RegisterInv
    /\ ReplyInv /\ AskInv

-----------------------------------------------------------------------------
(* The steps, variable by variable. *)

USE AgentSessionAssumption, ConnectLoopAssumption DEF AgentSessionAssumption, ConnectLoopAssumption

\* Every step of the session is a step of the loop or leaves it alone.
LEMMA LoopSteps == [SessionNext]_vars => [LoopNext]_loopVars
BY DEF SessionNext, LoopActions, HandlerActions, RelayReceives, Environment, CancelAgent,
       Connect, ConnectFails, CloseAndRetry, SendAuth, ReadAuthResponse, ReadAuthFails, Lose,
       SendHello, ReadAck, ReadFailsWhileConnected, ServeHeartbeat, ServeKeyExchange, ServeCommand,
       ServeOther, BackOff, ReadConn, WriteReply, RelayReads, RelayAccepts, RelayRefuses,
       RelayRegisters, RelayReadsOther, Break, LoseInFlight, RelayGarbles, RelayForwards, RelayAsks,
       LoopNext, LoopStep, vars

\* A write reaches at most the one queue, and only if the connection lives.
LEMMA WriteEffect ==
    ASSUME SessionTypeOK, NEW k \in Conns, NEW f \in Frames, WriteSucceeds(k, f) \/ WriteFails(k)
    PROVE  /\ out' \in [Conns -> Seq(Frames)]
           /\ \A l \in Conns : \/ out'[l] = out[l]
                               \/ l = k /\ ~Dead(k) /\ out'[l] = Append(out[l], f)
<1>1. \A l \in Conns : out[l] \in Seq(Frames) /\ Append(out[l], f) \in Seq(Frames)
  BY SeqOps DEF SessionTypeOK
<1>2. CASE out' = out
  BY <1>2 DEF SessionTypeOK
<1>3. CASE ~Dead(k) /\ out' = [out EXCEPT ![k] = Append(@, f)]
  BY <1>1, <1>3 DEF SessionTypeOK
<1> QED
  BY <1>2, <1>3 DEF WriteSucceeds, WriteFails, Dead

LEMMA TakeEffect ==
    ASSUME SessionTypeOK, NEW k \in Conns, in[k] # <<>>, TakeFrame(k)
    PROVE  /\ in' \in [Conns -> Seq(Frames)]
           /\ \A l \in Conns : l # k => in'[l] = in[l]
           /\ in'[k] = Tail(in[k])
<1>1. Tail(in[k]) \in Seq(Frames)
  BY SeqOps DEF SessionTypeOK
<1> QED
  BY <1>1 DEF SessionTypeOK, TakeFrame

LEMMA RelaySendsEffect ==
    ASSUME SessionTypeOK, NEW k \in Conns, NEW f \in Frames, RelaySends(k, f)
    PROVE  /\ in' \in [Conns -> Seq(Frames)]
           /\ \A l \in Conns : \/ in'[l] = in[l]
                               \/ l = k /\ ~Dead(k) /\ in'[l] = Append(in[l], f)
<1>1. Append(in[k], f) \in Seq(Frames)
  BY SeqOps DEF SessionTypeOK
<1> QED
  BY <1>1 DEF SessionTypeOK, RelaySends

LEMMA RelayReadsEffect ==
    ASSUME SessionTypeOK, NEW k \in Conns, RelayReads(k)
    PROVE  /\ out[k] # <<>> /\ Head(out[k]) \in Frames /\ Head(out[k]) = out[k][1]
           /\ out' \in [Conns -> Seq(Frames)] /\ got' \in [Conns -> Seq(Frames)]
           /\ \A l \in Conns : l # k => out'[l] = out[l] /\ got'[l] = got[l]
           /\ out'[k] = Tail(out[k]) /\ got'[k] = Append(got[k], Head(out[k]))
<1>1. out[k] \in Seq(Frames) /\ got[k] \in Seq(Frames) /\ out[k] # <<>>
  BY DEF SessionTypeOK, RelayReads
<1>2. Head(out[k]) \in Frames /\ Head(out[k]) = out[k][1] /\ Tail(out[k]) \in Seq(Frames)
  BY <1>1, SeqOps
<1>3. Append(got[k], Head(out[k])) \in Seq(Frames)
  BY <1>1, <1>2, SeqOps
<1> QED
  BY <1>1, <1>2, <1>3 DEF SessionTypeOK, RelayReads

\* The frames each side makes.
LEMMA FrameOK ==
    /\ \A t \in FrameTypes, n \in Nat : Numbered(t, n) \in Frames
    /\ \A t \in FrameTypes : Frame(t) \in Frames
    /\ \A c \in Commands : CommandFrame(c) \in Frames
    /\ \A c \in Commands, i \in Nat : ReplyFrame(c, i) \in Frames
BY DEF Frames, FrameTypes, Numbered, Frame, CommandFrame, ReplyFrame

-----------------------------------------------------------------------------
(* Types. *)

\* The connection in use is one that was opened.
LEMMA InUse == OpenInv /\ at # "none" => conn \in Conns
BY DEF OpenInv

LEMMA OutType ==
    SessionTypeOK /\ OpenInv /\ [SessionNext]_vars => out' \in [Conns -> Seq(Frames)]
<1> SUFFICES ASSUME SessionTypeOK, OpenInv, [SessionNext]_vars
             PROVE  out' \in [Conns -> Seq(Frames)]
  OBVIOUS
<1>1. CASE SendAuth \/ SendHello
  BY <1>1, InUse, WriteEffect, FrameOK DEF SendAuth, SendHello, FrameTypes
<1>2. CASE ServeHeartbeat \/ ServeKeyExchange
  <2>1. conn \in Conns /\ in[conn] # <<>>
    BY <1>2, InUse DEF ServeHeartbeat, ServeKeyExchange, Serving, Readable, Waiting
  <2>2. Head(in[conn]).seq \in Nat
    <3>1. in[conn] \in Seq(Frames)
      BY <2>1 DEF SessionTypeOK
    <3>2. Head(in[conn]) \in Frames
      BY <2>1, <3>1, SeqOps
    <3> QED
      BY <3>2 DEF Frames
  <2>3. /\ Numbered("HEARTBEAT_ACK", Head(in[conn]).seq) \in Frames
        /\ Numbered("KEY_EXCHANGE_ACK", Head(in[conn]).seq) \in Frames
    BY <2>2, FrameOK DEF FrameTypes
  <2> QED
    BY <1>2, <2>1, <2>3, WriteEffect DEF ServeHeartbeat, ServeKeyExchange
<1>3. ASSUME NEW c \in Commands, WriteReply(c)
      PROVE  out' \in [Conns -> Seq(Frames)]
  <2>1. snap[c] \in Conns /\ ReplyFrame(c, next[c]) \in Frames
    BY <1>3, FrameOK DEF WriteReply, SessionTypeOK
  <2> QED
    BY <1>3, <2>1, WriteEffect DEF WriteReply
<1>4. ASSUME NEW k \in Conns, LoseInFlight(k)
      PROVE  out' \in [Conns -> Seq(Frames)]
  BY <1>4, EmptySeq DEF LoseInFlight, SessionTypeOK
<1>5. CASE RelayReceives
  BY <1>5, RelayReadsEffect
     DEF RelayReceives, RelayAccepts, RelayRefuses, RelayRegisters, RelayReadsOther
<1>6. CASE UNCHANGED out
  BY <1>6 DEF SessionTypeOK
<1> QED
  BY <1>1, <1>2, <1>3, <1>4, <1>5, <1>6
     DEF SessionNext, LoopActions, HandlerActions, Environment, CancelAgent,
         Connect, ConnectFails, ReadAuthResponse, ReadAuthFails, ReadAck, ReadFailsWhileConnected,
         ServeCommand, ServeOther, BackOff, ReadConn, Break, RelayGarbles, RelayForwards, RelayAsks,
         vars, netVars

\* What a step does to the frames on their way to the agent: it takes the first
\* one on the connection in use, or the relay adds one if the connection lives.
Sends(k, f) ==
    \/ RelayGarbles(k) /\ f = Frame("MALFORMED")
    \/ RelayAccepts(k) /\ f = Frame("AUTH_OK")
    \/ RelayRefuses(k) /\ f = Frame("AUTH_FAILED")
    \/ RelayRegisters(k) /\ f = Frame("RELAY_ACK")
    \/ \E c \in Commands : RelayForwards(k, c) /\ f = CommandFrame(c)
    \/ \E t \in Questions : RelayAsks(k, t) /\ f = Numbered(t, Len(asked[k]) + 1)

Takes(k) ==
    \/ ReadAuthResponse \/ ReadAuthFails \/ ReadAck \/ ReadFailsWhileConnected
    \/ ServeHeartbeat \/ ServeKeyExchange \/ ServeCommand \/ ServeOther

TakesFirst(k) == Takes(k) /\ at # "none" /\ k = conn /\ in[k] # <<>> /\ in'[k] = Tail(in[k])
GetsLast(k) == ~Dead(k) /\ \E f \in Frames : Sends(k, f) /\ in'[k] = Append(in[k], f)

LEMMA InStep ==
    ASSUME SessionTypeOK, OpenInv, [SessionNext]_vars
    PROVE  /\ in' \in [Conns -> Seq(Frames)]
           /\ \A k \in Conns : in'[k] = in[k] \/ TakesFirst(k) \/ GetsLast(k)
<1> DEFINE Good == /\ in' \in [Conns -> Seq(Frames)]
                   /\ \A k \in Conns : in'[k] = in[k] \/ TakesFirst(k) \/ GetsLast(k)
<1>0. ASSUME Takes(conn), in[conn] # <<>>, at # "none", TakeFrame(conn)
      PROVE  Good
  <2>1. conn \in Conns
    BY <1>0, InUse
  <2> QED
    BY <1>0, <2>1, TakeEffect DEF TakesFirst, Takes
<1>1. CASE ReadAuthResponse \/ ReadAck \/ ServeHeartbeat \/ ServeKeyExchange \/ ServeCommand \/ ServeOther
  BY <1>0, <1>1
     DEF Takes, ReadAuthResponse, ReadAck, ServeHeartbeat, ServeKeyExchange, ServeCommand, ServeOther,
         Serving, Readable, Waiting
<1>2. CASE ReadAuthFails \/ ReadFailsWhileConnected
  <2>1. CASE UNCHANGED in
    BY <2>1 DEF SessionTypeOK
  <2>2. CASE in[conn] # <<>> /\ TakeFrame(conn)
    BY <1>0, <1>2, <2>2 DEF Takes, ReadAuthFails, ReadFailsWhileConnected
  <2> QED
    BY <1>2, <2>1, <2>2 DEF ReadAuthFails, ReadFailsWhileConnected, ReadFails, Waiting
<1>3. ASSUME NEW k \in Conns,
             \/ RelayGarbles(k) \/ RelayAccepts(k) \/ RelayRefuses(k) \/ RelayRegisters(k)
             \/ \E c \in Commands : RelayForwards(k, c)
             \/ \E t \in Questions : RelayAsks(k, t)
      PROVE  Good
  <2>1. PICK f \in Frames : Sends(k, f) /\ RelaySends(k, f)
    <3>1. Len(asked[k]) + 1 \in Nat
      BY SeqOps DEF SessionTypeOK
    <3> QED
      BY <1>3, <3>1, FrameOK
         DEF Sends, RelayGarbles, RelayAccepts, RelayRefuses, RelayRegisters, RelayForwards, RelayAsks,
             FrameTypes, Questions
  <2> QED
    BY <2>1, RelaySendsEffect DEF GetsLast
<1>4. CASE UNCHANGED in
  BY <1>4 DEF SessionTypeOK
<1> QED
  BY <1>1, <1>2, <1>3, <1>4
     DEF SessionNext, LoopActions, HandlerActions, RelayReceives, Environment, CancelAgent,
         Connect, ConnectFails, SendAuth, SendHello, RelayReadsOther,
         BackOff, ReadConn, WriteReply, Break, LoseInFlight, vars, netVars

LEMMA GotType ==
    SessionTypeOK /\ [SessionNext]_vars => got' \in [Conns -> Seq(Frames)]
<1> SUFFICES ASSUME SessionTypeOK, [SessionNext]_vars PROVE got' \in [Conns -> Seq(Frames)]
  OBVIOUS
<1>1. CASE RelayReceives
  BY <1>1, RelayReadsEffect
     DEF RelayReceives, RelayAccepts, RelayRefuses, RelayRegisters, RelayReadsOther
<1>2. CASE UNCHANGED got
  BY <1>2 DEF SessionTypeOK
<1> QED
  BY <1>1, <1>2
     DEF SessionNext, LoopActions, HandlerActions, Environment, CancelAgent,
         Connect, ConnectFails, SendAuth, ReadAuthResponse, ReadAuthFails, SendHello, ReadAck,
         ReadFailsWhileConnected, ServeHeartbeat, ServeKeyExchange, ServeCommand, ServeOther,
         BackOff, ReadConn, WriteReply, Break, LoseInFlight, RelayGarbles, RelayForwards, RelayAsks,
         vars, netVars

LEMMA AskedType ==
    SessionTypeOK /\ [SessionNext]_vars => asked' \in [Conns -> Seq(Questions \cup {"MISSED"})]
<1> DEFINE Marks == Questions \cup {"MISSED"}
<1> SUFFICES ASSUME SessionTypeOK, [SessionNext]_vars PROVE asked' \in [Conns -> Seq(Marks)]
  OBVIOUS
<1>a. asked \in [Conns -> Seq(Marks)]
  BY DEF SessionTypeOK
<1>1. ASSUME NEW k \in Conns, NEW t \in Questions, RelayAsks(k, t)
      PROVE  asked' \in [Conns -> Seq(Marks)]
  <2>1. Append(asked[k], t) \in Seq(Marks)
    BY <1>a, SeqOps
  <2> QED
    BY <1>a, <1>1, <2>1 DEF RelayAsks
<1>2. ASSUME NEW k, NEW n
      PROVE  [asked EXCEPT ![k][n] = "MISSED"] \in [Conns -> Seq(Marks)]
  <2>1. ASSUME k \in Conns
        PROVE  [asked[k] EXCEPT ![n] = "MISSED"] \in Seq(Marks)
    <3> DEFINE a == asked[k]
    <3>1. a \in Seq(Marks)
      BY <1>a, <2>1
    <3>2. Len(a) \in Nat /\ a \in [1..Len(a) -> Marks]
      BY <3>1, LenProperties
    <3>3. [a EXCEPT ![n] = "MISSED"] \in [1..Len(a) -> Marks]
      BY <3>2
    <3> QED
      BY <3>2, <3>3, IsASeq
  <2> QED
    BY <1>a, <2>1
<1>3. CASE ReadAck
  BY <1>a, <1>2, <1>3 DEF ReadAck
<1>4. CASE UNCHANGED asked
  BY <1>a, <1>4
<1> QED
  BY <1>1, <1>3, <1>4
     DEF SessionNext, LoopActions, HandlerActions, RelayReceives, Environment, CancelAgent,
         Connect, ConnectFails, SendAuth, ReadAuthResponse, ReadAuthFails, SendHello,
         ReadFailsWhileConnected, ServeHeartbeat, ServeKeyExchange, ServeCommand, ServeOther,
         BackOff, ReadConn, WriteReply, RelayReads, RelayAccepts, RelayRefuses, RelayRegisters,
         RelayReadsOther, Break, LoseInFlight, RelayGarbles, RelayForwards, vars, netVars

LEMMA RelayType ==
    SessionTypeOK /\ [SessionNext]_vars =>
        relay' \in [Conns -> {"await", "refused", "authed", "online"}]
<1> SUFFICES ASSUME SessionTypeOK, [SessionNext]_vars
             PROVE  relay' \in [Conns -> {"await", "refused", "authed", "online"}]
  OBVIOUS
<1>1. CASE RelayReceives
  <2>1. relay' = relay \/ \E k \in Conns, x \in {"refused", "authed", "online"} :
                            relay' = [relay EXCEPT ![k] = x]
    BY <1>1 DEF RelayReceives, RelayAccepts, RelayRefuses, RelayRegisters, RelayReadsOther
  <2> QED
    BY <2>1 DEF SessionTypeOK
<1>2. CASE UNCHANGED relay
  BY <1>2 DEF SessionTypeOK
<1> QED
  BY <1>1, <1>2
     DEF SessionNext, LoopActions, HandlerActions, Environment, CancelAgent,
         Connect, ConnectFails, SendAuth, ReadAuthResponse, ReadAuthFails, SendHello, ReadAck,
         ReadFailsWhileConnected, ServeHeartbeat, ServeKeyExchange, ServeCommand, ServeOther,
         BackOff, ReadConn, WriteReply, Break, LoseInFlight, RelayGarbles, RelayForwards, RelayAsks,
         vars, netVars

LEMMA SenderType ==
    SessionTypeOK /\ [SessionNext]_vars =>
        next' \in [Commands -> 1..(Replies + 1)] /\ snap' \in [Commands -> Conns \cup {0}]
<1> SUFFICES ASSUME SessionTypeOK, [SessionNext]_vars
             PROVE  next' \in [Commands -> 1..(Replies + 1)] /\ snap' \in [Commands -> Conns \cup {0}]
  OBVIOUS
<1>1. ASSUME NEW c \in Commands, ReadConn(c)
      PROVE  next' \in [Commands -> 1..(Replies + 1)] /\ snap' \in [Commands -> Conns \cup {0}]
  <2>1. conn \in Conns \cup {0}
    BY DEF SessionTypeOK, Conns
  <2> QED
    BY <1>1, <2>1 DEF ReadConn, SessionTypeOK
<1>2. ASSUME NEW c \in Commands, WriteReply(c)
      PROVE  next' \in [Commands -> 1..(Replies + 1)] /\ snap' \in [Commands -> Conns \cup {0}]
  <2>1. next[c] + 1 \in 1..(Replies + 1)
    BY <1>2 DEF WriteReply, Sending, SessionTypeOK
  <2> QED
    BY <1>2, <2>1 DEF WriteReply, SessionTypeOK
<1>3. CASE UNCHANGED <<next, snap>>
  BY <1>3 DEF SessionTypeOK
<1> QED
  BY <1>1, <1>2, <1>3
     DEF SessionNext, LoopActions, HandlerActions, RelayReceives, Environment, CancelAgent,
         Connect, ConnectFails, SendAuth, ReadAuthResponse, ReadAuthFails, SendHello, ReadAck,
         ReadFailsWhileConnected, ServeHeartbeat, ServeKeyExchange, ServeCommand, ServeOther,
         BackOff, RelayReads, RelayAccepts, RelayRefuses, RelayRegisters, RelayReadsOther,
         Break, LoseInFlight, RelayGarbles, RelayForwards, RelayAsks, vars, handlerVars

\* The counters of connections and faults only go up, within their bounds, and
\* the loop closes the connection it uses.
LEMMA CountersEffect ==
    ASSUME [SessionNext]_vars
    PROVE  /\ \/ UNCHANGED <<conn, opened>>
              \/ opened < MaxFaults + 1 /\ opened' = opened + 1 /\ conn' = opened + 1
           /\ \/ UNCHANGED faults
              \/ faults < MaxFaults /\ faults' = faults + 1
           /\ \/ UNCHANGED closed
              \/ at # "none" /\ closed' = closed \cup {conn}
<1>1. CASE Connect \/ ConnectFails \/ BackOff \/ CancelAgent \/ UNCHANGED vars
  BY <1>1 DEF Connect, ConnectFails, BackOff, CancelAgent, vars, netVars
<1>2. CASE SendAuth \/ ReadAuthResponse \/ ReadAuthFails
  BY <1>2 DEF SendAuth, ReadAuthResponse, ReadAuthFails, CloseAndRetry
<1>3. CASE SendHello \/ ReadAck \/ ReadFailsWhileConnected
  BY <1>3 DEF SendHello, ReadAck, ReadFailsWhileConnected
<1>4. CASE ServeHeartbeat \/ ServeKeyExchange \/ ServeCommand \/ ServeOther
  BY <1>4 DEF ServeHeartbeat, ServeKeyExchange, ServeCommand, ServeOther
<1>5. CASE HandlerActions
  BY <1>5 DEF HandlerActions, ReadConn, WriteReply, netVars
<1>6. CASE RelayReceives
  BY <1>6 DEF RelayReceives, RelayReads, RelayAccepts, RelayRefuses, RelayRegisters, RelayReadsOther
<1>7. CASE Environment
  BY <1>7 DEF Environment, Break, LoseInFlight, RelayGarbles, RelayForwards, RelayAsks
<1> QED
  BY <1>1, <1>2, <1>3, <1>4, <1>5, <1>6, <1>7 DEF SessionNext, LoopActions

\* The variables without queues.
LEMMA PlainTypes ==
    ASSUME SessionTypeOK, OpenInv, [SessionNext]_vars
    PROVE  /\ at' \in {"none", "authSend", "authRead", "helloSend", "ackRead", "serve"}
           /\ conn' \in 0..opened' /\ opened' \in 0..(MaxFaults + 1)
           /\ faults' \in 0..MaxFaults
           /\ closed' \subseteq Conns /\ broken' \subseteq Conns
           /\ command' \in [Commands -> {"new", "sent", "dropped", "running"}]
<1> USE DEF SessionNext, LoopActions, HandlerActions, RelayReceives, Environment,
            CancelAgent, Connect, ConnectFails, CloseAndRetry, SendAuth, ReadAuthResponse,
            ReadAuthFails, Lose, SendHello, ReadAck, ReadFailsWhileConnected, ServeHeartbeat,
            ServeKeyExchange, ServeCommand, ServeOther, BackOff, ReadConn, WriteReply, RelayReads,
            RelayAccepts, RelayRefuses, RelayRegisters, RelayReadsOther, Break, LoseInFlight,
            RelayGarbles, RelayForwards, RelayAsks, vars, netVars, handlerVars
<1>1. at' \in {"none", "authSend", "authRead", "helloSend", "ackRead", "serve"}
  <2>1. at \in {"none", "authSend", "authRead", "helloSend", "ackRead", "serve"}
    BY DEF SessionTypeOK
  <2> QED
    BY <2>1
<1> HIDE DEF SessionNext
<1>2. conn' \in 0..opened' /\ opened' \in 0..(MaxFaults + 1) /\ faults' \in 0..MaxFaults
  <2>1. conn \in 0..opened /\ opened \in 0..(MaxFaults + 1) /\ faults \in 0..MaxFaults
    BY DEF SessionTypeOK
  <2> QED
    BY <2>1, CountersEffect
<1>4. closed' \subseteq Conns
  <2>1. closed \subseteq Conns
    BY DEF SessionTypeOK
  <2> QED
    BY <2>1, CountersEffect, InUse
<1> USE DEF SessionNext
<1>5. broken' \subseteq Conns
  BY DEF SessionTypeOK
<1>6. command' \in [Commands -> {"new", "sent", "dropped", "running"}]
  BY DEF SessionTypeOK
<1> QED
  BY <1>1, <1>2, <1>4, <1>5, <1>6

LEMMA SessionTypeStep ==
    SessionTypeOK /\ CounterInv /\ OpenInv /\ [SessionNext]_vars => (SessionTypeOK /\ CounterInv)'
<1> SUFFICES ASSUME SessionTypeOK, CounterInv, OpenInv, [SessionNext]_vars
             PROVE  (SessionTypeOK /\ CounterInv)'
  OBVIOUS
<1>1. LoopTypeOK' /\ CounterInv'
  BY LoopSteps, CounterStep DEF SessionTypeOK
<1> QED
  BY <1>1, OutType, InStep, GotType, AskedType, RelayType, SenderType, PlainTypes
     DEF SessionTypeOK, Conns

-----------------------------------------------------------------------------
(* What a step does to an uplink: it keeps it, cuts it off if the          *)
(* connection is dead, or adds one frame, of one of five writers, if it    *)
(* is not.                                                                 *)

Writes(k, f) ==
    \/ SendAuth /\ k = conn /\ f = Frame("AUTH_REQUEST")
    \/ SendHello /\ k = conn /\ f = Frame("AGENT_HELLO")
    \/ ServeHeartbeat /\ k = conn /\ f = Numbered("HEARTBEAT_ACK", Head(in[conn]).seq)
    \/ ServeKeyExchange /\ k = conn /\ f = Numbered("KEY_EXCHANGE_ACK", Head(in[conn]).seq)
    \/ \E c \in Commands : WriteReply(c) /\ k = snap[c] /\ f = ReplyFrame(c, next[c])

Keeps(k) == Uplink(k)' = Uplink(k)
Cuts(k) == Dead(k) /\ Uplink(k)' = got[k]
Adds(k) == ~Dead(k) /\ \E f \in Frames : Writes(k, f) /\ Uplink(k)' = Append(Uplink(k), f)

LEMMA UplinkType == SessionTypeOK => \A k \in Conns : Uplink(k) \in Seq(Frames)
BY ConcatOps DEF SessionTypeOK, Uplink

\* The queue and the history behind an uplink.
Reads(k) == RelayAccepts(k) \/ RelayRefuses(k) \/ RelayRegisters(k) \/ RelayReadsOther(k)

QueueSame(k) == out'[k] = out[k] /\ got'[k] = got[k]
QueueAdds(k, f) == ~Dead(k) /\ Writes(k, f) /\ out'[k] = Append(out[k], f) /\ got'[k] = got[k]
QueueMoves(k) == /\ Reads(k) /\ out[k] # <<>> /\ out'[k] = Tail(out[k])
                 /\ got'[k] = Append(got[k], Head(out[k]))
QueueLost(k) == Dead(k) /\ out'[k] = <<>> /\ got'[k] = got[k]

LEMMA QueueStep ==
    ASSUME SessionTypeOK, OpenInv, [SessionNext]_vars, NEW l \in Conns
    PROVE  /\ QueueSame(l) \/ (\E f \in Frames : QueueAdds(l, f)) \/ QueueMoves(l) \/ QueueLost(l)
           /\ relay'[l] # relay[l] => QueueMoves(l)
<1> DEFINE Good == /\ QueueSame(l) \/ (\E f \in Frames : QueueAdds(l, f)) \/ QueueMoves(l) \/ QueueLost(l)
                   /\ relay'[l] # relay[l] => QueueMoves(l)
<1> USE DEF QueueSame, QueueAdds, QueueLost
<1>0. ASSUME NEW k \in Conns, NEW f \in Frames, WriteSucceeds(k, f) \/ WriteFails(k),
             UNCHANGED <<got, relay>>, Writes(k, f)
      PROVE  Good
  BY <1>0, WriteEffect
<1>1. CASE SendAuth
  BY <1>0, <1>1, InUse, FrameOK DEF SendAuth, Writes, FrameTypes
<1>2. CASE SendHello
  BY <1>0, <1>2, InUse, FrameOK DEF SendHello, Writes, FrameTypes
<1>3. CASE ServeHeartbeat \/ ServeKeyExchange
  <2>1. conn \in Conns /\ in[conn] # <<>> /\ in[conn] \in Seq(Frames)
    BY <1>3, InUse DEF ServeHeartbeat, ServeKeyExchange, Serving, Readable, Waiting, SessionTypeOK
  <2>2. Head(in[conn]) \in Frames
    BY <2>1, SeqOps
  <2>3. /\ Numbered("HEARTBEAT_ACK", Head(in[conn]).seq) \in Frames
        /\ Numbered("KEY_EXCHANGE_ACK", Head(in[conn]).seq) \in Frames
    BY <2>2, FrameOK DEF FrameTypes, Frames
  <2> QED
    BY <1>0, <1>3, <2>1, <2>3 DEF ServeHeartbeat, ServeKeyExchange, Writes
<1>4. ASSUME NEW c \in Commands, WriteReply(c)
      PROVE  Good
  <2>1. snap[c] \in Conns /\ ReplyFrame(c, next[c]) \in Frames
    BY <1>4, FrameOK DEF WriteReply, SessionTypeOK
  <2> QED
    BY <1>0, <1>4, <2>1 DEF WriteReply, Writes
<1>5. ASSUME NEW k \in Conns, LoseInFlight(k)
      PROVE  Good
  BY <1>5 DEF LoseInFlight, SessionTypeOK
<1>6. ASSUME NEW k \in Conns, Reads(k)
      PROVE  Good
  <2>1. RelayReads(k) /\ (l # k => relay'[l] = relay[l])
    BY <1>6 DEF Reads, RelayAccepts, RelayRefuses, RelayRegisters, RelayReadsOther, SessionTypeOK
  <2> QED
    BY <1>6, <2>1, RelayReadsEffect DEF QueueMoves
<1>7. CASE UNCHANGED <<out, got, relay>>
  BY <1>7
<1> QED
  BY <1>1, <1>2, <1>3, <1>4, <1>5, <1>6, <1>7
     DEF SessionNext, LoopActions, HandlerActions, RelayReceives, Environment, CancelAgent, Reads,
         Connect, ConnectFails, ReadAuthResponse, ReadAuthFails, ReadAck, ReadFailsWhileConnected,
         ServeCommand, ServeOther, BackOff, ReadConn, Break, RelayGarbles, RelayForwards, RelayAsks,
         vars, netVars

LEMMA UplinkStep ==
    ASSUME SessionTypeOK, OpenInv, [SessionNext]_vars, NEW l \in Conns
    PROVE  Keeps(l) \/ Cuts(l) \/ Adds(l)
<1>1. out[l] \in Seq(Frames) /\ got[l] \in Seq(Frames)
  BY DEF SessionTypeOK
<1>2. CASE QueueSame(l)
  BY <1>2 DEF QueueSame, Keeps, Uplink
<1>3. ASSUME NEW f \in Frames, QueueAdds(l, f)
      PROVE  Adds(l)
  <2>1. \A p \in Seq(Frames), q \in Seq(Frames), e \in Frames : p \o Append(q, e) = Append(p \o q, e)
    OBVIOUS
  <2>2. got[l] \o Append(out[l], f) = Append(got[l] \o out[l], f)
    BY <1>1, <2>1, Zenon
  <2> QED
    BY <1>3, <2>2 DEF QueueAdds, Adds, Uplink
<1>4. CASE QueueMoves(l)
  <2>1. out[l] # <<>> /\ out'[l] = Tail(out[l]) /\ got'[l] = Append(got[l], Head(out[l]))
    BY <1>4 DEF QueueMoves
  <2>2. Append(got[l], Head(out[l])) \o Tail(out[l]) = got[l] \o out[l]
    BY <1>1, <2>1, ConcatHeadTail, Zenon
  <2>3. got'[l] \o out'[l] = got[l] \o out[l]
    BY <2>1, <2>2, Zenon
  <2> QED
    BY <2>3, Zenon DEF Keeps, Uplink
<1>5. CASE QueueLost(l)
  <2>1. got[l] \o <<>> = got[l]
    BY <1>1, ConcatEmptySeq
  <2> QED
    BY <1>5, <2>1 DEF QueueLost, Cuts, Uplink
<1> QED
  BY <1>2, <1>3, <1>4, <1>5, QueueStep

LEMMA UplinkIndex ==
    ASSUME SessionTypeOK, OpenInv, [SessionNext]_vars, NEW l \in Conns
    PROVE  /\ Len(Uplink(l)) \in Nat /\ Len(Uplink(l)') \in Nat
           /\ \A i \in 1..Len(Uplink(l)') :
                \/ i \in 1..Len(Uplink(l)) /\ Uplink(l)'[i] = Uplink(l)[i]
                \/ /\ i = Len(Uplink(l)) + 1 /\ i = Len(Uplink(l)')
                   /\ ~Dead(l) /\ Writes(l, Uplink(l)'[i])
           /\ ~Dead(l) => \A i \in 1..Len(Uplink(l)) :
                            i \in 1..Len(Uplink(l)') /\ Uplink(l)'[i] = Uplink(l)[i]
<1> DEFINE u == Uplink(l)
           v == Uplink(l)'
<1>1. u \in Seq(Frames) /\ got[l] \in Seq(Frames) /\ out[l] \in Seq(Frames)
  BY UplinkType DEF SessionTypeOK
<1>2. CASE Keeps(l)
  BY <1>1, <1>2, SeqOps DEF Keeps
<1>3. CASE Cuts(l)
  <2>1. \A p \in Seq(Frames), q \in Seq(Frames) :
          /\ Len(p \o q) \in Nat /\ Len(p) \in Nat
          /\ \A i \in 1..Len(p) : i \in 1..Len(p \o q) /\ p[i] = (p \o q)[i]
    OBVIOUS
  <2>2. /\ Len(u) \in Nat /\ Len(got[l]) \in Nat
        /\ \A i \in 1..Len(got[l]) : i \in 1..Len(u) /\ got[l][i] = u[i]
    BY <1>1, <2>1, Zenon DEF Uplink
  <2>3. Dead(l) /\ v = got[l]
    BY <1>3 DEF Cuts
  <2> QED
    BY <2>2, <2>3, Zenon
<1>4. CASE Adds(l)
  <2>1. PICK f \in Frames : ~Dead(l) /\ Writes(l, f) /\ v = Append(u, f)
    BY <1>4 DEF Adds
  <2> HIDE DEF u, v
  <2>2. /\ Len(u) \in Nat /\ Len(v) = Len(u) + 1 /\ v[Len(u) + 1] = f
        /\ \A i \in 1..Len(u) : v[i] = u[i]
    BY <1>1, <2>1, SeqOps
  <2>3. \A i \in 1..Len(v) : i \in 1..Len(u) \/ i = Len(u) + 1
    BY <2>2
  <2>4. /\ Len(u) \in Nat /\ Len(v) \in Nat
        /\ \A i \in 1..Len(v) :
             \/ i \in 1..Len(u) /\ v[i] = u[i]
             \/ i = Len(u) + 1 /\ i = Len(v) /\ ~Dead(l) /\ Writes(l, v[i])
        /\ \A i \in 1..Len(u) : i \in 1..Len(v) /\ v[i] = u[i]
    BY <2>1, <2>2, <2>3
  <2> QED
    BY <2>4 DEF u, v
<1> QED
  BY <1>2, <1>3, <1>4, UplinkStep

-----------------------------------------------------------------------------
(* Connections that are not open yet. *)

LEMMA OpenStep ==
    ASSUME SessionTypeOK, OpenInv, \A c \in Commands : snap[c] <= conn, [SessionNext]_vars
    PROVE  OpenInv'
<1>o. opened \in Nat /\ conn \in 0..opened
  BY DEF SessionTypeOK
<1>1. opened' = opened \/ opened' = opened + 1
  BY DEF SessionNext, LoopActions, HandlerActions, RelayReceives, Environment, CancelAgent,
         Connect, ConnectFails, SendAuth, ReadAuthResponse, ReadAuthFails, SendHello, ReadAck,
         ReadFailsWhileConnected, ServeHeartbeat, ServeKeyExchange, ServeCommand, ServeOther,
         BackOff, ReadConn, WriteReply, RelayReads, RelayAccepts, RelayRefuses, RelayRegisters,
         RelayReadsOther, Break, LoseInFlight, RelayGarbles, RelayForwards, RelayAsks, vars
<1>2. at' # "none" => conn' = opened' /\ conn' \in Conns /\ conn' \notin closed'
  <2>1. CASE Connect
    <3>1. opened + 1 \in Conns /\ opened + 1 > opened
      BY <1>o, <2>1 DEF Connect, Conns
    <3> QED
      BY <2>1, <3>1 DEF Connect, netVars, OpenInv, Unused
  <2>2. CASE ~Connect
    <3>1. UNCHANGED <<conn, opened>>
      BY <2>2 DEF SessionNext, LoopActions, HandlerActions, RelayReceives, Environment, CancelAgent,
         ConnectFails, SendAuth, ReadAuthResponse, ReadAuthFails, SendHello, ReadAck,
         ReadFailsWhileConnected, ServeHeartbeat, ServeKeyExchange, ServeCommand, ServeOther,
         BackOff, ReadConn, WriteReply, RelayReads, RelayAccepts, RelayRefuses, RelayRegisters,
         RelayReadsOther, Break, LoseInFlight, RelayGarbles, RelayForwards, RelayAsks, vars
    <3>2. at' # "none" => at # "none" /\ closed' = closed
      BY <2>2 DEF SessionNext, LoopActions, HandlerActions, RelayReceives, Environment, CancelAgent,
         ConnectFails, SendAuth, CloseAndRetry, ReadAuthResponse, ReadAuthFails, SendHello, ReadAck, Lose,
         ReadFailsWhileConnected, ServeHeartbeat, ServeKeyExchange, ServeCommand, ServeOther, Serving,
         BackOff, ReadConn, WriteReply, RelayReads, RelayAccepts, RelayRefuses, RelayRegisters,
         RelayReadsOther, Break, LoseInFlight, RelayGarbles, RelayForwards, RelayAsks, vars, netVars
    <3> QED
      BY <3>1, <3>2 DEF OpenInv
  <2> QED
    BY <2>1, <2>2
<1>3. ASSUME NEW k \in Conns, k > opened'
      PROVE  Unused(k)'
  <2>1. k > opened /\ k # conn /\ k \in Nat
    BY <1>o, <1>1, <1>3 DEF Conns
  <2>2. Unused(k)
    BY <2>1 DEF OpenInv
  <2>3. ASSUME NEW c \in Commands PROVE snap[c] # k
    <3>1. snap[c] <= conn /\ snap[c] \in Conns \cup {0}
      BY DEF SessionTypeOK
    <3> QED
      BY <1>o, <2>1, <3>1
  <2>4. ~RelayReads(k) /\ ~LoseInFlight(k) /\ ~RelayGarbles(k) /\ ~Routed(k)
    BY <1>o, <2>1, <2>2 DEF Unused, RelayReads, LoseInFlight, RelayGarbles, Routed
  <2>5. in'[k] = <<>>
    <3>1. ASSUME NEW f PROVE ~Sends(k, f)
      BY <2>4 DEF Sends, RelayAccepts, RelayRefuses, RelayRegisters, RelayForwards, RelayAsks
    <3> QED
      BY <2>1, <2>2, <3>1, InStep DEF TakesFirst, GetsLast, Unused
  <2>6. UNCHANGED <<out[k], got[k], relay[k]>>
    <3>1. ~Reads(k)
      BY <2>4 DEF Reads, RelayAccepts, RelayRefuses, RelayRegisters, RelayReadsOther
    <3>2. ASSUME NEW f PROVE ~Writes(k, f)
      BY <2>1, <2>3 DEF Writes
    <3> QED
      BY <2>2, <3>1, <3>2, QueueStep DEF QueueSame, QueueAdds, QueueMoves, QueueLost, Unused
  <2>7. k \notin closed'
    BY <2>1, <2>2
       DEF Unused, SessionNext, LoopActions, HandlerActions, RelayReceives, Environment, CancelAgent,
         Connect, ConnectFails, CloseAndRetry, SendAuth, ReadAuthResponse, ReadAuthFails, SendHello, ReadAck,
         ReadFailsWhileConnected, ServeHeartbeat, ServeKeyExchange, ServeCommand, ServeOther,
         BackOff, ReadConn, WriteReply, RelayReads, RelayAccepts, RelayRefuses, RelayRegisters,
         RelayReadsOther, Break, LoseInFlight, RelayGarbles, RelayForwards, RelayAsks, vars, netVars
  <2> QED
    BY <2>2, <2>5, <2>6, <2>7 DEF Unused
<1> QED
  BY <1>2, <1>3 DEF OpenInv

-----------------------------------------------------------------------------
(* Acceptance and registration. *)

LEMMA HasOps ==
    ASSUME NEW q \in Seq(Frames), NEW t
    PROVE  /\ ~Has(<<>>, t)
           /\ \A e \in Frames : Has(Append(q, e), t) <=> Has(q, t) \/ e.type = t
           /\ q # <<>> => (Has(q, t) <=> Head(q).type = t \/ Has(Tail(q), t))
<1>0. ~Has(<<>>, t)
  BY EmptySeq DEF Has
<1>1. ASSUME NEW e \in Frames
      PROVE  Has(Append(q, e), t) <=> Has(q, t) \/ e.type = t
  <2> DEFINE v == Append(q, e)
  <2>1. /\ Len(q) \in Nat /\ Len(v) = Len(q) + 1 /\ v[Len(q) + 1] = e
        /\ \A i \in 1..Len(q) : v[i] = q[i]
    BY SeqOps
  <2> HIDE DEF v
  <2>2. \A i \in 1..Len(v) : i \in 1..Len(q) \/ i = Len(q) + 1
    BY <2>1
  <2>3. Has(v, t) <=> Has(q, t) \/ e.type = t
    BY <2>1, <2>2 DEF Has
  <2> QED
    BY <2>3 DEF v
<1>2. ASSUME q # <<>>
      PROVE  Has(q, t) <=> Head(q).type = t \/ Has(Tail(q), t)
  <2> DEFINE v == Tail(q)
             h == Head(q)
  <2>1. /\ Len(q) \in Nat /\ Len(q) # 0 /\ h = q[1] /\ Len(v) = Len(q) - 1
        /\ \A i \in 1..Len(v) : v[i] = q[i + 1]
    BY <1>2, SeqOps
  <2> HIDE DEF v, h
  <2>2. \A i \in 1..Len(q) : i = 1 \/ (i - 1 \in 1..Len(v) /\ v[i - 1] = q[i])
    BY <2>1
  <2>3. \A i \in 1..Len(v) : i + 1 \in 1..Len(q) /\ v[i] = q[i + 1]
    BY <2>1
  <2>4. 1 \in 1..Len(q)
    BY <2>1
  <2>5. Has(q, t) <=> h.type = t \/ Has(v, t)
    BY <2>1, <2>2, <2>3, <2>4 DEF Has
  <2> QED
    BY <2>5 DEF v, h
<1> QED
  BY <1>0, <1>1, <1>2

LEMMA HasUplink ==
    ASSUME SessionTypeOK, NEW k \in Conns, NEW t
    PROVE  Has(Uplink(k), t) <=> Has(got[k], t) \/ Has(out[k], t)
<1>1. out[k] \in Seq(Frames) /\ got[k] \in Seq(Frames)
  BY DEF SessionTypeOK
<1>2. ASSUME NEW p \in Seq(Frames), NEW q \in Seq(Frames)
      PROVE  Has(p \o q, t) <=> Has(p, t) \/ Has(q, t)
  <2> DEFINE u == p \o q
  <2>1. /\ Len(p) \in Nat /\ Len(q) \in Nat /\ Len(u) = Len(p) + Len(q)
        /\ \A i \in 1..Len(p) : u[i] = p[i]
        /\ \A i \in 1..Len(q) : u[Len(p) + i] = q[i]
    BY ConcatOps, SeqOps
  <2> HIDE DEF u
  <2>2. \A i \in 1..Len(u) : \/ i \in 1..Len(p)
                             \/ i - Len(p) \in 1..Len(q) /\ u[i] = q[i - Len(p)]
    BY <2>1
  <2>3. \A i \in 1..Len(q) : Len(p) + i \in 1..Len(u)
    BY <2>1
  <2>4. \A i \in 1..Len(p) : i \in 1..Len(u)
    BY <2>1
  <2>5. Has(u, t) <=> Has(p, t) \/ Has(q, t)
    BY <2>1, <2>2, <2>3, <2>4 DEF Has
  <2> QED
    BY <2>5 DEF u
<1> QED
  BY <1>1, <1>2, Zenon DEF Uplink

\* Each writer writes its own type of frame.
LEMMA WriterOf ==
    ASSUME NEW k, NEW f, Writes(k, f)
    PROVE  /\ f.type = "AGENT_HELLO" => SendHello /\ k = conn
           /\ f.type = "REPLY" => \E c \in Commands : WriteReply(c) /\ k = snap[c] /\ f = ReplyFrame(c, next[c])
           /\ Inline(f) => /\ ServeHeartbeat \/ ServeKeyExchange
                           /\ k = conn /\ f.seq = Head(in[conn]).seq
                           /\ f.type = AnswerTo(Head(in[conn]).type)
BY DEF Writes, Frame, Numbered, ReplyFrame, Inline, AnswerTo, ServeHeartbeat, ServeKeyExchange, Serving

LEMMA HelloTwice ==
    ASSUME SessionTypeOK, HelloInv, NEW k \in Conns, out[k] # <<>>
    PROVE  ~(Head(out[k]).type = "AGENT_HELLO" /\ Has(Tail(out[k]), "AGENT_HELLO"))
<1> DEFINE q == out[k]
           v == Tail(q)
           u == Uplink(k)
           n == Len(got[k])
<1>1. q \in Seq(Frames) /\ got[k] \in Seq(Frames)
  BY DEF SessionTypeOK
<1>2. /\ Head(q) = q[1] /\ Len(q) \in Nat /\ Len(q) # 0 /\ Len(v) = Len(q) - 1
      /\ \A i \in 1..Len(v) : v[i] = q[i + 1]
  BY <1>1, SeqOps
<1>3. \A i \in 1..Len(q) : n + i \in 1..Len(u) /\ u[n + i] = q[i]
  <2>1. \A x, y \in Seq(Frames) : \A i \in 1..Len(y) :
          Len(x) + i \in 1..Len(x \o y) /\ (x \o y)[Len(x) + i] = y[i]
    OBVIOUS
  <2> QED
    BY <1>1, <2>1, Zenon DEF Uplink
<1>4. n \in Nat
  BY <1>1, SeqOps
<1>5. \A i, j \in 1..Len(u) : u[i].type = "AGENT_HELLO" /\ u[j].type = "AGENT_HELLO" => i = j
  BY DEF HelloInv
<1> HIDE DEF q, v, u, n
<1>6. ASSUME q[1].type = "AGENT_HELLO", NEW i \in 1..Len(v), v[i].type = "AGENT_HELLO"
      PROVE  FALSE
  <2>1. 1 \in 1..Len(q) /\ i + 1 \in 1..Len(q) /\ q[i + 1].type = "AGENT_HELLO"
    BY <1>2, <1>6
  <2>2. /\ n + 1 \in 1..Len(u) /\ u[n + 1].type = "AGENT_HELLO"
        /\ n + (i + 1) \in 1..Len(u) /\ u[n + (i + 1)].type = "AGENT_HELLO"
    BY <1>3, <1>6, <2>1
  <2>3. n + 1 = n + (i + 1)
    BY <1>5, <2>2
  <2> QED
    BY <1>4, <2>3
<1> QED
  BY <1>2, <1>6 DEF q, v, Has

LEMMA AcceptStep ==
    ASSUME SessionTypeOK, OpenInv, AcceptInv, HelloInv, [SessionNext]_vars
    PROVE  AcceptInv'
<1>t. \A k \in Conns : /\ out[k] \in Seq(Frames) /\ got[k] \in Seq(Frames) /\ in[k] \in Seq(Frames)
                        /\ relay[k] \in {"await", "refused", "authed", "online"}
  BY DEF SessionTypeOK
\* What the relay makes of the frame it reads.
<1>r. ASSUME NEW k \in Conns, Reads(k)
      PROVE  /\ relay[k] = "authed" => relay'[k] = "authed" \/ (relay'[k] = "online" /\ Head(out[k]).type = "AGENT_HELLO")
             /\ relay[k] = "online" => relay'[k] = "online"
             /\ relay[k] \notin {"authed", "online"} /\ relay'[k] \in {"authed", "online"} =>
                  relay'[k] = "authed" /\ Head(out[k]).type = "AUTH_REQUEST"
             /\ relay[k] = "authed" /\ Head(out[k]).type = "AGENT_HELLO" => relay'[k] = "online"
  BY <1>r DEF Reads, RelayAccepts, RelayRefuses, RelayRegisters, RelayReadsOther, SessionTypeOK
<1>m. ASSUME NEW k \in Conns, relay[k] \in {"authed", "online"}
      PROVE  relay'[k] \in {"authed", "online"}
  BY <1>r, <1>m, QueueStep DEF QueueMoves
<1>1. ASSUME at' \in {"helloSend", "ackRead", "serve"}
      PROVE  relay'[conn'] \in {"authed", "online"}
  <2>1. CASE at \in {"helloSend", "ackRead", "serve"} /\ conn' = conn
    BY <2>1, <1>m DEF AcceptInv, OpenInv
  <2>2. CASE ReadAuthResponse
    <3>1. conn \in Conns /\ in[conn] # <<>> /\ Head(in[conn]).type = "AUTH_OK" /\ conn' = conn
      BY <1>1, <2>2 DEF ReadAuthResponse, Readable, Waiting, CloseAndRetry, OpenInv
    <3>2. Has(in[conn], "AUTH_OK")
      BY <1>t, <3>1, HasOps
    <3> QED
      BY <1>m, <3>1, <3>2 DEF AcceptInv
  <2> QED
    BY <1>1, <2>1, <2>2
       DEF SessionNext, LoopActions, HandlerActions, RelayReceives, Environment, CancelAgent,
         Connect, ConnectFails, CloseAndRetry, SendAuth, ReadAuthFails, SendHello, ReadAck, Lose,
         ReadFailsWhileConnected, ServeHeartbeat, ServeKeyExchange, ServeCommand, ServeOther, Serving,
         BackOff, ReadConn, WriteReply, RelayReads, RelayAccepts, RelayRefuses, RelayRegisters,
         RelayReadsOther, Break, LoseInFlight, RelayGarbles, RelayForwards, RelayAsks, vars
<1>2. ASSUME NEW k \in Conns, Has(in[k], "AUTH_OK")'
      PROVE  relay'[k] \in {"authed", "online"}
  <2>1. CASE in'[k] = in[k]
    BY <1>2, <1>m, <2>1 DEF AcceptInv, Has
  <2>2. CASE TakesFirst(k)
    <3>1. in[k] # <<>> /\ Has(Tail(in[k]), "AUTH_OK")
      BY <1>2, <2>2 DEF TakesFirst, Has
    <3> QED
      BY <1>t, <1>m, <3>1, HasOps DEF AcceptInv
  <2>3. CASE GetsLast(k)
    <3>1. PICK f \in Frames : Sends(k, f) /\ in'[k] = Append(in[k], f)
      BY <2>3 DEF GetsLast
    <3>2. Has(Append(in[k], f), "AUTH_OK")
      BY <1>2, <3>1 DEF Has
    <3>3. Has(in[k], "AUTH_OK") \/ f.type = "AUTH_OK"
      BY <1>t, <3>2, HasOps
    <3>4. f.type = "AUTH_OK" => RelayAccepts(k)
      BY <3>1 DEF Sends, Frame, Numbered, CommandFrame, Questions
    <3>5. RelayAccepts(k) => relay'[k] = "authed"
      BY DEF RelayAccepts, SessionTypeOK
    <3> QED
      BY <1>m, <3>3, <3>4, <3>5 DEF AcceptInv
  <2> QED
    BY <2>1, <2>2, <2>3, InStep
\* The remaining three speak of one connection.
<1>3. ASSUME NEW k \in Conns
      PROVE  /\ relay'[k] \in {"authed", "online"} => Has(got[k], "AUTH_REQUEST")'
             /\ Has(out[k], "AGENT_HELLO")' => relay'[k] = "authed"
             /\ Has(got[k], "AGENT_HELLO")' <=> relay'[k] = "online"
  <2>0. /\ relay[k] \in {"authed", "online"} => Has(got[k], "AUTH_REQUEST")
        /\ Has(out[k], "AGENT_HELLO") => relay[k] = "authed"
        /\ Has(got[k], "AGENT_HELLO") <=> relay[k] = "online"
    BY DEF AcceptInv
  <2>1. CASE QueueSame(k) /\ relay'[k] = relay[k]
    BY <2>0, <2>1 DEF QueueSame, Has
  <2>2. ASSUME NEW f \in Frames, QueueAdds(k, f), relay'[k] = relay[k]
        PROVE  /\ relay'[k] \in {"authed", "online"} => Has(got[k], "AUTH_REQUEST")'
               /\ Has(out[k], "AGENT_HELLO")' => relay'[k] = "authed"
               /\ Has(got[k], "AGENT_HELLO")' <=> relay'[k] = "online"
    <3>1. out'[k] = Append(out[k], f) /\ got'[k] = got[k] /\ Writes(k, f)
      BY <2>2 DEF QueueAdds
    <3>2. f.type = "AGENT_HELLO" => relay[k] = "authed"
      <4> SUFFICES ASSUME f.type = "AGENT_HELLO" PROVE relay[k] = "authed"
        OBVIOUS
      <4>1. at = "helloSend" /\ k = conn
        BY <3>1, WriterOf DEF SendHello
      <4>2. relay[k] \in {"authed", "online"}
        BY <4>1 DEF AcceptInv
      <4>3. ~Has(Uplink(k), "AGENT_HELLO")
        BY <4>1 DEF HelloInv
      <4>4. ~Has(got[k], "AGENT_HELLO")
        BY <4>3, HasUplink
      <4> QED
        BY <2>0, <4>2, <4>4
    <3>3. Has(Append(out[k], f), "AGENT_HELLO") <=> Has(out[k], "AGENT_HELLO") \/ f.type = "AGENT_HELLO"
      BY <1>t, HasOps
    <3> QED
      BY <2>0, <2>2, <3>1, <3>2, <3>3 DEF Has
  <2>3. CASE QueueMoves(k)
    <3>1. /\ Reads(k) /\ out[k] # <<>> /\ out'[k] = Tail(out[k])
          /\ got'[k] = Append(got[k], Head(out[k]))
      BY <2>3 DEF QueueMoves
    <3>2. Head(out[k]) \in Frames
      BY <1>t, <3>1, SeqOps
    <3>3. \A t : (Has(out[k], t) <=> Head(out[k]).type = t \/ Has(Tail(out[k]), t))
      BY <1>t, <3>1, HasOps
    <3>6. \A t : (Has(Append(got[k], Head(out[k])), t) <=> Has(got[k], t) \/ Head(out[k]).type = t)
      BY <1>t, <3>2, HasOps
    <3>4. \A t : (Has(out[k], t)' <=> Has(Tail(out[k]), t)) /\ (Has(got[k], t)' <=> Has(Append(got[k], Head(out[k])), t))
      BY <3>1 DEF Has
    <3>5. ~(Head(out[k]).type = "AGENT_HELLO" /\ Has(Tail(out[k]), "AGENT_HELLO"))
      BY <3>1, HelloTwice
    <3> QED
      BY <1>t, <1>r, <2>0, <3>1, <3>3, <3>4, <3>5, <3>6
  <2>4. CASE QueueLost(k) /\ relay'[k] = relay[k]
    BY <2>0, <2>4, EmptySeq DEF QueueLost, Has
  <2> QED
    BY <2>1, <2>2, <2>3, <2>4, QueueStep
<1> QED
  BY <1>1, <1>2, <1>3 DEF AcceptInv

LEMMA HelloStep ==
    ASSUME SessionTypeOK, OpenInv, AcceptInv, HelloInv, [SessionNext]_vars
    PROVE  HelloInv'
\* A second AGENT_HELLO would come from SendHello, which writes the first.
<1>n. ASSUME NEW k \in Conns, NEW i \in 1..Len(Uplink(k)'), Uplink(k)'[i].type = "AGENT_HELLO"
      PROVE  \/ i \in 1..Len(Uplink(k)) /\ Uplink(k)[i].type = "AGENT_HELLO"
             \/ i = Len(Uplink(k)) + 1 /\ SendHello /\ k = conn
  BY <1>n, UplinkIndex, WriterOf
<1>1. ASSUME at' \in {"authSend", "authRead", "helloSend"}
      PROVE  ~Has(Uplink(conn), "AGENT_HELLO")'
  <2>1. CASE Connect
    <3>1. /\ conn' \in Conns /\ conn' > opened
      BY <2>1 DEF Connect, SessionTypeOK, Conns
    <3>2. got[conn'] = <<>> /\ out[conn'] = <<>>
      BY <3>1 DEF OpenInv, Unused
    <3>3. got' = got /\ out' = out
      BY <2>1 DEF Connect, netVars
    <3>4. Uplink(conn)' = <<>> \o <<>>
      BY <3>2, <3>3 DEF Uplink
    <3>5. Uplink(conn)' = <<>>
      BY <3>4, EmptySeq, ConcatEmptySeq
    <3> QED
      BY <3>5, EmptySeq DEF Has
  <2>2. CASE ~Connect
    <3>1. at \in {"authSend", "authRead", "helloSend"} /\ conn' = conn /\ ~SendHello
      BY <1>1, <2>2
         DEF SessionNext, LoopActions, HandlerActions, RelayReceives, Environment, CancelAgent,
           ConnectFails, CloseAndRetry, SendAuth, ReadAuthResponse, ReadAuthFails, SendHello, ReadAck, Lose,
           ReadFailsWhileConnected, ServeHeartbeat, ServeKeyExchange, ServeCommand, ServeOther, Serving,
           BackOff, ReadConn, WriteReply, RelayReads, RelayAccepts, RelayRefuses, RelayRegisters,
           RelayReadsOther, Break, LoseInFlight, RelayGarbles, RelayForwards, RelayAsks, vars
    <3>2. conn \in Conns /\ ~Has(Uplink(conn), "AGENT_HELLO")
      BY <3>1 DEF HelloInv, OpenInv
    <3>3. \A i \in 1..Len(Uplink(conn)') : Uplink(conn)'[i].type # "AGENT_HELLO"
      BY <1>n, <3>1, <3>2 DEF Has
    <3> QED
      BY <3>1, <3>3 DEF Has
  <2> QED
    BY <2>1, <2>2
<1>2. ASSUME NEW k \in Conns, NEW i \in 1..Len(Uplink(k)'), NEW j \in 1..Len(Uplink(k)'),
             Uplink(k)'[i].type = "AGENT_HELLO", Uplink(k)'[j].type = "AGENT_HELLO"
      PROVE  i = j
  <2>1. CASE SendHello /\ k = conn
    <3>1. ~Has(Uplink(k), "AGENT_HELLO")
      BY <2>1 DEF SendHello, HelloInv
    <3> QED
      BY <1>n, <1>2, <3>1 DEF Has
  <2>2. CASE ~(SendHello /\ k = conn)
    BY <1>n, <1>2, <2>2 DEF HelloInv
  <2> QED
    BY <2>1, <2>2
<1>3. ASSUME NEW k \in Conns, NEW i \in 1..Len(got[k]'), got'[k][i].type = "AGENT_HELLO"
      PROVE  \E j \in 1..(i - 1) : got'[k][j].type = "AUTH_REQUEST"
  <2>1. CASE got'[k] = got[k]
    BY <1>3, <2>1 DEF HelloInv
  <2>2. CASE QueueMoves(k)
    <3> DEFINE g == got[k]
               v == got'[k]
               h == Head(out[k])
    <3>1. /\ g \in Seq(Frames) /\ h \in Frames /\ v = Append(g, h) /\ out[k] \in Seq(Frames) /\ out[k] # <<>>
      BY <2>2, SeqOps DEF QueueMoves, SessionTypeOK
    <3>2. h.type = "AGENT_HELLO" => Has(g, "AUTH_REQUEST")
      BY <3>1, HasOps DEF AcceptInv
    <3>3. \A m \in 1..Len(g) : g[m].type = "AGENT_HELLO" => \E j \in 1..(m - 1) : g[j].type = "AUTH_REQUEST"
      BY DEF HelloInv
    <3>4. i \in 1..Len(v) /\ v[i].type = "AGENT_HELLO"
      BY <1>3
    <3> HIDE DEF g, v, h
    <3>5. /\ Len(g) \in Nat /\ Len(v) = Len(g) + 1 /\ v[Len(g) + 1] = h
          /\ \A m \in 1..Len(g) : v[m] = g[m]
      BY <3>1, SeqOps
    <3>6. CASE i \in 1..Len(g)
      <4>1. PICK j \in 1..(i - 1) : g[j].type = "AUTH_REQUEST"
        BY <3>3, <3>4, <3>5, <3>6
      <4>2. v[j].type = "AUTH_REQUEST"
        BY <3>5, <3>6, <4>1
      <4> QED
        BY <4>1, <4>2 DEF v
    <3>7. CASE i = Len(g) + 1
      <4>1. PICK j \in 1..Len(g) : g[j].type = "AUTH_REQUEST"
        BY <3>2, <3>4, <3>5, <3>7 DEF Has
      <4>2. v[j].type = "AUTH_REQUEST" /\ j \in 1..(i - 1)
        BY <3>5, <3>7, <4>1
      <4> QED
        BY <4>2 DEF v
    <3> QED
      BY <3>4, <3>5, <3>6, <3>7
  <2> QED
    BY <2>1, <2>2, QueueStep DEF QueueSame, QueueAdds, QueueLost
<1> QED
  BY <1>1, <1>2, <1>3 DEF HelloInv

LEMMA RegisterStep ==
    ASSUME SessionTypeOK, OpenInv, RegisterInv, [SessionNext]_vars
    PROVE  RegisterInv'
<1>h. ASSUME NEW k \in Conns, ~Dead(k), Has(Uplink(k), "AGENT_HELLO")
      PROVE  \E i \in 1..Len(Uplink(k)') : Uplink(k)'[i].type = "AGENT_HELLO"
  BY <1>h, UplinkIndex DEF Has
<1>1. ASSUME at' \in {"ackRead", "serve"}
      PROVE  conn' \in broken' \/ Has(Uplink(conn), "AGENT_HELLO")'
  <2>1. CASE SendHello
    <3> DEFINE h == Frame("AGENT_HELLO")
               u == Uplink(conn)
    <3>1. conn \in Conns /\ conn' = conn /\ broken' = broken /\ got' = got /\ WriteSucceeds(conn, h)
      BY <1>1, <2>1, InUse DEF SendHello, Lose
    <3>2. h \in Frames /\ h.type = "AGENT_HELLO"
      BY FrameOK DEF FrameTypes, Frame, Numbered
    <3>3. out[conn] \in Seq(Frames) /\ got[conn] \in Seq(Frames) /\ u \in Seq(Frames)
      BY <3>1, UplinkType DEF SessionTypeOK
    <3>4. CASE conn \notin broken
      <4>1. out'[conn] = Append(out[conn], h)
        BY <3>1, <3>4 DEF WriteSucceeds, SessionTypeOK
      <4>2. \A p \in Seq(Frames), q \in Seq(Frames), e \in Frames : p \o Append(q, e) = Append(p \o q, e)
        OBVIOUS
      <4>3. got[conn] \o Append(out[conn], h) = Append(u, h)
        BY <3>2, <3>3, <4>2, Zenon DEF Uplink
      <4>4. Uplink(conn)' = Append(u, h)
        BY <3>1, <4>1, <4>3 DEF Uplink
      <4>5. Has(Append(u, h), "AGENT_HELLO")
        BY <3>2, <3>3, HasOps
      <4> QED
        BY <4>4, <4>5, Zenon DEF Has
    <3> QED
      BY <3>1, <3>4
  <2>2. CASE ~SendHello
    <3>1. at \in {"ackRead", "serve"} /\ conn' = conn /\ broken \subseteq broken'
      BY <1>1, <2>2
         DEF SessionNext, LoopActions, HandlerActions, RelayReceives, Environment, CancelAgent,
           Connect, ConnectFails, CloseAndRetry, SendAuth, ReadAuthResponse, ReadAuthFails, ReadAck, Lose,
           ReadFailsWhileConnected, ServeHeartbeat, ServeKeyExchange, ServeCommand, ServeOther, Serving,
           BackOff, ReadConn, WriteReply, RelayReads, RelayAccepts, RelayRefuses, RelayRegisters,
           RelayReadsOther, Break, LoseInFlight, RelayGarbles, RelayForwards, RelayAsks, vars, netVars
    <3>2. conn \in Conns /\ conn \notin closed
      BY <3>1 DEF OpenInv
    <3>3. CASE conn \notin broken
      <4>1. ~Dead(conn) /\ Has(Uplink(conn), "AGENT_HELLO")
        BY <3>1, <3>2, <3>3 DEF RegisterInv, Dead
      <4> QED
        BY <1>h, <3>1, <3>2, <4>1 DEF Has
    <3> QED
      BY <3>1, <3>3
  <2> QED
    BY <2>1, <2>2
<1>2. ASSUME NEW k \in Conns, NEW i \in 1..Len(Uplink(k)'), Inline(Uplink(k)'[i])
      PROVE  \E j \in 1..(i - 1) : Uplink(k)'[j].type = "AGENT_HELLO"
  <2> DEFINE u == Uplink(k)
             v == Uplink(k)'
  <2>0. /\ Len(u) \in Nat /\ Len(v) \in Nat
        /\ \A j \in 1..Len(v) :
             \/ j \in 1..Len(u) /\ v[j] = u[j]
             \/ j = Len(u) + 1 /\ ~Dead(k) /\ Writes(k, v[j])
    BY UplinkIndex
  \* What the old uplink has before i, the new one has too.
  <2>1. PICK j \in 1..(i - 1) : j \in 1..Len(u) /\ u[j].type = "AGENT_HELLO"
    <3>1. CASE i \in 1..Len(u) /\ v[i] = u[i]
      <4>1. PICK j \in 1..(i - 1) : u[j].type = "AGENT_HELLO"
        BY <1>2, <3>1 DEF RegisterInv
      <4>2. j \in 1..Len(u)
        BY <2>0, <3>1, <4>1
      <4> QED
        BY <4>1, <4>2
    <3>2. CASE i = Len(u) + 1 /\ ~Dead(k) /\ Writes(k, v[i])
      <4>1. k = conn /\ at = "serve"
        BY <1>2, <3>2, WriterOf DEF ServeHeartbeat, ServeKeyExchange, Serving
      <4>2. Has(u, "AGENT_HELLO")
        BY <3>2, <4>1 DEF RegisterInv, Dead
      <4>3. PICK j \in 1..Len(u) : u[j].type = "AGENT_HELLO"
        BY <4>2 DEF Has
      <4>4. j \in 1..(i - 1)
        BY <2>0, <3>2, <4>3
      <4> QED
        BY <4>3, <4>4
    <3> QED
      BY <2>0, <3>1, <3>2
  <2> HIDE DEF u, v
  <2>2. v[j] = u[j]
    <3>1. i \in 1..Len(v)
      BY DEF v
    <3> QED
      BY <2>0, <2>1, <3>1
  <2> QED
    BY <2>1, <2>2 DEF v
<1> QED
  BY <1>1, <1>2 DEF RegisterInv

-----------------------------------------------------------------------------
(* Replies. *)

\* What a step does to a goroutine's place, number and connection.
LEMMA SenderStep ==
    ASSUME SessionTypeOK, [SessionNext]_vars, NEW c \in Commands
    PROVE  /\ conn' >= conn
           /\ next'[c] >= next[c]
           /\ snap'[c] \in {snap[c], 0} \/ (snap'[c] = conn /\ conn' = conn)
<1>0. conn \in Nat /\ opened \in Nat /\ conn <= opened /\ next[c] \in Nat
  BY DEF SessionTypeOK
<1>1. ASSUME NEW d \in Commands, ReadConn(d) \/ WriteReply(d)
      PROVE  conn' = conn /\ next'[c] >= next[c] /\ snap'[c] \in {snap[c], 0, conn}
  <2>1. next \in [Commands -> 1..(Replies + 1)] /\ snap \in [Commands -> Conns \cup {0}]
    BY DEF SessionTypeOK
  <2>2. CASE ReadConn(d)
    BY <1>0, <2>1, <2>2 DEF ReadConn
  <2>3. CASE WriteReply(d)
    BY <1>0, <2>1, <2>3 DEF WriteReply
  <2> QED
    BY <1>1, <2>2, <2>3
<1>2. CASE UNCHANGED <<next, snap>>
  <2>1. conn' = conn \/ conn' = opened + 1
    BY CountersEffect
  <2> QED
    BY <1>0, <1>2, <2>1
<1>3. HandlerActions \/ UNCHANGED <<next, snap>>
  BY DEF SessionNext, LoopActions, RelayReceives, Environment, CancelAgent,
         Connect, ConnectFails, SendAuth, ReadAuthResponse, ReadAuthFails, SendHello, ReadAck,
         ReadFailsWhileConnected, ServeHeartbeat, ServeKeyExchange, ServeCommand, ServeOther,
         BackOff, RelayReads, RelayAccepts, RelayRefuses, RelayRegisters, RelayReadsOther,
         Break, LoseInFlight, RelayGarbles, RelayForwards, RelayAsks, vars, handlerVars
<1>4. CASE HandlerActions
  <2>1. conn' = conn /\ next'[c] >= next[c] /\ snap'[c] \in {snap[c], 0, conn}
    BY <1>1, <1>4 DEF HandlerActions
  <2> QED
    BY <1>0, <2>1
<1> QED
  BY <1>2, <1>3, <1>4

\* f is the next reply of the goroutine of c, and goes to the connection it
\* holds.
NewReply(k, f, c) ==
    /\ c \in Commands /\ f.cmd = c /\ f.seq = next[c] /\ k = snap[c]
    /\ next'[c] = next[c] + 1 /\ snap'[c] = 0

LEMMA ReplyStep ==
    ASSUME SessionTypeOK, OpenInv, ReplyInv, [SessionNext]_vars
    PROVE  ReplyInv'
<1>0. /\ conn \in Nat
      /\ \A c \in Commands : next[c] \in Nat /\ snap[c] \in Nat /\ snap[c] <= conn
      /\ \A k \in Conns : k \in Nat /\ k # 0 /\ Len(Uplink(k)) \in Nat
  <2>1. conn \in Nat
    BY DEF SessionTypeOK
  <2>2. ASSUME NEW c \in Commands PROVE next[c] \in Nat /\ snap[c] \in Nat /\ snap[c] <= conn
    <3>1. next[c] \in 1..(Replies + 1) /\ snap[c] \in Conns \cup {0} /\ snap[c] <= conn
      BY DEF SessionTypeOK, ReplyInv
    <3> QED
      BY <3>1 DEF Conns
  <2>3. ASSUME NEW k \in Conns PROVE k \in Nat /\ k # 0 /\ Len(Uplink(k)) \in Nat
    BY UplinkIndex DEF Conns
  <2> QED
    BY <2>1, <2>2, <2>3
<1>1. \A c \in Commands : next'[c] \in Nat /\ snap'[c] \in Nat /\ conn' \in Nat
  BY SenderType, PlainTypes DEF Conns
<1>n. ASSUME NEW k \in Conns, NEW i \in 1..Len(Uplink(k)'), Uplink(k)'[i].type = "REPLY"
      PROVE  \/ i \in 1..Len(Uplink(k)) /\ Uplink(k)[i] = Uplink(k)'[i]
             \/ i = Len(Uplink(k)) + 1 /\ \E c : NewReply(k, Uplink(k)'[i], c)
  <2>1. CASE i \in 1..Len(Uplink(k)) /\ Uplink(k)[i] = Uplink(k)'[i]
    BY <2>1
  <2>2. CASE i = Len(Uplink(k)) + 1 /\ Writes(k, Uplink(k)'[i])
    <3>1. PICK c \in Commands : /\ WriteReply(c) /\ k = snap[c]
                                /\ Uplink(k)'[i] = ReplyFrame(c, next[c])
      BY <1>n, <2>2, WriterOf
    <3>2. NewReply(k, Uplink(k)'[i], c)
      BY <3>1 DEF NewReply, WriteReply, ReplyFrame, SessionTypeOK
    <3> QED
      BY <2>2, <3>2
  <2> QED
    BY <2>1, <2>2, UplinkIndex
<1>o. ASSUME NEW k \in Conns, NEW i \in 1..Len(Uplink(k)), Uplink(k)[i].type = "REPLY"
      PROVE  /\ Uplink(k)[i].cmd \in Commands /\ Uplink(k)[i].seq < next[Uplink(k)[i].cmd]
             /\ Uplink(k)[i].seq \in Nat
             /\ k <= conn
             /\ snap[Uplink(k)[i].cmd] # 0 => k <= snap[Uplink(k)[i].cmd]
  <2>1. Uplink(k)[i] \in Frames
    BY UplinkType, SeqOps
  <2> QED
    BY <1>o, <2>1 DEF ReplyInv, Frames
<1>2. \A c \in Commands : snap'[c] <= conn'
  BY <1>0, <1>1, SenderStep
<1>3. ASSUME NEW k \in Conns, NEW i \in 1..Len(Uplink(k)'), Uplink(k)'[i].type = "REPLY"
      PROVE  /\ Uplink(k)'[i].cmd \in Commands
             /\ Uplink(k)'[i].seq < next'[Uplink(k)'[i].cmd]
             /\ k <= conn'
             /\ snap'[Uplink(k)'[i].cmd] # 0 => k <= snap'[Uplink(k)'[i].cmd]
  <2>1. CASE i \in 1..Len(Uplink(k)) /\ Uplink(k)[i] = Uplink(k)'[i]
    <3> DEFINE f == Uplink(k)[i]
    <3>1. /\ f.cmd \in Commands /\ f.seq < next[f.cmd] /\ f.seq \in Nat /\ k <= conn
          /\ snap[f.cmd] # 0 => k <= snap[f.cmd]
      BY <1>o, <1>3, <2>1
    <3> HIDE DEF f
    <3>2. /\ f.seq < next'[f.cmd] /\ k <= conn'
          /\ snap'[f.cmd] # 0 => k <= snap'[f.cmd]
      <4>1. /\ conn' >= conn /\ next'[f.cmd] >= next[f.cmd] /\ next[f.cmd] \in Nat
            /\ snap'[f.cmd] \in {snap[f.cmd], 0} \/ (snap'[f.cmd] = conn /\ conn' = conn)
        BY <1>0, <3>1, SenderStep
      <4>2. next'[f.cmd] \in Nat /\ conn' \in Nat /\ k \in Nat
        BY <1>0, <1>1, <3>1
      <4> QED
        BY <1>0, <3>1, <4>1, <4>2
    <3> QED
      BY <2>1, <3>1, <3>2, Zenon DEF f
  <2>2. ASSUME NEW c, NewReply(k, Uplink(k)'[i], c)
        PROVE  /\ Uplink(k)'[i].cmd \in Commands
               /\ Uplink(k)'[i].seq < next'[Uplink(k)'[i].cmd]
               /\ k <= conn'
               /\ snap'[Uplink(k)'[i].cmd] = 0
    BY <1>0, <1>1, <2>2, SenderStep DEF NewReply
  <2> QED
    BY <1>n, <1>3, <2>1, <2>2
<1>4. ASSUME NEW k \in Conns, NEW l \in Conns,
             NEW i \in 1..Len(Uplink(k)'), NEW j \in 1..Len(Uplink(l)'),
             Uplink(k)'[i].type = "REPLY", Uplink(l)'[j].type = "REPLY",
             Uplink(k)'[i].cmd = Uplink(l)'[j].cmd, k < l \/ (k = l /\ i < j)
      PROVE  Uplink(k)'[i].seq < Uplink(l)'[j].seq
  <2>1. CASE /\ i \in 1..Len(Uplink(k)) /\ Uplink(k)[i] = Uplink(k)'[i]
             /\ j \in 1..Len(Uplink(l)) /\ Uplink(l)[j] = Uplink(l)'[j]
    BY <1>4, <2>1 DEF ReplyInv, RepliesInOrder
  <2>2. ASSUME i \in 1..Len(Uplink(k)) /\ Uplink(k)[i] = Uplink(k)'[i],
               NEW c, NewReply(l, Uplink(l)'[j], c)
        PROVE  Uplink(k)'[i].seq < Uplink(l)'[j].seq
    BY <1>o, <1>4, <2>2 DEF NewReply
  <2>3. ASSUME i = Len(Uplink(k)) + 1, NEW c, NewReply(k, Uplink(k)'[i], c),
               j \in 1..Len(Uplink(l)) /\ Uplink(l)[j] = Uplink(l)'[j]
        PROVE  FALSE
    <3>1. l <= k
      BY <1>0, <1>o, <1>4, <2>3 DEF NewReply
    <3> QED
      BY <1>0, <1>4, <2>3, <3>1
  <2>4. ASSUME i = Len(Uplink(k)) + 1, NEW c, NewReply(k, Uplink(k)'[i], c),
               j = Len(Uplink(l)) + 1, NEW d, NewReply(l, Uplink(l)'[j], d)
        PROVE  FALSE
    <3>1. k = l
      BY <1>4, <2>4 DEF NewReply
    <3>2. i = j
      BY <2>4, <3>1
    <3> QED
      BY <1>0, <1>4, <3>1, <3>2
  <2>5. /\ \/ i \in 1..Len(Uplink(k)) /\ Uplink(k)[i] = Uplink(k)'[i]
           \/ i = Len(Uplink(k)) + 1 /\ \E c : NewReply(k, Uplink(k)'[i], c)
        /\ \/ j \in 1..Len(Uplink(l)) /\ Uplink(l)[j] = Uplink(l)'[j]
           \/ j = Len(Uplink(l)) + 1 /\ \E c : NewReply(l, Uplink(l)'[j], c)
    BY <1>n, <1>4
  <2> QED
    BY <2>1, <2>2, <2>3, <2>4, <2>5, Zenon
<1>5. RepliesInOrder'
  BY <1>4 DEF RepliesInOrder
<1> QED
  BY <1>2, <1>3, <1>5 DEF ReplyInv

-----------------------------------------------------------------------------
(* Heartbeats and key exchanges. *)

SameInline(k) ==
    \A j \in 1..Len(Uplink(k)') : Inline(Uplink(k)'[j]) =>
        j \in 1..Len(Uplink(k)) /\ Uplink(k)[j] = Uplink(k)'[j]

Shifts(k) == in[k] # <<>> /\ in'[k] = Tail(in[k])

\* What a step does to the questions of a connection: nothing, ask one more,
\* answer the first one, read it in place of RELAY_ACK, or take a frame that
\* is no question unless the connection is dead by then.
Quiet(k) ==
    /\ in'[k] = in[k] \/ \E f \in Frames : ~Question(f) /\ in'[k] = Append(in[k], f)
    /\ asked'[k] = asked[k] /\ SameInline(k)
Asks(k) ==
    \E t \in Questions : /\ in'[k] = Append(in[k], Numbered(t, Len(asked[k]) + 1))
                         /\ asked'[k] = Append(asked[k], t)
                         /\ SameInline(k)
Serves(k) ==
    /\ Shifts(k) /\ Question(Head(in[k])) /\ asked'[k] = asked[k]
    /\ \E a \in Frames : /\ Inline(a) /\ a.seq = Head(in[k]).seq /\ a.type = AnswerTo(Head(in[k]).type)
                         /\ Uplink(k)' = Append(Uplink(k), a)
Misses(k) ==
    /\ Shifts(k) /\ Question(Head(in[k])) /\ SameInline(k)
    /\ asked'[k] = [asked[k] EXCEPT ![Head(in[k]).seq] = "MISSED"]
Drops(k) ==
    /\ Shifts(k) /\ asked'[k] = asked[k] /\ SameInline(k)
    /\ Question(Head(in[k])) => Dead(k)'

LEMMA AskShape ==
    ASSUME SessionTypeOK, OpenInv, [SessionNext]_vars, NEW k \in Conns
    PROVE  Quiet(k) \/ Asks(k) \/ Serves(k) \/ Misses(k) \/ Drops(k)
<1>t. in[k] \in Seq(Frames) /\ in \in [Conns -> Seq(Frames)] /\ asked \in [Conns -> Seq(Questions \cup {"MISSED"})]
  BY DEF SessionTypeOK
<1>s. ASSUME ~(ServeHeartbeat \/ ServeKeyExchange) \/ k # conn
      PROVE  SameInline(k)
  BY <1>s, UplinkIndex, WriterOf DEF SameInline
<1>u. ASSUME out'[k] = out[k], got'[k] = got[k]
      PROVE  SameInline(k)
  BY <1>u DEF SameInline, Uplink
<1>r. ASSUME NEW l \in Conns, RelayReads(l)
      PROVE  SameInline(k)
  <2>1. CASE l # k
    BY <1>r, <1>u, <2>1, RelayReadsEffect
  <2>2. CASE l = k
    <3>1. /\ out[k] \in Seq(Frames) /\ got[k] \in Seq(Frames) /\ out[k] # <<>>
          /\ out'[k] = Tail(out[k]) /\ got'[k] = Append(got[k], Head(out[k]))
      BY <1>r, <2>2, RelayReadsEffect DEF SessionTypeOK
    <3>2. Append(got[k], Head(out[k])) \o Tail(out[k]) = got[k] \o out[k]
      BY <3>1, ConcatHeadTail, Zenon
    <3>3. Uplink(k)' = Uplink(k)
      BY <3>1, <3>2, Zenon DEF Uplink
    <3> QED
      BY <3>3 DEF SameInline
  <2> QED
    BY <2>1, <2>2
<1>1. ASSUME in'[k] = in[k], asked'[k] = asked[k], SameInline(k)
      PROVE  Quiet(k)
  BY <1>1 DEF Quiet
<1>2. ASSUME TakeFrame(conn), k = conn, in[conn] # <<>>
      PROVE  Shifts(k)
  BY <1>2, TakeEffect DEF Shifts
<1>3. ASSUME TakeFrame(conn), k # conn
      PROVE  in'[k] = in[k]
  BY <1>t, <1>3 DEF TakeFrame
<1>4. CASE ServeHeartbeat \/ ServeKeyExchange
  <2>1. CASE k # conn
    BY <1>1, <1>3, <1>4, <1>s, <2>1 DEF ServeHeartbeat, ServeKeyExchange
  <2>2. CASE k = conn
    <3>1. /\ Shifts(k) /\ asked' = asked /\ Question(Head(in[k]))
          /\ WriteFails(conn) \/ \E f : WriteSucceeds(conn, f)
      BY <1>2, <1>4, <2>2
         DEF ServeHeartbeat, ServeKeyExchange, Serving, Readable, Waiting, Question, Questions
    <3>2. CASE Dead(k)
      <4>1. Dead(k)'
        BY <1>4, <3>2 DEF ServeHeartbeat, ServeKeyExchange, Dead
      <4>2. SameInline(k)
        BY <3>2, UplinkIndex DEF SameInline
      <4> QED
        BY <3>1, <4>1, <4>2 DEF Drops
    <3>3. CASE ~Dead(k)
      <4>1. \E a \in Frames : /\ Inline(a) /\ a.seq = Head(in[k]).seq /\ a.type = AnswerTo(Head(in[k]).type)
                              /\ Uplink(k)' = Append(Uplink(k), a)
        <5>1. \E a : /\ \/ a = Numbered("HEARTBEAT_ACK", Head(in[k]).seq)
                        \/ a = Numbered("KEY_EXCHANGE_ACK", Head(in[k]).seq)
                     /\ Inline(a) /\ a.seq = Head(in[k]).seq /\ a.type = AnswerTo(Head(in[k]).type)
                     /\ out'[k] = Append(out[k], a)
          <6> DEFINE h == Numbered("HEARTBEAT_ACK", Head(in[k]).seq)
                     x == Numbered("KEY_EXCHANGE_ACK", Head(in[k]).seq)
          <6>1. /\ h.type = "HEARTBEAT_ACK" /\ h.seq = Head(in[k]).seq
                /\ x.type = "KEY_EXCHANGE_ACK" /\ x.seq = Head(in[k]).seq
            BY DEF Numbered
          <6>2. out \in [Conns -> Seq(Frames)]
            BY DEF SessionTypeOK
          <6>3. ASSUME NEW a, WriteSucceeds(conn, a) \/ WriteFails(conn)
                PROVE  out'[k] = Append(out[k], a)
            BY <2>2, <3>3, <6>2, <6>3 DEF WriteSucceeds, WriteFails, Dead
          <6>4. CASE ServeHeartbeat
            <7>1. Head(in[k]).type = "HEARTBEAT" /\ (WriteSucceeds(conn, h) \/ WriteFails(conn))
              BY <2>2, <6>4 DEF ServeHeartbeat, Serving
            <7>2. out'[k] = Append(out[k], h)
              BY <6>3, <7>1
            <7> QED
              BY <6>1, <7>1, <7>2 DEF Inline, AnswerTo
          <6>5. CASE ServeKeyExchange
            <7>1. Head(in[k]).type = "KEY_EXCHANGE" /\ (WriteSucceeds(conn, x) \/ WriteFails(conn))
              BY <2>2, <6>5 DEF ServeKeyExchange, Serving
            <7>2. out'[k] = Append(out[k], x)
              BY <6>3, <7>1
            <7> QED
              BY <6>1, <7>1, <7>2 DEF Inline, AnswerTo
          <6> QED
            BY <1>4, <6>4, <6>5
        <5>2. PICK a : /\ \/ a = Numbered("HEARTBEAT_ACK", Head(in[k]).seq)
                          \/ a = Numbered("KEY_EXCHANGE_ACK", Head(in[k]).seq)
                       /\ Inline(a) /\ a.seq = Head(in[k]).seq /\ a.type = AnswerTo(Head(in[k]).type)
                       /\ out'[k] = Append(out[k], a)
          BY <5>1
        <5>3. Head(in[k]) \in Frames
          BY <1>t, <3>1, SeqOps DEF Shifts
        <5>4. a \in Frames
          <6>1. \/ a = Numbered("HEARTBEAT_ACK", Head(in[k]).seq)
                \/ a = Numbered("KEY_EXCHANGE_ACK", Head(in[k]).seq)
            BY <5>2
          <6>2. /\ Numbered("HEARTBEAT_ACK", Head(in[k]).seq) \in Frames
                /\ Numbered("KEY_EXCHANGE_ACK", Head(in[k]).seq) \in Frames
            BY <5>3, FrameOK DEF FrameTypes, Frames
          <6> QED
            BY <6>1, <6>2
        <5>5. \A p \in Seq(Frames), q \in Seq(Frames), e \in Frames :
                p \o Append(q, e) = Append(p \o q, e)
          OBVIOUS
        <5>6. out[k] \in Seq(Frames) /\ got[k] \in Seq(Frames) /\ got'[k] = got[k]
          BY <1>4 DEF ServeHeartbeat, ServeKeyExchange, SessionTypeOK
        <5>7. Uplink(k)' = Append(Uplink(k), a)
          <6>1. Uplink(k)' = got[k] \o Append(out[k], a)
            BY <5>2, <5>6, Zenon DEF Uplink
          <6>2. got[k] \o Append(out[k], a) = Append(got[k] \o out[k], a)
            BY <5>4, <5>5, <5>6, Zenon
          <6> QED
            BY <6>1, <6>2, Zenon DEF Uplink
        <5> QED
          BY <5>2, <5>4, <5>7
      <4> QED
        BY <3>1, <4>1 DEF Serves
    <3> QED
      BY <3>2, <3>3
  <2> QED
    BY <2>1, <2>2
<1>5. CASE ReadAck
  <2>1. CASE k # conn
    <3>1. asked'[k] = asked[k]
      BY <1>t, <1>5, <2>1 DEF ReadAck
    <3> QED
      BY <1>1, <1>3, <1>5, <1>s, <2>1, <3>1 DEF ReadAck
  <2>2. CASE k = conn
    <3>1. Shifts(k) /\ SameInline(k)
      BY <1>2, <1>5, <1>s, <2>2 DEF ReadAck, Readable, Waiting, ServeHeartbeat, ServeKeyExchange, Serving
    <3>2. CASE Question(Head(in[k]))
      BY <1>t, <1>5, <2>2, <3>1, <3>2 DEF ReadAck, Misses, Question
    <3>3. CASE ~Question(Head(in[k]))
      BY <1>5, <2>2, <3>1, <3>3 DEF ReadAck, Drops, Question
    <3> QED
      BY <3>2, <3>3
  <2> QED
    BY <2>1, <2>2
<1>6. CASE ReadAuthResponse \/ ServeCommand \/ ServeOther \/ ReadAuthFails \/ ReadFailsWhileConnected
  <2>0. asked' = asked /\ SameInline(k)
    BY <1>6, <1>u
       DEF ReadAuthResponse, ServeCommand, ServeOther, ReadAuthFails, ReadFailsWhileConnected
  <2>1. CASE in' = in
    BY <1>1, <2>0, <2>1
  <2>2. CASE k # conn /\ TakeFrame(conn)
    BY <1>1, <1>3, <2>0, <2>2
  <2>3. CASE k = conn /\ TakeFrame(conn) /\ in' # in
    <3>1. in[conn] # <<>>
      BY <1>6, <2>3
         DEF ReadAuthResponse, ServeCommand, ServeOther, ReadAuthFails, ReadFailsWhileConnected,
             ReadFails, Serving, Readable, Waiting
    <3>2. Question(Head(in[k])) => Dead(k)'
      BY <1>6, <2>3
         DEF ReadAuthResponse, ServeCommand, ServeOther, ReadAuthFails, ReadFailsWhileConnected,
             ReadFails, Serving, Readable, Waiting, Question, Questions, CloseAndRetry, Dead
    <3> QED
      BY <1>2, <2>0, <2>3, <3>1, <3>2 DEF Drops
  <2> QED
    BY <1>6, <2>1, <2>2, <2>3
       DEF ReadAuthResponse, ServeCommand, ServeOther, ReadAuthFails, ReadFailsWhileConnected, ReadFails
<1>7. ASSUME NEW l \in Conns, NEW t \in Questions, RelayAsks(l, t)
      PROVE  Quiet(k) \/ Asks(k)
  <2>1. SameInline(k)
    BY <1>7 DEF RelayAsks, SameInline, Uplink
  <2>2. CASE k = l
    BY <1>t, <1>7, <2>1, <2>2 DEF RelayAsks, Routed, RelaySends, Asks
  <2>3. CASE k # l
    BY <1>t, <1>7, <2>1, <2>3 DEF RelayAsks, RelaySends, Quiet
  <2> QED
    BY <2>2, <2>3
<1>8. ASSUME NEW l \in Conns,
             \/ RelayGarbles(l) \/ RelayAccepts(l) \/ RelayRefuses(l) \/ RelayRegisters(l)
             \/ \E c \in Commands : RelayForwards(l, c)
      PROVE  Quiet(k)
  <2>1. PICK f \in Frames : RelaySends(l, f) /\ ~Question(f)
    BY <1>8, FrameOK
       DEF RelayGarbles, RelayAccepts, RelayRefuses, RelayRegisters, RelayForwards,
           Frame, Numbered, CommandFrame, FrameTypes, Question, Questions
  <2>2. asked' = asked
    BY <1>8 DEF RelayGarbles, RelayAccepts, RelayRefuses, RelayRegisters, RelayForwards, RelayReads
  <2>3. SameInline(k)
    BY <1>8, <1>u, <1>r
       DEF RelayGarbles, RelayAccepts, RelayRefuses, RelayRegisters, RelayForwards
  <2> QED
    BY <2>1, <2>2, <2>3, RelaySendsEffect DEF Quiet
<1>9. CASE UNCHANGED <<in, asked>> /\ ~(ServeHeartbeat \/ ServeKeyExchange)
  BY <1>1, <1>9, <1>s
<1> QED
  BY <1>4, <1>5, <1>6, <1>7, <1>8, <1>9
     DEF SessionNext, LoopActions, HandlerActions, RelayReceives, Environment, CancelAgent,
         Connect, ConnectFails, SendAuth, SendHello, RelayReadsOther, RelayReads,
         BackOff, ReadConn, WriteReply, Break, LoseInFlight, vars, netVars

-----------------------------------------------------------------------------
(* The parts of AskInv for one connection, over its queue q to the agent,  *)
(* the questions a and the uplink u.                                       *)

Marks == Questions \cup {"MISSED"}

QuestionsOK(q, a, u) ==
    \A i \in 1..Len(q) : Question(q[i]) =>
        /\ q[i].seq \in 1..Len(a) /\ a[q[i].seq] = q[i].type
        /\ \A j \in 1..(i - 1) : Question(q[j]) => q[j].seq < q[i].seq
        /\ \A j \in 1..Len(u) : Inline(u[j]) => u[j].seq < q[i].seq

AnswersOK(a, u) ==
    \A i \in 1..Len(u) : Inline(u[i]) =>
        /\ u[i].seq \in 1..Len(a)
        /\ a[u[i].seq] \in Questions /\ u[i].type = AnswerTo(a[u[i].seq])
        /\ \A j \in 1..(i - 1) : Inline(u[j]) => u[j].seq < u[i].seq
        /\ \/ u[i].seq = 1 \/ a[u[i].seq - 1] = "MISSED"
           \/ \E j \in 1..(i - 1) : Inline(u[j]) /\ u[j].seq = u[i].seq - 1

Covers(q, a, u) ==
    \A n \in 1..Len(a) :
        \/ a[n] = "MISSED"
        \/ \E i \in 1..Len(q) : Question(q[i]) /\ q[i].seq = n
        \/ \E j \in 1..Len(u) : Inline(u[j]) /\ u[j].seq = n

AskOK(k) ==
    /\ QuestionsOK(in[k], asked[k], Uplink(k))
    /\ Dead(k) \/ Covers(in[k], asked[k], Uplink(k))
    /\ AnswersOK(asked[k], Uplink(k))

LEMMA AskParts == AskInv <=> \A k \in Conns : AskOK(k)
<1>1. InlineAnswersMatch <=> \A k \in Conns : AnswersOK(asked[k], Uplink(k))
  BY DEF InlineAnswersMatch, AnswersOK
<1> QED
  BY <1>1 DEF AskInv, AskOK, QuestionsOK, Covers, Pending, Answered

\* v is u, cut or with one frame more that is no answer.
Stays(u, v) ==
    \A i \in 1..Len(v) : \/ i \in 1..Len(u) /\ v[i] = u[i]
                         \/ i = Len(u) + 1 /\ i = Len(v) /\ ~Inline(v[i])

\* v has all of u.
Extends(u, v) == \A i \in 1..Len(u) : i \in 1..Len(v) /\ v[i] = u[i]

LEMMA FrameAt ==
    ASSUME NEW q \in Seq(Frames)
    PROVE  Len(q) \in Nat /\ \A i \in 1..Len(q) : q[i] \in Frames /\ q[i].seq \in Nat
<1>1. Len(q) \in Nat /\ \A i \in 1..Len(q) : q[i] \in Frames
  BY SeqOps
<1> QED
  BY <1>1 DEF Frames

LEMMA AnswersStep ==
    ASSUME NEW a \in Seq(Marks), NEW u \in Seq(Frames), AnswersOK(a, u)
    PROVE  /\ \A v \in Seq(Frames) : Stays(u, v) => AnswersOK(a, v)
           /\ \A t \in Questions : AnswersOK(Append(a, t), u)
           /\ \A n \in 1..Len(a) :
                (\A j \in 1..Len(u) : Inline(u[j]) => u[j].seq < n)
                => AnswersOK([a EXCEPT ![n] = "MISSED"], u)
           /\ \A f \in Frames :
                /\ f.seq \in 1..Len(a) /\ a[f.seq] \in Questions /\ f.type = AnswerTo(a[f.seq])
                /\ \A j \in 1..Len(u) : Inline(u[j]) => u[j].seq < f.seq
                /\ \/ f.seq = 1 \/ a[f.seq - 1] = "MISSED"
                   \/ \E j \in 1..Len(u) : Inline(u[j]) /\ u[j].seq = f.seq - 1
                => AnswersOK(a, Append(u, f))
<1>0. Len(a) \in Nat /\ Len(u) \in Nat /\ \A i \in 1..Len(u) : u[i] \in Frames /\ u[i].seq \in Nat
  BY SeqOps, FrameAt
<1>1. ASSUME NEW v \in Seq(Frames), Stays(u, v)
      PROVE  AnswersOK(a, v)
  <2>0. Len(v) \in Nat
    BY SeqOps
  <2>1. SUFFICES ASSUME NEW i \in 1..Len(v), Inline(v[i])
                 PROVE  /\ v[i].seq \in 1..Len(a)
                        /\ a[v[i].seq] \in Questions /\ v[i].type = AnswerTo(a[v[i].seq])
                        /\ \A j \in 1..(i - 1) : Inline(v[j]) => v[j].seq < v[i].seq
                        /\ \/ v[i].seq = 1 \/ a[v[i].seq - 1] = "MISSED"
                           \/ \E j \in 1..(i - 1) : Inline(v[j]) /\ v[j].seq = v[i].seq - 1
    BY DEF AnswersOK
  <2>2. i \in 1..Len(u) /\ v[i] = u[i]
    BY <1>1, <2>1 DEF Stays
  <2>3. \A j \in 1..(i - 1) : j \in 1..Len(u) /\ v[j] = u[j]
    BY <1>0, <1>1, <2>0, <2>1, <2>2 DEF Stays
  <2> QED
    BY <2>1, <2>2, <2>3 DEF AnswersOK
<1>2. ASSUME NEW t \in Questions
      PROVE  AnswersOK(Append(a, t), u)
  <2>1. Len(Append(a, t)) = Len(a) + 1 /\ \A n \in 1..Len(a) : Append(a, t)[n] = a[n]
    BY SeqOps DEF Marks
  <2>2. \A n \in 1..Len(a) : n \in 1..Len(Append(a, t)) /\ (n = 1 \/ n - 1 \in 1..Len(a))
    BY <1>0, <2>1
  <2> QED
    BY <2>1, <2>2 DEF AnswersOK
<1>3. ASSUME NEW n \in 1..Len(a), \A j \in 1..Len(u) : Inline(u[j]) => u[j].seq < n
      PROVE  AnswersOK([a EXCEPT ![n] = "MISSED"], u)
  <2> DEFINE b == [a EXCEPT ![n] = "MISSED"]
  <2>1. Len(b) = Len(a) /\ \A m \in 1..Len(a) : m # n => b[m] = a[m]
    OBVIOUS
  <2> HIDE DEF b
  <2>2. \A i \in 1..Len(u) : Inline(u[i]) =>
            /\ u[i].seq # n /\ u[i].seq - 1 # n
            /\ u[i].seq = 1 \/ u[i].seq - 1 \in 1..Len(a)
    BY <1>0, <1>3 DEF AnswersOK
  <2>3. AnswersOK(b, u)
    BY <2>1, <2>2 DEF AnswersOK
  <2> QED
    BY <2>3 DEF b
<1>4. ASSUME NEW f \in Frames,
             f.seq \in 1..Len(a) /\ a[f.seq] \in Questions /\ f.type = AnswerTo(a[f.seq]),
             \A j \in 1..Len(u) : Inline(u[j]) => u[j].seq < f.seq,
             \/ f.seq = 1 \/ a[f.seq - 1] = "MISSED"
             \/ \E j \in 1..Len(u) : Inline(u[j]) /\ u[j].seq = f.seq - 1
      PROVE  AnswersOK(a, Append(u, f))
  <2> DEFINE v == Append(u, f)
  <2>1. Len(v) = Len(u) + 1 /\ v[Len(u) + 1] = f /\ \A i \in 1..Len(u) : v[i] = u[i]
    BY SeqOps
  <2> HIDE DEF v
  <2>2. ASSUME NEW i \in 1..Len(v), Inline(v[i])
        PROVE  /\ v[i].seq \in 1..Len(a)
               /\ a[v[i].seq] \in Questions /\ v[i].type = AnswerTo(a[v[i].seq])
               /\ \A j \in 1..(i - 1) : Inline(v[j]) => v[j].seq < v[i].seq
               /\ \/ v[i].seq = 1 \/ a[v[i].seq - 1] = "MISSED"
                  \/ \E j \in 1..(i - 1) : Inline(v[j]) /\ v[j].seq = v[i].seq - 1
    <3>1. CASE i \in 1..Len(u)
      <4>1. v[i] = u[i] /\ \A j \in 1..(i - 1) : v[j] = u[j]
        BY <1>0, <2>1, <3>1
      <4> QED
        BY <2>2, <3>1, <4>1 DEF AnswersOK
    <3>2. CASE i = Len(u) + 1
      <4>1. v[i] = f /\ \A j \in 1..(i - 1) : j \in 1..Len(u) /\ v[j] = u[j]
        BY <1>0, <2>1, <3>2
      <4>2. \A j \in 1..Len(u) : j \in 1..(i - 1)
        BY <1>0, <3>2
      <4> QED
        BY <1>4, <4>1, <4>2
    <3> QED
      BY <1>0, <2>1, <2>2, <3>1, <3>2
  <2>3. AnswersOK(a, v)
    BY <2>2 DEF AnswersOK
  <2> QED
    BY <2>3 DEF v
<1> QED
  BY <1>1, <1>2, <1>3, <1>4

LEMMA QuestionsStep ==
    ASSUME NEW q \in Seq(Frames), NEW a \in Seq(Marks), NEW u \in Seq(Frames), QuestionsOK(q, a, u)
    PROVE  /\ \A v \in Seq(Frames) : Stays(u, v) => QuestionsOK(q, a, v)
           /\ \A f \in Frames : ~Question(f) => QuestionsOK(Append(q, f), a, u)
           /\ AnswersOK(a, u) =>
                \A t \in Questions : QuestionsOK(Append(q, Numbered(t, Len(a) + 1)), Append(a, t), u)
           /\ q # <<>> => QuestionsOK(Tail(q), a, u)
           /\ q # <<>> /\ Question(Head(q)) =>
                /\ Head(q).seq \in 1..Len(a) /\ a[Head(q).seq] = Head(q).type
                /\ \A j \in 1..Len(u) : Inline(u[j]) => u[j].seq < Head(q).seq
                /\ \A i \in 2..Len(q) : Question(q[i]) => Head(q).seq < q[i].seq
                /\ QuestionsOK(Tail(q), [a EXCEPT ![Head(q).seq] = "MISSED"], u)
                /\ \A f \in Frames : f.seq = Head(q).seq => QuestionsOK(Tail(q), a, Append(u, f))
<1>0. /\ Len(q) \in Nat /\ Len(a) \in Nat /\ Len(u) \in Nat
      /\ \A i \in 1..Len(q) : q[i] \in Frames /\ q[i].seq \in Nat
      /\ \A i \in 1..Len(u) : u[i] \in Frames /\ u[i].seq \in Nat
  BY SeqOps, FrameAt
<1>1. ASSUME NEW v \in Seq(Frames), Stays(u, v)
      PROVE  QuestionsOK(q, a, v)
  <2>1. \A j \in 1..Len(v) : Inline(v[j]) => j \in 1..Len(u) /\ v[j] = u[j]
    BY <1>1 DEF Stays
  <2> QED
    BY <2>1 DEF QuestionsOK
<1>2. ASSUME NEW f \in Frames, ~Question(f)
      PROVE  QuestionsOK(Append(q, f), a, u)
  <2> DEFINE r == Append(q, f)
  <2>1. Len(r) = Len(q) + 1 /\ r[Len(q) + 1] = f /\ \A i \in 1..Len(q) : r[i] = q[i]
    BY SeqOps
  <2> HIDE DEF r
  <2>2. \A i \in 1..Len(r) : Question(r[i]) =>
            i \in 1..Len(q) /\ r[i] = q[i] /\ \A j \in 1..(i - 1) : r[j] = q[j]
    BY <1>0, <1>2, <2>1
  <2>3. QuestionsOK(r, a, u)
    BY <2>2 DEF QuestionsOK
  <2> QED
    BY <2>3 DEF r
<1>3. ASSUME AnswersOK(a, u), NEW t \in Questions
      PROVE  QuestionsOK(Append(q, Numbered(t, Len(a) + 1)), Append(a, t), u)
  <2> DEFINE f == Numbered(t, Len(a) + 1)
             r == Append(q, f)
             b == Append(a, t)
  <2>0. f \in Frames /\ f.seq = Len(a) + 1 /\ f.type = t
    BY <1>0 DEF Numbered, Questions, Frames, FrameTypes
  <2> HIDE DEF f
  <2>1. /\ Len(r) = Len(q) + 1 /\ r[Len(q) + 1] = f /\ \A i \in 1..Len(q) : r[i] = q[i]
        /\ Len(b) = Len(a) + 1 /\ b[Len(a) + 1] = t /\ \A n \in 1..Len(a) : b[n] = a[n]
    BY <2>0, SeqOps DEF Marks
  <2> HIDE DEF r, b
  <2>2. ASSUME NEW i \in 1..Len(r), Question(r[i])
        PROVE  /\ r[i].seq \in 1..Len(b) /\ b[r[i].seq] = r[i].type
               /\ \A j \in 1..(i - 1) : Question(r[j]) => r[j].seq < r[i].seq
               /\ \A j \in 1..Len(u) : Inline(u[j]) => u[j].seq < r[i].seq
    <3>1. CASE i \in 1..Len(q)
      <4>1. /\ r[i] = q[i] /\ \A j \in 1..(i - 1) : j \in 1..Len(q)
            /\ \A n \in 1..Len(a) : n \in 1..Len(b)
        BY <1>0, <2>1, <3>1
      <4> QED
        BY <2>1, <2>2, <3>1, <4>1 DEF QuestionsOK
    <3>2. CASE i = Len(q) + 1
      <4>1. r[i] = f /\ \A j \in 1..(i - 1) : j \in 1..Len(q) /\ r[j] = q[j]
        BY <1>0, <2>1, <3>2
      <4>2. f.seq \in 1..Len(b) /\ b[f.seq] = f.type
        BY <1>0, <2>0, <2>1
      <4>3. \A j \in 1..Len(q) : Question(q[j]) => q[j].seq < f.seq
        BY <1>0, <2>0 DEF QuestionsOK
      <4>4. \A j \in 1..Len(u) : Inline(u[j]) => u[j].seq < f.seq
        <5>1. \A j \in 1..Len(u) : Inline(u[j]) => u[j].seq \in 1..Len(a)
          BY <1>3 DEF AnswersOK
        <5> QED
          BY <1>0, <2>0, <5>1
      <4> QED
        BY <4>1, <4>2, <4>3, <4>4
    <3> QED
      BY <1>0, <2>1, <2>2, <3>1, <3>2
  <2>3. QuestionsOK(r, b, u)
    BY <2>2 DEF QuestionsOK
  <2> QED
    BY <2>3 DEF r, b, f
<1>4. ASSUME q # <<>>
      PROVE  /\ Len(Tail(q)) = Len(q) - 1 /\ Head(q) = q[1] /\ Len(q) >= 1
             /\ \A i \in 1..Len(Tail(q)) : i + 1 \in 2..Len(q) /\ Tail(q)[i] = q[i + 1]
  BY <1>0, <1>4, SeqOps
<1>5. ASSUME q # <<>>
      PROVE  QuestionsOK(Tail(q), a, u)
  <2>1. \A i \in 1..Len(Tail(q)) :
          i + 1 \in 1..Len(q) /\ \A j \in 1..(i - 1) : j \in 1..Len(Tail(q)) /\ j + 1 \in 1..((i + 1) - 1)
    BY <1>0, <1>4, <1>5
  <2> QED
    BY <1>4, <1>5, <2>1 DEF QuestionsOK
<1>6. ASSUME q # <<>>, Question(Head(q))
      PROVE  /\ Head(q).seq \in 1..Len(a) /\ a[Head(q).seq] = Head(q).type
             /\ \A j \in 1..Len(u) : Inline(u[j]) => u[j].seq < Head(q).seq
             /\ \A i \in 2..Len(q) : Question(q[i]) => Head(q).seq < q[i].seq
  <2>1. 1 \in 1..Len(q) /\ Head(q) = q[1] /\ \A i \in 2..Len(q) : i \in 1..Len(q) /\ 1 \in 1..(i - 1)
    BY <1>0, <1>4, <1>6
  <2> QED
    BY <1>6, <2>1 DEF QuestionsOK
<1>7. ASSUME q # <<>>, Question(Head(q))
      PROVE  QuestionsOK(Tail(q), [a EXCEPT ![Head(q).seq] = "MISSED"], u)
  <2> DEFINE b == [a EXCEPT ![Head(q).seq] = "MISSED"]
  <2>1. Len(b) = Len(a) /\ \A m \in 1..Len(a) : m # Head(q).seq => b[m] = a[m]
    OBVIOUS
  <2> HIDE DEF b
  <2>2. \A i \in 1..Len(Tail(q)) : Question(Tail(q)[i]) => Tail(q)[i].seq # Head(q).seq
    BY <1>0, <1>4, <1>6, <1>7
  <2>3. QuestionsOK(Tail(q), b, u)
    BY <1>5, <1>7, <2>1, <2>2 DEF QuestionsOK
  <2> QED
    BY <2>3 DEF b
<1>8. ASSUME q # <<>>, Question(Head(q)), NEW f \in Frames, f.seq = Head(q).seq
      PROVE  QuestionsOK(Tail(q), a, Append(u, f))
  <2> DEFINE v == Append(u, f)
  <2>1. Len(v) = Len(u) + 1 /\ v[Len(u) + 1] = f /\ \A i \in 1..Len(u) : v[i] = u[i]
    BY SeqOps
  <2> HIDE DEF v
  <2>2. \A i \in 1..Len(Tail(q)) : Question(Tail(q)[i]) => f.seq < Tail(q)[i].seq
    BY <1>4, <1>6, <1>8
  <2>3. \A j \in 1..Len(v) : (j \in 1..Len(u) /\ v[j] = u[j]) \/ v[j] = f
    BY <1>0, <2>1
  <2>4. QuestionsOK(Tail(q), a, v)
    BY <1>5, <1>8, <2>2, <2>3 DEF QuestionsOK
  <2> QED
    BY <2>4 DEF v
<1> QED
  BY <1>1, <1>2, <1>3, <1>5, <1>6, <1>7, <1>8

LEMMA CoversStep ==
    ASSUME NEW q \in Seq(Frames), NEW a \in Seq(Marks), NEW u \in Seq(Frames), Covers(q, a, u)
    PROVE  /\ \A v \in Seq(Frames) : Extends(u, v) => Covers(q, a, v)
           /\ \A f \in Frames : Covers(Append(q, f), a, u)
           /\ \A t \in Questions : Covers(Append(q, Numbered(t, Len(a) + 1)), Append(a, t), u)
           /\ q # <<>> /\ ~Question(Head(q)) => Covers(Tail(q), a, u)
           /\ q # <<>> /\ Question(Head(q)) /\ Head(q).seq \in 1..Len(a) =>
                Covers(Tail(q), [a EXCEPT ![Head(q).seq] = "MISSED"], u)
           /\ q # <<>> =>
                \A f \in Frames : Inline(f) /\ f.seq = Head(q).seq => Covers(Tail(q), a, Append(u, f))
<1>0. Len(q) \in Nat /\ Len(a) \in Nat /\ Len(u) \in Nat
  BY SeqOps
<1>1. \A v \in Seq(Frames) : Extends(u, v) => Covers(q, a, v)
  BY DEF Covers, Extends
<1>2. ASSUME NEW f \in Frames
      PROVE  Covers(Append(q, f), a, u)
  <2>1. /\ \A i \in 1..Len(q) : i \in 1..Len(Append(q, f)) /\ Append(q, f)[i] = q[i]
    BY <1>0, SeqOps
  <2> QED
    BY <2>1 DEF Covers
<1>3. ASSUME NEW t \in Questions
      PROVE  Covers(Append(q, Numbered(t, Len(a) + 1)), Append(a, t), u)
  <2> DEFINE f == Numbered(t, Len(a) + 1)
             r == Append(q, f)
             b == Append(a, t)
  <2>0. f \in Frames /\ f.seq = Len(a) + 1 /\ f.type = t /\ Question(f)
    BY <1>0 DEF Numbered, Question, Questions, Frames, FrameTypes
  <2> HIDE DEF f
  <2>1. /\ Len(r) = Len(q) + 1 /\ r[Len(q) + 1] = f /\ \A i \in 1..Len(q) : r[i] = q[i]
        /\ Len(b) = Len(a) + 1 /\ \A n \in 1..Len(a) : b[n] = a[n]
    BY <2>0, SeqOps DEF Marks
  <2> HIDE DEF r, b
  <2>2. /\ Len(q) + 1 \in 1..Len(r) /\ \A i \in 1..Len(q) : i \in 1..Len(r)
        /\ \A n \in 1..Len(b) : n \in 1..Len(a) \/ n = f.seq
    BY <1>0, <2>0, <2>1
  <2>3. Covers(r, b, u)
    BY <2>0, <2>1, <2>2 DEF Covers
  <2> QED
    BY <2>3 DEF r, b, f
<1>4. ASSUME q # <<>>
      PROVE  \A i \in 1..Len(q) : \/ i = 1 /\ q[i] = Head(q)
                                  \/ i - 1 \in 1..Len(Tail(q)) /\ Tail(q)[i - 1] = q[i]
  <2>1. /\ Head(q) = q[1] /\ Len(Tail(q)) = Len(q) - 1
        /\ \A i \in 1..Len(Tail(q)) : Tail(q)[i] = q[i + 1]
    BY <1>4, SeqOps
  <2>2. ASSUME NEW i \in 1..Len(q), i # 1
        PROVE  i - 1 \in 1..Len(Tail(q)) /\ Tail(q)[i - 1] = q[i]
    <3>1. i - 1 \in 1..Len(Tail(q)) /\ (i - 1) + 1 = i
      BY <1>0, <2>1, <2>2
    <3> QED
      BY <2>1, <3>1
  <2> QED
    BY <2>1, <2>2
<1>c. ASSUME q # <<>>, NEW n, \E i \in 1..Len(q) : Question(q[i]) /\ q[i].seq = n
      PROVE  \/ Question(Head(q)) /\ Head(q).seq = n
             \/ \E i \in 1..Len(Tail(q)) : Question(Tail(q)[i]) /\ Tail(q)[i].seq = n
  BY <1>4, <1>c
<1>5. ASSUME q # <<>>, ~Question(Head(q))
      PROVE  Covers(Tail(q), a, u)
  BY <1>c, <1>5 DEF Covers
<1>6. ASSUME q # <<>>, Question(Head(q)), Head(q).seq \in 1..Len(a)
      PROVE  Covers(Tail(q), [a EXCEPT ![Head(q).seq] = "MISSED"], u)
  <2> DEFINE b == [a EXCEPT ![Head(q).seq] = "MISSED"]
  <2>1. /\ Len(b) = Len(a) /\ \A m \in 1..Len(a) : m # Head(q).seq => b[m] = a[m]
        /\ b[Head(q).seq] = "MISSED"
    BY <1>6
  <2> HIDE DEF b
  <2>2. Covers(Tail(q), b, u)
    BY <1>c, <1>6, <2>1 DEF Covers
  <2> QED
    BY <2>2 DEF b
<1>7. ASSUME q # <<>>, NEW f \in Frames, Inline(f), f.seq = Head(q).seq
      PROVE  Covers(Tail(q), a, Append(u, f))
  <2> DEFINE v == Append(u, f)
  <2>1. Len(v) = Len(u) + 1 /\ v[Len(u) + 1] = f /\ \A i \in 1..Len(u) : v[i] = u[i]
    BY SeqOps
  <2> HIDE DEF v
  <2>2. Len(u) + 1 \in 1..Len(v) /\ \A j \in 1..Len(u) : j \in 1..Len(v)
    BY <1>0, <2>1
  <2>3. Covers(Tail(q), a, v)
    BY <1>c, <1>7, <2>1, <2>2 DEF Covers
  <2> QED
    BY <2>3 DEF v
<1> QED
  BY <1>1, <1>2, <1>3, <1>5, <1>6, <1>7

LEMMA DeadStep == [SessionNext]_vars => \A k \in Conns : Dead(k) => Dead(k)'
BY DEF SessionNext, LoopActions, HandlerActions, RelayReceives, Environment, CancelAgent,
       Connect, ConnectFails, CloseAndRetry, SendAuth, ReadAuthResponse, ReadAuthFails,
       SendHello, ReadAck, ReadFailsWhileConnected, ServeHeartbeat, ServeKeyExchange, ServeCommand,
       ServeOther, BackOff, ReadConn, WriteReply, RelayReads, RelayAccepts, RelayRefuses,
       RelayRegisters, RelayReadsOther, Break, LoseInFlight, RelayGarbles, RelayForwards, RelayAsks,
       vars, netVars, Dead

LEMMA AskStep ==
    ASSUME SessionTypeOK, OpenInv, AskInv, [SessionNext]_vars
    PROVE  AskInv'
<1>1. ASSUME NEW k \in Conns
      PROVE  AskOK(k)'
  <2> DEFINE q == in[k]
             a == asked[k]
             u == Uplink(k)
             r == in'[k]
             b == asked'[k]
             v == Uplink(k)'
  <2>0. /\ q \in Seq(Frames) /\ r \in Seq(Frames)
        /\ a \in Seq(Marks) /\ b \in Seq(Marks)
        /\ u \in Seq(Frames) /\ v \in Seq(Frames)
    <3>1. in' \in [Conns -> Seq(Frames)]
      BY InStep
    <3>2. asked' \in [Conns -> Seq(Marks)]
      BY AskedType DEF Marks
    <3>3. v \in Seq(Frames)
      BY OutType, GotType, ConcatOps DEF Uplink
    <3> QED
      BY <3>1, <3>2, <3>3, UplinkType DEF SessionTypeOK, Marks
  <2>1. QuestionsOK(q, a, u) /\ (Dead(k) \/ Covers(q, a, u)) /\ AnswersOK(a, u)
    BY AskParts DEF AskOK
  <2>2. ~Dead(k)' => ~Dead(k) /\ Extends(u, v) /\ Covers(q, a, u)
    BY <2>1, DeadStep, UplinkIndex DEF Extends
  <2>3. SameInline(k) => Stays(u, v)
    <3>1. ASSUME SameInline(k), NEW i \in 1..Len(v)
          PROVE  \/ i \in 1..Len(u) /\ v[i] = u[i]
                 \/ i = Len(u) + 1 /\ i = Len(v) /\ ~Inline(v[i])
      <4>1. Len(u) \in Nat
        BY UplinkIndex
      <4>2. Inline(v[i]) => i \in 1..Len(u)
        BY <3>1 DEF SameInline
      <4> QED
        BY <4>1, <4>2, UplinkIndex
    <3> QED
      BY <3>1 DEF Stays
  <2> SUFFICES QuestionsOK(r, b, v) /\ (Dead(k)' \/ Covers(r, b, v)) /\ AnswersOK(b, v)
    BY DEF AskOK
  <2> HIDE DEF q, a, u, r, b, v
  <2>4. CASE Quiet(k)
    <3>1. b = a /\ Stays(u, v)
      BY <2>3, <2>4 DEF Quiet, q, a, u, r, b, v
    <3>2. CASE r = q
      BY <2>0, <2>1, <2>2, <3>1, <3>2, QuestionsStep, CoversStep, AnswersStep
    <3>3. ASSUME NEW f \in Frames, ~Question(f), r = Append(q, f)
          PROVE  QuestionsOK(r, b, v) /\ (Dead(k)' \/ Covers(r, b, v)) /\ AnswersOK(b, v)
      <4>1. QuestionsOK(r, a, u)
        BY <2>0, <2>1, <3>3, QuestionsStep
      <4>3. AnswersOK(a, v)
        BY <2>0, <2>1, <3>1, AnswersStep
      <4>2. Dead(k)' \/ Covers(r, a, u)
        BY <2>0, <2>2, <3>3, CoversStep
      <4> QED
        BY <2>0, <2>2, <3>1, <4>1, <4>2, <4>3, QuestionsStep, CoversStep
    <3> QED
      BY <2>4, <3>2, <3>3 DEF Quiet, q, a, u, r, b, v
  <2>5. CASE Asks(k)
    <3>1. PICK t \in Questions : r = Append(q, Numbered(t, Len(a) + 1)) /\ b = Append(a, t)
      BY <2>5 DEF Asks, q, a, u, r, b, v
    <3>2. Stays(u, v)
      BY <2>3, <2>5 DEF Asks, q, a, u, r, b, v
    <3>3. QuestionsOK(r, b, u)
      BY <2>0, <2>1, <3>1, QuestionsStep
    <3>5. AnswersOK(b, u)
      BY <2>0, <2>1, <3>1, AnswersStep
    <3>4. Dead(k)' \/ Covers(r, b, u)
      BY <2>0, <2>2, <3>1, CoversStep
    <3> QED
      BY <2>0, <2>2, <3>2, <3>3, <3>4, <3>5, QuestionsStep, CoversStep, AnswersStep
  <2>6. CASE Serves(k)
    <3>1. /\ q # <<>> /\ r = Tail(q) /\ b = a /\ Question(Head(q))
          /\ \E f \in Frames : /\ Inline(f) /\ f.seq = Head(q).seq /\ f.type = AnswerTo(Head(q).type)
                               /\ v = Append(u, f)
      BY <2>6 DEF Serves, Shifts, q, a, u, r, b, v
    <3>2. PICK f \in Frames : /\ Inline(f) /\ f.seq = Head(q).seq /\ f.type = AnswerTo(Head(q).type)
                              /\ v = Append(u, f)
      BY <3>1
    <3>3. /\ f.seq \in 1..Len(a) /\ a[f.seq] = Head(q).type /\ a[f.seq] \in Questions
          /\ \A j \in 1..Len(u) : Inline(u[j]) => u[j].seq < f.seq
          /\ \A i \in 2..Len(q) : Question(q[i]) => f.seq < q[i].seq
      BY <2>0, <2>1, <3>1, <3>2, QuestionsStep DEF Question
    <3>4. ~Dead(k)
      <4>1. Len(u) \in Nat /\ Len(v) = Len(u) + 1
        BY <2>0, <3>2, SeqOps
      <4>2. Len(v) \in 1..Len(v) /\ Len(v) \notin 1..Len(u)
        BY <4>1
      <4> QED
        BY <4>2, UplinkIndex DEF u, v
    <3>5. \/ f.seq = 1 \/ a[f.seq - 1] = "MISSED"
          \/ \E j \in 1..Len(u) : Inline(u[j]) /\ u[j].seq = f.seq - 1
      <4>1. ASSUME f.seq # 1
            PROVE  \/ a[f.seq - 1] = "MISSED"
                   \/ \E i \in 1..Len(q) : Question(q[i]) /\ q[i].seq = f.seq - 1
                   \/ \E j \in 1..Len(u) : Inline(u[j]) /\ u[j].seq = f.seq - 1
        <5>1. Len(a) \in Nat
          BY <2>0, SeqOps
        <5>2. f.seq - 1 \in 1..Len(a)
          BY <3>3, <4>1, <5>1
        <5> QED
          BY <2>1, <3>4, <5>2 DEF Covers
      <4>2. \A i \in 1..Len(q) : Question(q[i]) => q[i].seq # f.seq - 1
        <5>1. Len(q) \in Nat /\ q[1] = Head(q) /\ \A i \in 1..Len(q) : q[i].seq \in Nat
          BY <2>0, <3>1, SeqOps, FrameAt
        <5>2. \A i \in 1..Len(q) : i = 1 \/ i \in 2..Len(q)
          BY <5>1
        <5> QED
          BY <3>2, <3>3, <5>1, <5>2
      <4> QED
        BY <4>1, <4>2
    <3>6. AnswersOK(b, v)
      BY <2>0, <2>1, <3>1, <3>2, <3>3, <3>5, AnswersStep
    <3>7. QuestionsOK(r, b, v)
      BY <2>0, <2>1, <3>1, <3>2, QuestionsStep
    <3>8. Covers(r, b, v)
      BY <2>0, <2>1, <3>1, <3>2, <3>4, CoversStep
    <3> QED
      BY <3>6, <3>7, <3>8
  <2>7. CASE Misses(k)
    <3>1. /\ q # <<>> /\ r = Tail(q) /\ Question(Head(q))
          /\ b = [a EXCEPT ![Head(q).seq] = "MISSED"]
      BY <2>7 DEF Misses, Shifts, q, a, u, r, b, v
    <3>2. Stays(u, v)
      BY <2>3, <2>7 DEF Misses, q, a, u, r, b, v
    <3>3. /\ Head(q).seq \in 1..Len(a)
          /\ \A j \in 1..Len(u) : Inline(u[j]) => u[j].seq < Head(q).seq
          /\ QuestionsOK(r, b, u)
      BY <2>0, <2>1, <3>1, QuestionsStep
    <3>4. AnswersOK(b, u)
      BY <2>0, <2>1, <3>1, <3>3, AnswersStep
    <3>5. Dead(k)' \/ Covers(r, b, u)
      BY <2>0, <2>2, <3>1, <3>3, CoversStep
    <3> QED
      BY <2>0, <2>2, <3>2, <3>3, <3>4, <3>5, QuestionsStep, CoversStep, AnswersStep
  <2>8. CASE Drops(k)
    <3>1. q # <<>> /\ r = Tail(q) /\ b = a /\ (Question(Head(q)) => Dead(k)')
      BY <2>8 DEF Drops, Shifts, q, a, u, r, b, v
    <3>2. Stays(u, v)
      BY <2>3, <2>8 DEF Drops, q, a, u, r, b, v
    <3>3. QuestionsOK(r, b, u)
      BY <2>0, <2>1, <3>1, QuestionsStep
    <3>4. Dead(k)' \/ Covers(r, b, u)
      BY <2>0, <2>2, <3>1, CoversStep
    <3> QED
      BY <2>0, <2>1, <2>2, <3>1, <3>2, <3>3, <3>4, QuestionsStep, CoversStep, AnswersStep
  <2> QED
    BY <2>4, <2>5, <2>6, <2>7, <2>8, AskShape
<1>2. (AskInv <=> \A k \in Conns : AskOK(k))'
  BY AskParts, PTL
<1> QED
  BY <1>1, <1>2

-----------------------------------------------------------------------------
(* The invariant holds, and what it says. *)

LEMMA SessionInitOK == SessionInit => SessionInv
<1> SUFFICES ASSUME SessionInit PROVE SessionInv
  OBVIOUS
<1>1. /\ at = "none" /\ conn = 0 /\ opened = 0 /\ closed = {} /\ broken = {} /\ faults = 0
      /\ \A k \in Conns : /\ out[k] = <<>> /\ in[k] = <<>> /\ got[k] = <<>> /\ asked[k] = <<>>
                          /\ relay[k] = "await" /\ Uplink(k) = <<>>
      /\ \A c \in Commands : command[c] = "new" /\ next[c] = 1 /\ snap[c] = 0
  BY DEF SessionInit, Uplink
<1>2. \A S : <<>> \in Seq(S) /\ Len(<<>>) = 0
  BY EmptySeq
<1>3. LoopTypeOK /\ CounterInv
  BY LoopInitOK DEF SessionInit
<1>4. SessionTypeOK
  BY <1>1, <1>2, <1>3 DEF SessionTypeOK, SessionInit
<1>5. OpenInv /\ AcceptInv /\ HelloInv /\ RegisterInv
  BY <1>1, <1>2 DEF OpenInv, Unused, AcceptInv, HelloInv, RegisterInv, Has
<1>6. ReplyInv
  BY <1>1, <1>2 DEF ReplyInv, RepliesInOrder
<1>7. AskInv
  BY <1>1, <1>2, AskParts DEF AskOK, QuestionsOK, Covers, AnswersOK
<1> QED
  BY <1>3, <1>4, <1>5, <1>6, <1>7 DEF SessionInv

LEMMA SessionStep == SessionInv /\ [SessionNext]_vars => SessionInv'
<1> SUFFICES ASSUME SessionInv, [SessionNext]_vars PROVE SessionInv'
  OBVIOUS
<1>1. \A c \in Commands : snap[c] <= conn
  BY DEF SessionInv, ReplyInv
<1> QED
  BY <1>1, LoopSteps, CounterStep, SessionTypeStep, OpenStep, AcceptStep, HelloStep,
     RegisterStep, ReplyStep, AskStep
     DEF SessionInv, SessionTypeOK

LEMMA SessionAlways == SessionSpec => []SessionInv
BY SessionInitOK, SessionStep, PTL DEF SessionSpec

\* Nothing is on its way that the two sides do not send, and the loop's own
\* type invariant holds of a session (client.go, agent.go, reconnect.go).
THEOREM SessionTypeCorrect == SessionSpec => []SessionTypeOK
<1>1. SessionInv => SessionTypeOK
  BY DEF SessionInv
<1> QED
  BY <1>1, SessionAlways, PTL

\* Run registers and serves on the newest connection only, once the relay has
\* accepted the agent there, and no connection carries an answer ahead of its
\* registration (client.go, Authenticate; agent.go, Run and messageLoop).
THEOREM ServesOnlyAccepted == SessionSpec => []ServesAcceptedConnection
<1>1. SessionInv => ServesAcceptedConnection
  BY DEF SessionInv, OpenInv, AcceptInv, RegisterInv, ServesAcceptedConnection
<1> QED
  BY <1>1, SessionAlways, PTL

\* AGENT_HELLO comes after the accepted AUTH_REQUEST of the same connection,
\* and once (client.go, Authenticate; agent.go, Run).
THEOREM RegistersOnceAfterAuth == SessionSpec => []HelloAfterAuth
<1>1. SessionInv => HelloAfterAuth
  <2> SUFFICES ASSUME SessionInv, NEW k \in Conns, NEW i \in 1..Len(got[k]),
                      got[k][i].type = "AGENT_HELLO"
               PROVE  /\ relay[k] = "online"
                      /\ \E j \in 1..(i - 1) : got[k][j].type = "AUTH_REQUEST"
                      /\ \A j \in 1..Len(Uplink(k)) : Uplink(k)[j].type = "AGENT_HELLO" => j = i
    BY DEF HelloAfterAuth
  <2>1. relay[k] = "online"
    BY DEF SessionInv, AcceptInv, Has
  <2>2. \E j \in 1..(i - 1) : got[k][j].type = "AUTH_REQUEST"
    BY DEF SessionInv, HelloInv
  <2>3. i \in 1..Len(Uplink(k)) /\ Uplink(k)[i] = got[k][i]
    <3>1. got[k] \in Seq(Frames) /\ out[k] \in Seq(Frames)
      BY DEF SessionInv, SessionTypeOK
    <3>2. \A p \in Seq(Frames), q \in Seq(Frames) :
            \A j \in 1..Len(p) : j \in 1..Len(p \o q) /\ (p \o q)[j] = p[j]
      OBVIOUS
    <3> QED
      BY <3>1, <3>2, Zenon DEF Uplink
  <2>4. \A j \in 1..Len(Uplink(k)) : Uplink(k)[j].type = "AGENT_HELLO" => j = i
    BY <2>3 DEF SessionInv, HelloInv
  <2> QED
    BY <2>1, <2>2, <2>4
<1> QED
  BY <1>1, SessionAlways, PTL

\* Whichever connection a goroutine has read from the client before the loop
\* moves on, the relay gets the replies of a command in order, newer ones on
\* newer connections, and none twice (client.go, SendFrame).
THEOREM RepliesStayInOrder == SessionSpec => []RepliesInOrder
<1>1. SessionInv => RepliesInOrder
  BY DEF SessionInv, ReplyInv
<1> QED
  BY <1>1, SessionAlways, PTL

\* messageLoop answers what it is asked, in order, once, and on the connection
\* it was asked on; only the frame read in place of RELAY_ACK is left out
\* (agent.go, Run and messageLoop).
THEOREM AnswersMatchQuestions == SessionSpec => []InlineAnswersMatch
<1>1. SessionInv => InlineAnswersMatch
  BY DEF SessionInv, AskInv
<1> QED
  BY <1>1, SessionAlways, PTL

\* The steps of a session are steps of ConnectLoop or leave its variables alone
\* (reconnect.go, ConnectLoop; agent.go, Run).
THEOREM SessionRunsTheLoop == SessionSpec => LoopInit /\ [][LoopNext]_loopVars
<1>1. SessionInit => LoopInit
  BY DEF SessionInit
<1> QED
  BY <1>1, LoopSteps, PTL DEF SessionSpec

\* So what is proved of the loop holds of the agent that runs in it: no failure
\* of the session ends it, a cancelled agent opens at most one more connection,
\* and its delays follow its failures.
THEOREM SessionKeepsTheLoop ==
    SessionSpec => [](ExitsOnlyWhenCancelled /\ OneLateConnection /\ DelayFollowsFailures)
<1>1. ShutdownInv => ExitsOnlyWhenCancelled /\ OneLateConnection
  BY DEF ShutdownInv, LateInv, OneLateConnection
<1>2. LoopTypeOK /\ CounterInv => DelayFollowsFailures
  BY DelayOfCounter
<1> QED
  BY <1>1, <1>2, SessionRunsTheLoop, ShutdownInit, ShutdownStep, LoopInitOK, CounterStep, PTL

=============================================================================
