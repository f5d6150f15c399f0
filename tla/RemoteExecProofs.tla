-------------------------- MODULE RemoteExecProofs --------------------------
(***************************************************************************)
(* What a run of muster-tunnel is given, for any number of runs and hosts, *)
(* whatever they do and whatever connections fail: as long as no other run *)
(* of its host has been started, its own answer, its lines in order, and,  *)
(* while the agent keeps its connection, all of them before the result.    *)
(***************************************************************************)
EXTENDS RemoteExec, SequenceLemmas

-----------------------------------------------------------------------------
(* The invariant. *)

\* The relay has not read the run's AUTH_REQUEST yet.
AuthPending(r) == up[r] # <<>> /\ Head(up[r]).type = "AUTH_REQUEST"

\* A run has at most one frame on its way to the relay, and sends its request
\* after the relay has read its AUTH_REQUEST.
RunOK(r) ==
    /\ Len(up[r]) <= 1
    /\ up[r] # <<>> => Head(up[r]).of = r
    /\ AuthPending(r) => /\ run[r] \in {"auth", "done"}
                         /\ down[r] = <<>> /\ handler[r] = "none" /\ table[host[r]] # r
    /\ up[r] # <<>> /\ ~AuthPending(r) => run[r] \in {"read", "done"} /\ handler[r] = "none"
    /\ run[r] \in {"idle", "auth", "send"} => handler[r] = "none" /\ printed[r] = <<>>
    /\ run[r] = "idle" => down[r] = <<>>
    /\ run[r] # "done" => exit[r] = NoExit
    /\ handler[r] \in {"none", "started", "acked"} => lines[r] = 0

RunInv == \A r \in Runs : RunOK(r)

TableInv ==
    \A h \in Hosts : table[h] # NoRun => host[table[h]] = h /\ run[table[h]] # "idle"

\* A frame of the agent belongs to a run that was started, a line to the lines
\* its command has printed, a result to a command that has ended.
Sound(f) ==
    /\ run[f.of] # "idle"
    /\ f.type = "STREAM_DATA" => f.line \in 1..lines[f.of]
    /\ f.type = "COMMAND_RESULT" => handler[f.of] = "finished"

\* Whatever a run is given was for a run of its host.
FrameInv ==
    /\ \A i \in 1..Len(agentOut) : Sound(agentOut[i])
    /\ \A r \in Runs :
         /\ \A i \in 1..Len(down[r]) : Sound(down[r][i]) /\ host[down[r][i].of] = host[r]
         /\ \A i \in 1..Len(printed[r]) :
              /\ Sound(printed[r][i]) /\ host[printed[r][i].of] = host[r]
              /\ printed[r][i].type = "STREAM_DATA"
         /\ exit[r].of # NoRun => run[exit[r].of] # "idle" /\ host[exit[r].of] = host[r]

\* If f and g are of run r and f is before g: lines are in order, and none
\* comes after the result.
Follows(r, f, g) ==
    f.of = r /\ g.of = r /\ g.type = "STREAM_DATA" /\ f.type \in {"STREAM_DATA", "COMMAND_RESULT"}
    => f.type = "STREAM_DATA" /\ f.line < g.line

Sorted(r, s) == \A i, j \in 1..Len(s) : i < j => Follows(r, s[i], s[j])
Before(r, s, t) == \A i \in 1..Len(s), j \in 1..Len(t) : Follows(r, s[i], t[j])

OrderInv ==
    \A r \in Runs :
        /\ Sorted(r, printed[r]) /\ Sorted(r, down[r]) /\ Sorted(r, agentOut)
        /\ Before(r, printed[r], down[r])
        /\ Before(r, printed[r], agentOut)
        /\ Before(r, down[r], agentOut)

\* A run that has its host for itself is what the relay's table says, once it
\* is accepted and as long as it is connected; and it stays connected while its
\* request is under way.
RouteOK(r) ==
    /\ run[r] \in {"auth", "send", "read"} /\ link[r] = "open" /\ ~AuthPending(r)
       => table[host[r]] = r
    /\ run[r] = "read" /\ (up[r] # <<>> \/ handler[r] # "none") => link[r] = "open"

RouteInv ==
    /\ ~online => losses > 0
    /\ \A r \in Runs : SoleUser(r) => RouteOK(r)

IsLine(f, r, n) == f.type = "STREAM_DATA" /\ f.of = r /\ f.line = n
HasLine(s, r, n) == \E i \in 1..Len(s) : IsLine(s[i], r, n)

InPlace(r) == \A i \in 1..Len(printed[r]) : printed[r][i].line = i

Covered(r, n) == n <= Len(printed[r]) \/ HasLine(down[r], r, n) \/ HasLine(agentOut, r, n)

AllPrinted(r) == handler[r] = "finished" /\ Len(printed[r]) = lines[r]

\* Every line its command has printed is printed by the run, in its place, or
\* still on its way to it.
WholeOK(r) ==
    /\ run[r] = "read" => InPlace(r) /\ \A n \in 1..lines[r] : Covered(r, n)
    /\ exit[r].how = "COMMAND_RESULT" => AllPrinted(r)

WholeInv == \A r \in Runs : SoleUser(r) /\ losses = 0 => WholeOK(r)

RemoteInv ==
    RemoteTypeOK /\ RunInv /\ TableInv /\ FrameInv /\ OrderInv /\ RouteInv /\ WholeInv

-----------------------------------------------------------------------------
(* The steps of a run, by what they do to it. *)

USE RemoteExecAssumption DEF RemoteExecAssumption

Quits(r) ==
    /\ \E how \in Outcomes, of \in Runs :
         /\ Exit(r, how, of)
         /\ \/ how = "failed" /\ of = r
            \/ /\ run[r] = "read" /\ down[r] # <<>> /\ of = Head(down[r]).of
               /\ how = "COMMAND_RESULT" => Head(down[r]).type = "COMMAND_RESULT"
    /\ UNCHANGED up

Dials(r) ==
    /\ run[r] = "idle"
    /\ run' = [run EXCEPT ![r] = "auth"]
    /\ link' = [link EXCEPT ![r] = "open"]
    /\ up' = [up EXCEPT ![r] = Append(@, Frame("AUTH_REQUEST", r))]
    /\ UNCHANGED <<printed, exit, down>>

Passes(r) ==
    /\ run[r] = "auth" /\ down[r] # <<>>
    /\ Skip(r)
    /\ run' = [run EXCEPT ![r] = "send"]
    /\ UNCHANGED <<printed, exit, link, up>>

Requests(r) ==
    /\ run[r] = "send"
    /\ \E t \in {"COMMAND", "HEARTBEAT", "AGENT_LIST_REQUEST"} : Write(r, Frame(t, r))
    /\ run' = [run EXCEPT ![r] = "read"]
    /\ UNCHANGED <<printed, exit, link, down>>

Turns(r) ==
    /\ run[r] = "read" /\ down[r] # <<>>
    /\ Skip(r)
    /\ printed' = IF Head(down[r]).type = "STREAM_DATA"
                    THEN [printed EXCEPT ![r] = Append(@, Head(down[r]))] ELSE printed
    /\ UNCHANGED <<run, exit, link, up>>

Cli(r) ==
    /\ Quits(r) \/ Dials(r) \/ Passes(r) \/ Requests(r) \/ Turns(r)
    /\ UNCHANGED <<kind, host, table, agentVars, agentOut>>

Relays(r) == RelayAccepts(r) \/ RelayRefuses(r) \/ RelayForwards(r) \/ RelayLists(r)

LEMMA Heads ==
    ASSUME RemoteTypeOK
    PROVE  /\ \A r \in Runs : down[r] # <<>> => Head(down[r]) \in Frames /\ Tail(down[r]) \in Seq(Frames)
           /\ \A r \in Runs : up[r] # <<>> => Head(up[r]) \in Frames /\ Tail(up[r]) \in Seq(Frames)
           /\ agentOut # <<>> => Head(agentOut) \in Frames /\ Tail(agentOut) \in Seq(Frames)
           /\ \A s \in Seq(Frames), f \in Frames : Append(s, f) \in Seq(Frames)
BY SeqOps DEF RemoteTypeOK

LEMMA CliSteps ==
    ASSUME RemoteTypeOK, NEW r \in Runs, Start(r) \/ CliStep(r) \/ Interrupt(r)
    PROVE  Cli(r)
<1> USE DEF Outcomes
<1>1. CASE Start(r)
  BY <1>1 DEF Start, Cli, Quits, Dials
<1>2. CASE ReadAuth(r)
  BY <1>2 DEF ReadAuth, Cli, Quits, Passes
<1>3. CASE SendExec(r) \/ SendPush(r) \/ SendPing(r) \/ SendAgents(r)
  BY <1>3 DEF SendExec, SendPush, SendPing, SendAgents, Send, Cli, Quits, Requests
<1>4. CASE ReadExec(r) \/ ReadPush(r)
  <2>1. down[r] # <<>> /\ Head(down[r]).of \in Runs /\ Final \subseteq Outcomes
    BY <1>4, Heads DEF ReadExec, ReadPush, ReadTurn, Frames, Final
  <2> QED
    BY <1>4, <2>1 DEF ReadExec, ReadPush, ReadTurn, Cli, Quits, Turns, Final
<1>5. CASE ReadPing(r) \/ ReadAgents(r)
  <2>1. down[r] # <<>> /\ Head(down[r]).of \in Runs
    BY <1>5, Heads DEF ReadPing, ReadAgents, ReadOne, Frames
  <2> QED
    BY <1>5, <2>1 DEF ReadPing, ReadAgents, ReadOne, Cli, Quits
<1>6. CASE ReadFails(r) \/ Interrupt(r)
  BY <1>6 DEF ReadFails, Interrupt, Cli, Quits
<1> QED
  BY <1>1, <1>2, <1>3, <1>4, <1>5, <1>6 DEF CliStep

\* The steps there are.
LEMMA RemoteSteps ==
    ASSUME RemoteTypeOK, [RemoteNext]_vars
    PROVE  \/ \E r \in Runs : Cli(r) \/ HandlerSteps(r) \/ Relays(r) \/ RelayForgets(r)
           \/ RelayDelivers \/ AgentLost \/ AgentReturns
           \/ UNCHANGED vars
BY CliSteps DEF RemoteNext, Relays, RelayStep, Faults

-----------------------------------------------------------------------------
(* Types. *)

LEMMA FrameOK ==
    ASSUME NEW r \in Runs
    PROVE  /\ \A t \in FrameTypes : Frame(t, r) \in Frames
           /\ \A n \in Nat : Line(r, n) \in Frames
BY DEF Frame, Line, Frames, FrameTypes

LEMMA SendDownEffect ==
    ASSUME RemoteTypeOK, NEW r \in Runs, NEW f \in Frames, SendDown(r, f)
    PROVE  /\ down' \in [Runs -> Seq(Frames)]
           /\ \A q \in Runs : \/ down'[q] = down[q]
                              \/ q = r /\ link[q] = "open" /\ down'[q] = Append(down[q], f)
           /\ link[r] = "open" => down'[r] = Append(down[r], f)
BY Heads DEF RemoteTypeOK, SendDown

LEMMA SendFrameEffect ==
    ASSUME RemoteTypeOK, NEW f \in Frames, SendFrame(f)
    PROVE  /\ agentOut' \in Seq(Frames)
           /\ agentOut' = agentOut \/ agentOut' = Append(agentOut, f)
BY Heads DEF RemoteTypeOK, SendFrame

LEMMA CliType ==
    ASSUME RemoteTypeOK, NEW r \in Runs, Cli(r)
    PROVE  RemoteTypeOK'
<1>1. UNCHANGED <<kind, host, table, agentVars, agentOut>>
  BY DEF Cli
<1>2. CASE Quits(r)
  <2>1. PICK how \in Outcomes, of \in Runs : Exit(r, how, of) /\ UNCHANGED up
    BY <1>2 DEF Quits
  <2> QED
    BY <1>1, <2>1, EmptySeq DEF RemoteTypeOK, Exit, agentVars
<1>3. CASE Dials(r)
  BY <1>1, <1>3, Heads, FrameOK DEF RemoteTypeOK, Dials, agentVars, FrameTypes
<1>4. CASE Passes(r)
  BY <1>1, <1>4, Heads, SMTT(20) DEF RemoteTypeOK, Passes, Skip, agentVars
<1>5. CASE Requests(r)
  BY <1>1, <1>5, Heads, FrameOK, SMTT(20) DEF RemoteTypeOK, Requests, Write, agentVars, FrameTypes
<1>6. CASE Turns(r)
  <2>1. /\ run[r] = "read" /\ down[r] # <<>> /\ down' = [down EXCEPT ![r] = Tail(@)]
        /\ printed' = printed \/ printed' = [printed EXCEPT ![r] = Append(@, Head(down[r]))]
        /\ UNCHANGED <<run, exit, link, up>>
    BY <1>6 DEF Turns, Skip
  <2>2. Head(down[r]) \in Frames /\ Tail(down[r]) \in Seq(Frames)
    BY <2>1, Heads
  <2>3. printed[r] \in Seq(Frames) /\ Append(printed[r], Head(down[r])) \in Seq(Frames)
    BY <2>2, SeqOps DEF RemoteTypeOK
  <2>4. down' \in [Runs -> Seq(Frames)]
    BY <2>1, <2>2 DEF RemoteTypeOK
  <2>5. printed' \in [Runs -> Seq(Frames)]
    BY <2>1, <2>3 DEF RemoteTypeOK
  <2> QED
    BY <1>1, <2>1, <2>4, <2>5 DEF RemoteTypeOK, agentVars
<1> QED
  BY <1>2, <1>3, <1>4, <1>5, <1>6 DEF Cli

LEMMA RelayType ==
    ASSUME RemoteTypeOK, NEW r \in Runs, Relays(r)
    PROVE  RemoteTypeOK'
<1>1. /\ UNCHANGED <<kind, host, cliVars, online, losses, lines>>
      /\ up[r] # <<>> /\ Head(up[r]) \in Frames
      /\ up' \in [Runs -> Seq(Frames)]
  <2>1. RelayTakes(r)
    BY DEF Relays, RelayAccepts, RelayRefuses, RelayForwards, RelayLists
  <2> QED
    BY <2>1, Heads DEF RelayTakes, RemoteTypeOK
<1>2. host[r] \in Hosts
  BY DEF RemoteTypeOK
<1>3. CASE RelayAccepts(r)
  <2>1. down' \in [Runs -> Seq(Frames)]
    BY <1>3, FrameOK, SendDownEffect DEF RelayAccepts, FrameTypes
  <2>2. link' \in [Runs -> {"none", "open", "closed"}]
    BY <1>3 DEF RelayAccepts, RemoteTypeOK
  <2> QED
    BY <1>1, <1>2, <1>3, <2>1, <2>2 DEF RelayAccepts, RemoteTypeOK, cliVars
<1>4. CASE RelayRefuses(r)
  <2>1. down' \in [Runs -> Seq(Frames)]
    BY <1>4, FrameOK, SendDownEffect DEF RelayRefuses, FrameTypes
  <2> QED
    BY <1>1, <1>4, <2>1 DEF RelayRefuses, RemoteTypeOK, cliVars
<1>5. CASE RelayForwards(r)
  <2>1. down' \in [Runs -> Seq(Frames)]
    BY <1>5, FrameOK, SendDownEffect DEF RelayForwards, FrameTypes, RemoteTypeOK
  <2>2. /\ agentOut' \in Seq(Frames)
        /\ handler' \in [Runs -> {"none", "started", "acked", "streaming", "finished"}]
    <3>1. Head(up[r]).of \in Runs /\ Frame("HEARTBEAT_ACK", Head(up[r]).of) \in Frames
      BY <1>1, FrameOK DEF Frames, FrameTypes
    <3> QED
      BY <1>5, <3>1, SendFrameEffect DEF RelayForwards, Serve, RemoteTypeOK
  <2> QED
    BY <1>1, <1>5, <2>1, <2>2 DEF RelayForwards, RemoteTypeOK, cliVars
<1>6. CASE RelayLists(r)
  <2>1. down' \in [Runs -> Seq(Frames)]
    BY <1>6, FrameOK, SendDownEffect DEF RelayLists, FrameTypes
  <2> QED
    BY <1>1, <1>6, <2>1 DEF RelayLists, RemoteTypeOK, cliVars
<1> QED
  BY <1>3, <1>4, <1>5, <1>6 DEF Relays

LEMMA AgentType ==
    ASSUME RemoteTypeOK, NEW r \in Runs, HandlerSteps(r)
    PROVE  RemoteTypeOK'
<1>1. /\ UNCHANGED <<kind, host, cliVars, link, up, down, table, online, losses>>
      /\ handler' \in [Runs -> {"none", "started", "acked", "streaming", "finished"}]
  BY DEF HandlerSteps, Acknowledge, Refuse, Stream, Finish, HandlerStep, RemoteTypeOK
<1>2. lines' \in [Runs -> Nat]
  <2>1. lines \in [Runs -> Nat]
    BY DEF RemoteTypeOK
  <2>2. CASE lines' = lines
    BY <2>1, <2>2
  <2>3. CASE lines' = [lines EXCEPT ![r] = @ + 1]
    BY <2>1, <2>3
  <2> QED
    BY <2>2, <2>3 DEF HandlerSteps, Acknowledge, Refuse, Stream, Finish
<1>3. agentOut' \in Seq(Frames)
  <2>1. PICK f \in Frames : SendFrame(f)
    BY FrameOK DEF HandlerSteps, Acknowledge, Refuse, Stream, Finish, FrameTypes, RemoteTypeOK
  <2> QED
    BY <2>1, SendFrameEffect
<1> QED
  BY <1>1, <1>2, <1>3 DEF RemoteTypeOK, cliVars

LEMMA RemoteTypeStep == RemoteTypeOK /\ [RemoteNext]_vars => RemoteTypeOK'
<1> SUFFICES ASSUME RemoteTypeOK, [RemoteNext]_vars PROVE RemoteTypeOK'
  OBVIOUS
<1>1. ASSUME NEW r \in Runs, RelayForgets(r)
      PROVE  RemoteTypeOK'
  BY <1>1 DEF RelayForgets, RemoteTypeOK, cliVars, agentVars
<1>2. CASE RelayDelivers
  <2>1. /\ agentOut # <<>> /\ agentOut' = Tail(agentOut)
        /\ UNCHANGED <<kind, host, cliVars, link, up, table, agentVars>>
    BY <1>2 DEF RelayDelivers
  <2>2. Head(agentOut) \in Frames /\ Tail(agentOut) \in Seq(Frames)
    BY <2>1, Heads
  <2>3. down' \in [Runs -> Seq(Frames)]
    <3>1. table[Destination(Head(agentOut))] \in Runs \cup {NoRun}
      <4>1. Head(agentOut).of \in Runs
        BY <2>2 DEF Frames
      <4>2. host \in [Runs -> Hosts]
        BY DEF RemoteTypeOK
      <4> QED
        BY <4>1, <4>2 DEF Destination, RemoteTypeOK
    <3> QED
      BY <1>2, <2>2, <3>1, SendDownEffect DEF RelayDelivers, RemoteTypeOK
  <2> QED
    BY <2>1, <2>2, <2>3 DEF RemoteTypeOK, cliVars, agentVars
<1>3. CASE AgentLost
  <2>1. online' \in BOOLEAN
    BY <1>3, Zenon DEF AgentLost
  <2>2. losses' \in 0..MaxLosses
    BY <1>3 DEF AgentLost, RemoteTypeOK
  <2>3. agentOut' \in Seq(Frames)
    BY <1>3, EmptySeq DEF AgentLost
  <2> QED
    BY <1>3, <2>1, <2>2, <2>3 DEF AgentLost, RemoteTypeOK, cliVars
<1>4. CASE AgentReturns
  BY <1>4 DEF AgentReturns, RemoteTypeOK, cliVars
<1>5. CASE UNCHANGED vars
  BY <1>5 DEF vars, RemoteTypeOK, cliVars, agentVars
<1> QED
  BY <1>1, <1>2, <1>3, <1>4, <1>5, CliType, RelayType, AgentType, RemoteSteps

-----------------------------------------------------------------------------
(* A run and its requests. *)

\* Nothing of run r changes, but that the relay may forget it.
Rests(r) ==
    /\ run'[r] = run[r] /\ up'[r] = up[r] /\ down'[r] = down[r] /\ printed'[r] = printed[r]
    /\ exit'[r] = exit[r] /\ handler'[r] = handler[r] /\ lines'[r] = lines[r]
    /\ host' = host /\ (table'[host[r]] = r => table[host[r]] = r)

LEMMA OthersRest ==
    ASSUME RemoteTypeOK, NEW r \in Runs, NEW q \in Runs, q # r, up[q] # <<>> => Head(up[q]).of = q,
           Cli(q) \/ HandlerSteps(q) \/ Relays(q)
    PROVE  Rests(r)
<1> USE DEF Rests
<1>1. CASE Cli(q)
  BY <1>1 DEF Cli, Quits, Exit, Dials, Passes, Requests, Write, Turns, Skip, agentVars, RemoteTypeOK
<1>2. CASE HandlerSteps(q)
  <2>1. lines'[r] = lines[r]
    BY <1>2 DEF HandlerSteps, Acknowledge, Refuse, Stream, Finish, RemoteTypeOK
  <2> QED
    BY <1>2, <2>1
       DEF HandlerSteps, Acknowledge, Refuse, Stream, Finish, HandlerStep, cliVars, RemoteTypeOK
<1>3. CASE Relays(q)
  <2>1. RelayTakes(q)
    BY <1>3 DEF Relays, RelayAccepts, RelayRefuses, RelayForwards, RelayLists
  <2>2. up'[r] = up[r] /\ UNCHANGED <<host, run, printed, exit, lines>> /\ host[q] \in Hosts
    BY <2>1 DEF RelayTakes, cliVars, RemoteTypeOK
  <2>3. down'[r] = down[r]
    BY <1>3 DEF Relays, RelayAccepts, RelayRefuses, RelayForwards, RelayLists, SendDown, RemoteTypeOK
  <2>4. handler'[r] = handler[r]
    BY <1>3, <2>1 DEF Relays, RelayTakes, RelayAccepts, RelayRefuses, RelayForwards, RelayLists,
                      Serve, RemoteTypeOK
  <2>5. table' = table \/ table' = [table EXCEPT ![host[q]] = q]
    BY <1>3 DEF Relays, RelayAccepts, RelayRefuses, RelayForwards, RelayLists
  <2> QED
    BY <2>2, <2>3, <2>4, <2>5 DEF RemoteTypeOK
<1> QED
  BY <1>1, <1>2, <1>3

LEMMA RunStep ==
    ASSUME RemoteTypeOK, RunInv, TableInv, [RemoteNext]_vars
    PROVE  RunInv'
<1>1. SUFFICES ASSUME NEW r \in Runs PROVE RunOK(r)'
  BY DEF RunInv
<1>2. RunOK(r) /\ \A q \in Runs : up[q] # <<>> => Head(up[q]).of = q
  BY DEF RunInv, RunOK
<1>t. /\ up[r] \in Seq(Frames) /\ down[r] \in Seq(Frames) /\ host[r] \in Hosts
      /\ RemoteTypeOK'
  <2>1. up[r] \in Seq(Frames) /\ down[r] \in Seq(Frames) /\ host[r] \in Hosts
    BY DEF RemoteTypeOK
  <2> QED
    BY <2>1, RemoteTypeStep
<1>3. CASE Rests(r)
  BY <1>2, <1>3 DEF RunOK, AuthPending, Rests
<1>4. CASE Cli(r)
  <2>1. UNCHANGED <<host, table, handler, lines>>
    BY <1>4 DEF Cli, agentVars
  <2>2. CASE Quits(r)
    <3>1. run'[r] = "done" /\ down'[r] = <<>> /\ up' = up /\ printed' = printed
      BY <2>2 DEF Quits, Exit, RemoteTypeOK
    <3> QED
      BY <1>2, <2>1, <3>1 DEF RunOK, AuthPending
  <2>3. CASE Dials(r)
    <3>1. /\ run[r] = "idle" /\ run'[r] = "auth" /\ up'[r] = Append(up[r], Frame("AUTH_REQUEST", r))
          /\ UNCHANGED <<printed, exit, down>>
      BY <2>3 DEF Dials, RemoteTypeOK
    <3>2. up[r] = <<>> /\ down[r] = <<>> /\ handler[r] = "none" /\ table[host[r]] # r
      BY <1>2, <1>t, <3>1 DEF RunOK, AuthPending, TableInv
    <3>3. up'[r] = <<Frame("AUTH_REQUEST", r)>>
      BY <3>1, <3>2
    <3>4. Len(up'[r]) = 1 /\ Head(up'[r]).of = r /\ Head(up'[r]).type = "AUTH_REQUEST"
      BY <3>3 DEF Frame
    <3> QED
      BY <1>2, <2>1, <3>1, <3>2, <3>4 DEF RunOK, AuthPending
  <2>4. CASE Passes(r)
    <3>1. /\ run[r] = "auth" /\ run'[r] = "send" /\ down[r] # <<>>
          /\ UNCHANGED <<printed, exit, up>>
      BY <2>4 DEF Passes, RemoteTypeOK
    <3>2. up[r] = <<>>
      BY <1>2, <3>1 DEF RunOK
    <3> QED
      BY <1>2, <2>1, <3>1, <3>2 DEF RunOK, AuthPending
  <2>5. CASE Requests(r)
    <3>1. /\ run[r] = "send" /\ run'[r] = "read" /\ UNCHANGED <<printed, exit, down>>
          /\ \E t \in {"COMMAND", "HEARTBEAT", "AGENT_LIST_REQUEST"} :
               up'[r] = up[r] \/ up'[r] = Append(up[r], Frame(t, r))
      BY <2>5 DEF Requests, Write, RemoteTypeOK
    <3>2. up[r] = <<>> /\ handler[r] = "none"
      BY <1>2, <3>1 DEF RunOK, AuthPending
    <3>3. PICK t \in {"COMMAND", "HEARTBEAT", "AGENT_LIST_REQUEST"} :
            up'[r] = up[r] \/ up'[r] = Append(up[r], Frame(t, r))
      BY <3>1
    <3> DEFINE f == Frame(t, r)
    <3>4. f.of = r /\ f.type # "AUTH_REQUEST"
      BY DEF Frame
    <3> HIDE DEF f
    <3>5. up'[r] = <<>> \/ up'[r] = <<f>>
      BY <3>2, <3>3 DEF f
    <3>6. Len(up'[r]) <= 1 /\ (up'[r] # <<>> => Head(up'[r]) = f)
      <4>1. Len(<<>>) <= 1 /\ Len(<<f>>) <= 1 /\ Head(<<f>>) = f
        OBVIOUS
      <4> QED
        BY <3>5, <4>1, Zenon
    <3>7. ~AuthPending(r)'
      BY <3>4, <3>6 DEF AuthPending
    <3> QED
      BY <1>2, <2>1, <3>1, <3>2, <3>4, <3>6, <3>7 DEF RunOK
  <2>6. CASE Turns(r)
    <3>1. run[r] = "read" /\ UNCHANGED <<run, exit, up>>
      BY <2>6 DEF Turns
    <3>2. ~AuthPending(r)
      BY <1>2, <3>1 DEF RunOK
    <3> QED
      BY <1>2, <2>1, <3>1, <3>2 DEF RunOK, AuthPending
  <2> QED
    BY <1>4, <2>2, <2>3, <2>4, <2>5, <2>6 DEF Cli
<1>5. CASE HandlerSteps(r)
  <2>1. /\ UNCHANGED <<run, up, down, printed, exit, host, table>>
        /\ handler[r] # "none"
    BY <1>5 DEF HandlerSteps, Acknowledge, Refuse, Stream, Finish, HandlerStep, cliVars
  <2>2. \/ handler'[r] = "acked" /\ handler[r] = "started" /\ lines' = lines
        \/ handler'[r] \in {"streaming", "finished"}
    BY <1>5 DEF HandlerSteps, Acknowledge, Refuse, Stream, Finish, HandlerStep, RemoteTypeOK
  <2> QED
    BY <1>2, <2>1, <2>2 DEF RunOK, AuthPending
<1>6. CASE Relays(r)
  <2>1. /\ up[r] # <<>> /\ up'[r] = Tail(up[r])
        /\ UNCHANGED <<host, run, printed, exit, lines>>
    BY <1>6 DEF Relays, RelayAccepts, RelayRefuses, RelayForwards, RelayLists, RelayTakes,
                cliVars, RemoteTypeOK
  <2>2. up'[r] = <<>> /\ handler[r] = "none" /\ lines[r] = 0 /\ run[r] # "idle"
    <3>1. Len(up[r]) <= 1
      BY <1>2 DEF RunOK
    <3>2. up'[r] = <<>>
      BY <1>t, <2>1, <3>1, ShortTail
    <3> QED
      BY <1>2, <2>1, <3>2 DEF RunOK, AuthPending
  <2>3. AuthPending(r) => handler' = handler
    BY <1>6 DEF Relays, RelayAccepts, RelayRefuses, RelayForwards, RelayLists, AuthPending
  <2>4. handler'[r] \in {"none", "started"}
    BY <1>2, <1>6, <2>2
       DEF Relays, RelayAccepts, RelayRefuses, RelayForwards, RelayLists, Serve, RemoteTypeOK
  <2> QED
    BY <1>2, <2>1, <2>2, <2>3, <2>4 DEF RunOK, AuthPending
<1>7. ASSUME NEW q \in Runs, RelayForgets(q)
      PROVE  Rests(r)
  BY <1>7, <1>t DEF RelayForgets, Rests, cliVars, agentVars, RemoteTypeOK
<1>8. CASE RelayDelivers
  <2>1. UNCHANGED <<run, up, printed, exit, host, table, handler, lines>>
    BY <1>8 DEF RelayDelivers, cliVars, agentVars
  <2>2. AuthPending(r) \/ run[r] = "idle" => down'[r] = down[r]
    <3>1. Head(agentOut) \in Frames
      BY <1>8, Heads DEF RelayDelivers
    <3>2. Head(agentOut).of \in Runs /\ host[Head(agentOut).of] \in Hosts
      <4>1. Head(agentOut).of \in Runs
        BY <3>1 DEF Frames
      <4> QED
        BY <4>1 DEF RemoteTypeOK
    <3> DEFINE p == table[host[Head(agentOut).of]]
    <3>3. p \in Runs \cup {NoRun}
      BY <3>2 DEF RemoteTypeOK
    <3>4. p = r => table[host[r]] = r /\ run[r] # "idle"
      BY <3>2 DEF TableInv
    <3>5. p # r => down'[r] = down[r]
      BY <1>8, <3>3 DEF RelayDelivers, Destination, SendDown, RemoteTypeOK
    <3> QED
      BY <1>2, <3>4, <3>5 DEF RunOK
  <2> QED
    BY <1>2, <2>1, <2>2 DEF RunOK, AuthPending
<1>9. CASE AgentLost \/ AgentReturns \/ UNCHANGED vars
  BY <1>3, <1>9 DEF AgentLost, AgentReturns, vars, cliVars, agentVars, Rests
<1> QED
  BY <1>2, <1>3, <1>4, <1>5, <1>6, <1>7, <1>8, <1>9, RemoteSteps, OthersRest

LEMMA TableStep ==
    ASSUME RemoteTypeOK, RunInv, TableInv, [RemoteNext]_vars
    PROVE  TableInv'
<1>1. \A r \in Runs : run'[r] = "idle" => run[r] = "idle"
  <2>1. ASSUME NEW q \in Runs, Cli(q)
        PROVE  \A r \in Runs : run'[r] = "idle" => run[r] = "idle"
    BY <2>1 DEF Cli, Quits, Exit, Dials, Passes, Requests, Turns, RemoteTypeOK
  <2>2. CASE UNCHANGED run
    BY <2>2
  <2> QED
    BY <2>1, <2>2, RemoteSteps
       DEF HandlerSteps, Acknowledge, Refuse, Stream, Finish, HandlerStep, Relays, RelayAccepts,
           RelayRefuses, RelayForwards, RelayLists, RelayTakes, RelayForgets, RelayDelivers, AgentLost,
           AgentReturns, vars, cliVars
<1>2. host' = host /\ host \in [Runs -> Hosts]
  BY RemoteSteps
     DEF Cli, HandlerSteps, Acknowledge, Refuse, Stream, Finish, HandlerStep, Relays, RelayAccepts,
         RelayRefuses, RelayForwards, RelayLists, RelayTakes, RelayForgets, RelayDelivers, AgentLost,
         AgentReturns, vars, RemoteTypeOK
<1>3. CASE UNCHANGED table
  BY <1>1, <1>2, <1>3 DEF TableInv, RemoteTypeOK
<1>4. ASSUME NEW r \in Runs, RelayAccepts(r)
      PROVE  TableInv'
  <2>1. table' = [table EXCEPT ![host[r]] = r] /\ run[r] # "idle" /\ run' = run
    BY <1>4 DEF RelayAccepts, RelayTakes, RunInv, RunOK, AuthPending, cliVars
  <2> QED
    BY <1>2, <2>1 DEF TableInv, RemoteTypeOK
<1>5. ASSUME NEW r \in Runs, RelayForgets(r)
      PROVE  TableInv'
  BY <1>1, <1>2, <1>5 DEF TableInv, RelayForgets, RemoteTypeOK
<1> QED
  BY <1>3, <1>4, <1>5, RemoteSteps
     DEF Cli, HandlerSteps, Acknowledge, Refuse, Stream, Finish, HandlerStep, Relays,
         RelayRefuses, RelayForwards, RelayLists, RelayDelivers, AgentLost, AgentReturns, vars

-----------------------------------------------------------------------------
(* Frames on their way to a run, and what it prints. *)

\* What was started stays so, lines are not taken back, and a command that has
\* ended is not run again.
LEMMA Monotone ==
    ASSUME RemoteTypeOK, RunInv, [RemoteNext]_vars
    PROVE  /\ host' = host
           /\ \A r \in Runs : /\ run[r] # "idle" => run'[r] # "idle"
                              /\ lines[r] \in Nat /\ lines'[r] \in Nat /\ lines[r] <= lines'[r]
                              /\ handler[r] = "finished" => handler'[r] = "finished"
<1> DEFINE Good == /\ host' = host
                   /\ \A r \in Runs : /\ run[r] # "idle" => run'[r] # "idle"
                                      /\ lines[r] <= lines'[r]
                                      /\ handler[r] = "finished" => handler'[r] = "finished"
<1>1. \A r \in Runs : lines[r] \in Nat /\ lines'[r] \in Nat
  BY RemoteTypeStep DEF RemoteTypeOK
<1>2. ASSUME NEW q \in Runs, Cli(q)
      PROVE  Good
  BY <1>1, <1>2 DEF Cli, Quits, Exit, Dials, Passes, Requests, Turns, agentVars, RemoteTypeOK
<1>3. ASSUME NEW q \in Runs, HandlerSteps(q)
      PROVE  Good
  <2>1. UNCHANGED <<host, run>> /\ handler[q] # "finished"
    BY <1>3 DEF HandlerSteps, Acknowledge, Refuse, Stream, Finish, HandlerStep, cliVars
  <2>2. \A r \in Runs \ {q} : handler'[r] = handler[r]
    BY <1>3 DEF HandlerSteps, Acknowledge, Refuse, Stream, Finish, HandlerStep, RemoteTypeOK
  <2>3. lines' = lines \/ lines' = [lines EXCEPT ![q] = @ + 1]
    BY <1>3 DEF HandlerSteps, Acknowledge, Refuse, Stream, Finish
  <2>4. \A r \in Runs : lines[r] <= lines'[r]
    <3>1. lines \in [Runs -> Nat]
      BY DEF RemoteTypeOK
    <3>2. \A r \in Runs : lines'[r] = lines[r] \/ lines'[r] = lines[r] + 1
      BY <2>3, <3>1
    <3> QED
      BY <1>1, <3>2
  <2> QED
    BY <2>1, <2>2, <2>4
<1>4. ASSUME NEW q \in Runs, Relays(q)
      PROVE  Good
  <2>1. RelayTakes(q)
    BY <1>4 DEF Relays, RelayAccepts, RelayRefuses, RelayForwards, RelayLists
  <2>2. UNCHANGED <<host, run, lines>> /\ up[q] # <<>> /\ Head(up[q]).of = q
    BY <2>1 DEF RelayTakes, cliVars, RunInv, RunOK
  <2>3. handler' = handler \/ (handler[q] = "none" /\ handler' = [handler EXCEPT ![q] = "started"])
    BY <1>4, <2>2
       DEF Relays, RelayAccepts, RelayRefuses, RelayForwards, RelayLists, Serve, RunInv, RunOK, AuthPending
  <2> QED
    BY <1>1, <2>2, <2>3 DEF RemoteTypeOK
<1>5. ASSUME UNCHANGED <<host, run, lines, handler>>
      PROVE  Good
  BY <1>1, <1>5
<1>6. ASSUME NEW q \in Runs, RelayForgets(q)
      PROVE  Good
  BY <1>5, <1>6 DEF RelayForgets, cliVars, agentVars
<1> QED
  BY <1>1, <1>2, <1>3, <1>4, <1>5, <1>6, RemoteSteps
     DEF RelayDelivers, AgentLost, AgentReturns, vars, cliVars, agentVars

LEMMA SoundStep ==
    ASSUME RemoteTypeOK, RunInv, [RemoteNext]_vars, NEW f \in Frames, Sound(f)
    PROVE  Sound(f)'
<1>1. f.of \in Runs /\ f.line \in Nat
  BY DEF Frames
<1>2. lines[f.of] \in Nat /\ lines'[f.of] \in Nat /\ lines[f.of] <= lines'[f.of]
  BY <1>1, Monotone
<1>3. f.line \in 1..lines[f.of] => f.line \in 1..lines'[f.of]
  BY <1>2
<1> QED
  BY <1>1, <1>3, Monotone DEF Sound

\* A frame the agent sends.
New(f) ==
    /\ run[f.of] # "idle"
    /\ f.type = "STREAM_DATA" =>
         /\ handler[f.of] # "finished"
         /\ f.line = lines[f.of] + 1 /\ lines'[f.of] = lines[f.of] + 1
    /\ f.type = "COMMAND_RESULT" => handler'[f.of] = "finished"

\* A frame of the relay's own.
Relayed(r, f) ==
    f.of = r /\ f.type \in {"AUTH_OK", "AUTH_FAILED", "ERROR", "AGENT_LIST"} /\ run[r] # "idle"

\* What a step does to the way from the agent to run r.
Still(r) == printed'[r] = printed[r] /\ down'[r] = down[r] /\ agentOut' = agentOut
Emits(r) ==
    /\ printed'[r] = printed[r] /\ down'[r] = down[r]
    /\ \E f \in Frames : New(f) /\ agentOut' = Append(agentOut, f)
Prints(r) ==
    /\ run[r] = "read" /\ down[r] # <<>> /\ Head(down[r]).type = "STREAM_DATA"
    /\ down'[r] = Tail(down[r]) /\ printed'[r] = Append(printed[r], Head(down[r]))
    /\ agentOut' = agentOut
Skips(r) ==
    /\ down[r] # <<>> /\ down'[r] = Tail(down[r])
    /\ run[r] = "auth" \/ Head(down[r]).type # "STREAM_DATA"
    /\ printed'[r] = printed[r] /\ agentOut' = agentOut
Clears(r) ==
    /\ down'[r] = <<>> /\ printed'[r] = printed[r] /\ agentOut' = agentOut
    /\ run'[r] = "done"
Tells(r) ==
    /\ printed'[r] = printed[r] /\ agentOut' = agentOut
    /\ \E f \in Frames : Relayed(r, f) /\ down'[r] = Append(down[r], f)
Delivers(r) ==
    /\ printed'[r] = printed[r]
    /\ agentOut # <<>> /\ agentOut' = Tail(agentOut)
    /\ IF table[host[Head(agentOut).of]] = r /\ link[r] = "open"
         THEN down'[r] = Append(down[r], Head(agentOut))
         ELSE down'[r] = down[r]
Loses(r) ==
    /\ printed'[r] = printed[r] /\ down'[r] = down[r]
    /\ agentOut' = <<>> /\ losses' > 0

Way(r) ==
    \/ Still(r) \/ Emits(r) \/ Prints(r) \/ Skips(r) \/ Clears(r) \/ Tells(r) \/ Delivers(r)
    \/ Loses(r)

LEMMA WayStep ==
    ASSUME RemoteTypeOK, RunInv, [RemoteNext]_vars, NEW r \in Runs
    PROVE  Way(r)
<1> USE DEF Way
<1>1. ASSUME NEW q \in Runs, Cli(q)
      PROVE  Way(r)
  <2>1. CASE q = r
    BY <1>1, <2>1
       DEF Cli, Quits, Exit, Dials, Passes, Requests, Turns, Skip, RemoteTypeOK,
           Still, Prints, Skips, Clears
  <2>2. CASE q # r
    BY <1>1, <2>2
       DEF Cli, Quits, Exit, Dials, Passes, Requests, Turns, Skip, RemoteTypeOK, Still
  <2> QED
    BY <2>1, <2>2
<1>2. ASSUME NEW q \in Runs, HandlerSteps(q)
      PROVE  Way(r)
  <2>1. UNCHANGED <<printed, down>>
    BY <1>2 DEF HandlerSteps, Acknowledge, Refuse, Stream, Finish, HandlerStep, cliVars
  <2>2. \E f \in Frames : New(f) /\ SendFrame(f)
    <3>1. run[q] # "idle"
      BY <1>2 DEF HandlerSteps, Acknowledge, Refuse, Stream, Finish, HandlerStep, RunInv, RunOK
    <3>2. CASE Acknowledge(q) \/ Refuse(q)
      BY <3>1, <3>2, FrameOK DEF Acknowledge, Refuse, New, Frame, FrameTypes
    <3>3. CASE Stream(q)
      <4>1. /\ lines[q] \in Nat /\ lines'[q] = lines[q] + 1 /\ handler[q] # "finished"
            /\ SendFrame(Line(q, lines[q] + 1))
        BY <3>3 DEF Stream, HandlerStep, RemoteTypeOK
      <4>2. Line(q, lines[q] + 1) \in Frames /\ New(Line(q, lines[q] + 1))
        BY <3>1, <4>1, FrameOK DEF New, Line
      <4> QED
        BY <4>1, <4>2
    <3>4. CASE Finish(q)
      <4>1. handler'[q] = "finished"
        BY <3>4 DEF Finish, HandlerStep, RemoteTypeOK
      <4> QED
        BY <3>1, <3>4, <4>1, FrameOK DEF Finish, New, Frame, FrameTypes
    <3> QED
      BY <1>2, <3>2, <3>3, <3>4 DEF HandlerSteps
  <2> QED
    BY <2>1, <2>2, SendFrameEffect DEF Still, Emits
<1>3. ASSUME NEW q \in Runs, Relays(q)
      PROVE  Way(r)
  <2>1. RelayTakes(q)
    BY <1>3 DEF Relays, RelayAccepts, RelayRefuses, RelayForwards, RelayLists
  <2>2. /\ up[q] # <<>> /\ Head(up[q]).of = q /\ run[q] # "idle"
        /\ printed' = printed
    BY <2>1 DEF RelayTakes, cliVars, RunInv, RunOK, AuthPending
  <2>3. \/ agentOut' = agentOut /\ down' = down
        \/ /\ agentOut' = agentOut
           /\ \E f \in Frames : Relayed(q, f) /\ SendDown(q, f)
        \/ /\ down' = down
           /\ \E f \in Frames : New(f) /\ SendFrame(f)
    <3>1. CASE RelayAccepts(q) \/ RelayRefuses(q) \/ RelayLists(q)
      BY <2>2, <3>1, FrameOK DEF RelayAccepts, RelayRefuses, RelayLists, Relayed, Frame, FrameTypes
    <3>2. CASE RelayForwards(q)
      BY <2>2, <3>2, FrameOK DEF RelayForwards, Serve, Relayed, New, Frame, FrameTypes
    <3> QED
      BY <1>3, <3>1, <3>2 DEF Relays
  <2> QED
    BY <2>2, <2>3, SendDownEffect, SendFrameEffect DEF Still, Emits, Tells
<1>4. CASE RelayDelivers
  <2>1. /\ agentOut # <<>> /\ agentOut' = Tail(agentOut) /\ printed' = printed
        /\ Head(agentOut) \in Frames
    BY <1>4, Heads DEF RelayDelivers, cliVars
  <2>2. Head(agentOut).of \in Runs /\ host[Head(agentOut).of] \in Hosts
    <3>1. Head(agentOut).of \in Runs
      BY <2>1 DEF Frames
    <3> QED
      BY <3>1 DEF RemoteTypeOK
  <2> DEFINE p == table[host[Head(agentOut).of]]
  <2>3. p \in Runs \cup {NoRun}
    BY <2>2 DEF RemoteTypeOK
  <2>4. IF p = NoRun THEN UNCHANGED down ELSE SendDown(p, Head(agentOut))
    BY <1>4 DEF RelayDelivers, Destination
  <2> HIDE DEF p
  <2>5. IF p = r /\ link[r] = "open" THEN down'[r] = Append(down[r], Head(agentOut))
                                     ELSE down'[r] = down[r]
    BY <2>1, <2>3, <2>4, SendDownEffect
  <2> QED
    BY <2>1, <2>5 DEF Delivers, p
<1>5. CASE AgentLost
  BY <1>5 DEF AgentLost, Loses, cliVars, RemoteTypeOK
<1>6. CASE AgentReturns \/ UNCHANGED vars
  BY <1>6 DEF AgentReturns, vars, cliVars, Still
<1>7. ASSUME NEW q \in Runs, RelayForgets(q)
      PROVE  Way(r)
  BY <1>7 DEF RelayForgets, cliVars, Still
<1> QED
  BY <1>1, <1>2, <1>3, <1>4, <1>5, <1>6, <1>7, RemoteSteps

\* A frame that a run of r's host is given.
Given(r, f) == Sound(f) /\ host[f.of] = host[r]

AllGiven(r, s) == \A i \in 1..Len(s) : Given(r, s[i])

LEMMA AllGivenOps ==
    ASSUME NEW r, NEW s \in Seq(Frames), AllGiven(r, s)
    PROVE  /\ \A f \in Frames : Given(r, f) => AllGiven(r, Append(s, f))
           /\ s # <<>> => AllGiven(r, Tail(s)) /\ Given(r, Head(s))
<1>1. ASSUME NEW f \in Frames, Given(r, f)
      PROVE  AllGiven(r, Append(s, f))
  BY <1>1, AppendIndex DEF AllGiven
<1>2. ASSUME s # <<>>
      PROVE  AllGiven(r, Tail(s)) /\ Given(r, Head(s))
  BY <1>2, TailIndex DEF AllGiven
<1> QED
  BY <1>1, <1>2

LEMMA FrameStep ==
    ASSUME RemoteTypeOK, RunInv, TableInv, FrameInv, [RemoteNext]_vars
    PROVE  FrameInv'
<1>t. /\ RemoteTypeOK' /\ agentOut \in Seq(Frames) /\ host \in [Runs -> Hosts]
      /\ \A r \in Runs : down[r] \in Seq(Frames) /\ printed[r] \in Seq(Frames)
  BY RemoteTypeStep DEF RemoteTypeOK
<1>h. host' = host /\ \A r \in Runs : run[r] # "idle" => run'[r] # "idle"
  BY Monotone
\* What was on its way may still be.
<1>1. ASSUME NEW r \in Runs, NEW f \in Frames, Given(r, f)
      PROVE  Given(r, f)'
  BY <1>1, <1>h, SoundStep DEF Given
<1>3. ASSUME NEW f \in Frames, New(f)
      PROVE  Sound(f)'
  <2>1. f.of \in Runs
    BY DEF Frames
  <2>2. lines[f.of] \in Nat /\ lines'[f.of] \in Nat
    BY <2>1, Monotone
  <2>3. f.type = "STREAM_DATA" => f.line \in 1..lines'[f.of]
    BY <1>3, <2>2 DEF New
  <2> QED
    BY <1>3, <1>h, <2>1, <2>3 DEF New, Sound
<1>4. ASSUME NEW r \in Runs, NEW f \in Frames, Relayed(r, f)
      PROVE  Given(r, f)
  BY <1>4 DEF Relayed, Given, Sound
<1>5. (\A i \in 1..Len(agentOut) : Sound(agentOut[i]))'
  <2>1. \A i \in 1..Len(agentOut) : agentOut[i] \in Frames /\ Sound(agentOut[i])
    BY <1>t, SeqOps DEF FrameInv
  <2>a. \A f \in Frames : Sound(f) => Sound(f)'
    BY SoundStep
  <2>2. \/ agentOut' = agentOut \/ agentOut' = <<>>
        \/ agentOut # <<>> /\ agentOut' = Tail(agentOut)
        \/ \E f \in Frames : New(f) /\ agentOut' = Append(agentOut, f)
    <3>1. CASE \E r \in Runs : TRUE
      BY <3>1, WayStep DEF Way, Still, Emits, Prints, Skips, Clears, Tells, Delivers, Loses
    <3>2. CASE Runs = {}
      BY <3>2, RemoteSteps DEF RelayDelivers, AgentLost, AgentReturns, vars
    <3> QED
      BY <3>1, <3>2
  <2>3. CASE agentOut' = <<>>
    BY <2>3
  <2>4. CASE agentOut # <<>> /\ agentOut' = Tail(agentOut)
    BY <1>t, <2>1, <2>a, <2>4, TailIndex DEF Sound
  <2>5. ASSUME NEW f \in Frames, New(f), agentOut' = Append(agentOut, f)
        PROVE  (\A i \in 1..Len(agentOut) : Sound(agentOut[i]))'
    BY <1>t, <1>3, <2>1, <2>a, <2>5, AppendIndex DEF Sound
  <2>6. CASE agentOut' = agentOut
    BY <2>1, <2>a, <2>6 DEF Sound
  <2> QED
    BY <2>2, <2>3, <2>4, <2>5, <2>6
<1>6. ASSUME NEW r \in Runs
      PROVE  /\ AllGiven(r, down'[r]) /\ AllGiven(r, printed'[r])
             /\ \A i \in 1..Len(printed'[r]) : printed'[r][i].type = "STREAM_DATA"
  <2>1. /\ AllGiven(r, down[r]) /\ AllGiven(r, printed[r]) /\ AllGiven(r, <<>>)
        /\ \A i \in 1..Len(printed[r]) : printed[r][i].type = "STREAM_DATA"
    BY DEF FrameInv, AllGiven, Given
  <2>2. down[r] # <<>> => /\ Head(down[r]) \in Frames /\ Given(r, Head(down[r]))
                          /\ AllGiven(r, Tail(down[r]))
    BY <1>t, <2>1, AllGivenOps, Heads
  <2>3. ASSUME NEW f \in Frames, Given(r, f)
        PROVE  AllGiven(r, Append(down[r], f)) /\ AllGiven(r, Append(printed[r], f))
    BY <1>t, <2>1, <2>3, AllGivenOps
  <2>4. ASSUME agentOut # <<>>, table[host[Head(agentOut).of]] = r
        PROVE  Head(agentOut) \in Frames /\ Given(r, Head(agentOut))
    <3>1. Head(agentOut) \in Frames /\ Sound(Head(agentOut))
      BY <1>t, <2>4, TailIndex, Heads DEF FrameInv
    <3>2. host[Head(agentOut).of] \in Hosts
      BY <1>t, <3>1 DEF Frames
    <3> QED
      BY <2>4, <3>1, <3>2 DEF TableInv, Given
  <2>5. CASE Prints(r)
    <3>1. down[r] # <<>> /\ Head(down[r]).type = "STREAM_DATA"
          /\ down'[r] = Tail(down[r]) /\ printed'[r] = Append(printed[r], Head(down[r]))
      BY <2>5 DEF Prints
    <3>2. \A i \in 1..Len(printed'[r]) : printed'[r][i].type = "STREAM_DATA"
      BY <1>t, <2>1, <2>2, <3>1, AppendIndex
    <3> QED
      BY <2>2, <2>3, <3>1, <3>2
  <2>6. CASE ~Prints(r)
    <3>1. printed'[r] = printed[r]
      BY <2>6, WayStep DEF Way, Still, Emits, Skips, Clears, Tells, Delivers, Loses
    <3>2. AllGiven(r, down'[r])
      BY <1>4, <2>1, <2>2, <2>3, <2>4, <2>6, WayStep
         DEF Way, Still, Emits, Skips, Clears, Tells, Delivers, Loses
    <3> QED
      BY <2>1, <3>1, <3>2
  <2> QED
    BY <2>5, <2>6
<1>7. ASSUME NEW r \in Runs, exit'[r].of # NoRun
      PROVE  run'[exit'[r].of] # "idle" /\ host[exit'[r].of] = host[r]
  <2>1. CASE exit'[r] = exit[r]
    <3>1. exit[r].of \in Runs
      BY <1>7, <2>1 DEF RemoteTypeOK
    <3> QED
      BY <1>h, <1>7, <2>1, <3>1 DEF FrameInv
  <2>2. ASSUME NEW q \in Runs, Cli(q)
        PROVE  \/ exit'[r] = exit[r]
               \/ exit'[r].of = r /\ run'[r] # "idle"
               \/ down[r] # <<>> /\ exit'[r].of = Head(down[r]).of
    BY <2>2 DEF Cli, Quits, Exit, Dials, Passes, Requests, Turns, RemoteTypeOK
  <2>3. \/ exit'[r] = exit[r]
        \/ exit'[r].of = r /\ run'[r] # "idle"
        \/ down[r] # <<>> /\ exit'[r].of = Head(down[r]).of
    BY <2>2, RemoteSteps
       DEF HandlerSteps, Acknowledge, Refuse, Stream, Finish, HandlerStep, Relays, RelayAccepts,
           RelayRefuses, RelayForwards, RelayLists, RelayTakes, RelayForgets, RelayDelivers, AgentLost,
           AgentReturns, vars, cliVars
  <2>4. CASE down[r] # <<>> /\ exit'[r].of = Head(down[r]).of
    <3>1. Head(down[r]) \in Frames /\ Given(r, Head(down[r]))
      <4>1. AllGiven(r, down[r])
        BY DEF FrameInv, AllGiven, Given
      <4> QED
        BY <1>t, <2>4, <4>1, AllGivenOps, Heads
    <3> QED
      BY <1>h, <2>4, <3>1 DEF Given, Sound, Frames
  <2> QED
    BY <2>1, <2>3, <2>4
<1>8. ASSUME NEW r \in Runs
      PROVE  (AllGiven(r, down[r]) /\ AllGiven(r, printed[r]))'
  <2>1. down'[r] \in Seq(Frames) /\ printed'[r] \in Seq(Frames)
    BY <1>t DEF RemoteTypeOK
  <2>2. /\ \A i \in 1..Len(down'[r]) : down'[r][i] \in Frames
        /\ \A i \in 1..Len(printed'[r]) : printed'[r][i] \in Frames
    BY <2>1, SeqOps
  <2>3. ASSUME NEW i \in 1..Len(down'[r])
        PROVE  Given(r, down[r][i])'
    <3>1. down'[r][i] \in Frames /\ Given(r, down'[r][i])
      BY <1>6, <2>2 DEF AllGiven
    <3> QED
      BY <1>1, <3>1 DEF Given, Sound
  <2>4. ASSUME NEW i \in 1..Len(printed'[r])
        PROVE  Given(r, printed[r][i])'
    <3>1. printed'[r][i] \in Frames /\ Given(r, printed'[r][i])
      BY <1>6, <2>2 DEF AllGiven
    <3> QED
      BY <1>1, <3>1 DEF Given, Sound
  <2> QED
    BY <2>3, <2>4 DEF AllGiven
<1> QED
  BY <1>h, <1>5, <1>6, <1>7, <1>8 DEF FrameInv, AllGiven, Given

-----------------------------------------------------------------------------
(* The order of lines. *)

LEMMA SortedOps ==
    ASSUME NEW r, NEW s \in Seq(Frames), Sorted(r, s)
    PROVE  /\ \A f \in Frames : (\A i \in 1..Len(s) : Follows(r, s[i], f)) => Sorted(r, Append(s, f))
           /\ s # <<>> => /\ Sorted(r, Tail(s))
                          /\ \A i \in 1..Len(Tail(s)) : Follows(r, Head(s), Tail(s)[i])
<1>1. ASSUME NEW f \in Frames, \A i \in 1..Len(s) : Follows(r, s[i], f)
      PROVE  Sorted(r, Append(s, f))
  <2> DEFINE t == Append(s, f)
  <2>1. /\ Len(s) \in Nat /\ Len(t) = Len(s) + 1
        /\ \A i \in 1..Len(t) : \/ i \in 1..Len(s) /\ t[i] = s[i]
                                \/ i = Len(s) + 1 /\ t[i] = f
    BY AppendIndex
  <2> HIDE DEF t
  <2>2. ASSUME NEW i \in 1..Len(t), NEW j \in 1..Len(t), i < j
        PROVE  Follows(r, t[i], t[j])
    <3>1. i \in 1..Len(s) /\ t[i] = s[i]
      BY <2>1, <2>2
    <3> QED
      BY <1>1, <2>1, <2>2, <3>1 DEF Sorted
  <2>3. Sorted(r, t)
    BY <2>2 DEF Sorted
  <2> QED
    BY <2>3 DEF t
<1>2. ASSUME s # <<>>
      PROVE  /\ Sorted(r, Tail(s))
             /\ \A i \in 1..Len(Tail(s)) : Follows(r, Head(s), Tail(s)[i])
  <2> DEFINE t == Tail(s)
  <2>1. /\ Len(s) \in Nat /\ Len(t) \in Nat /\ 1 \in 1..Len(s) /\ s[1] = Head(s)
        /\ \A i \in 1..Len(t) : i + 1 \in 1..Len(s) /\ t[i] = s[i + 1]
    BY <1>2, TailIndex
  <2> HIDE DEF t
  <2>2. \A i, j \in 1..Len(t) : i < j => i + 1 < j + 1
    BY <2>1
  <2>3. Sorted(r, t)
    BY <2>1, <2>2 DEF Sorted
  <2>4. \A i \in 1..Len(t) : 1 < i + 1
    BY <2>1
  <2>5. \A i \in 1..Len(t) : Follows(r, s[1], s[i + 1])
    BY <2>1, <2>4 DEF Sorted
  <2> QED
    BY <2>1, <2>3, <2>5 DEF t
<1> QED
  BY <1>1, <1>2

LEMMA BeforeOps ==
    ASSUME NEW r, NEW s \in Seq(Frames), NEW t \in Seq(Frames), Before(r, s, t)
    PROVE  /\ \A f \in Frames : /\ (\A i \in 1..Len(s) : Follows(r, s[i], f)) => Before(r, s, Append(t, f))
                                /\ (\A j \in 1..Len(t) : Follows(r, f, t[j])) => Before(r, Append(s, f), t)
           /\ s # <<>> => /\ Before(r, Tail(s), t)
                          /\ \A j \in 1..Len(t) : Follows(r, Head(s), t[j])
           /\ t # <<>> => /\ Before(r, s, Tail(t))
                          /\ \A i \in 1..Len(s) : Follows(r, s[i], Head(t))
<1>1. ASSUME NEW f \in Frames, \A i \in 1..Len(s) : Follows(r, s[i], f)
      PROVE  Before(r, s, Append(t, f))
  BY <1>1, AppendIndex DEF Before
<1>2. ASSUME NEW f \in Frames, \A j \in 1..Len(t) : Follows(r, f, t[j])
      PROVE  Before(r, Append(s, f), t)
  BY <1>2, AppendIndex DEF Before
<1>3. ASSUME s # <<>>
      PROVE  Before(r, Tail(s), t) /\ \A j \in 1..Len(t) : Follows(r, Head(s), t[j])
  BY <1>3, TailIndex DEF Before
<1>4. ASSUME t # <<>>
      PROVE  Before(r, s, Tail(t)) /\ \A i \in 1..Len(s) : Follows(r, s[i], Head(t))
  BY <1>4, TailIndex DEF Before
<1> QED
  BY <1>1, <1>2, <1>3, <1>4

LEMMA OrderStep ==
    ASSUME RemoteTypeOK, RunInv, FrameInv, OrderInv, [RemoteNext]_vars
    PROVE  OrderInv'
<1>1. SUFFICES ASSUME NEW r \in Runs
               PROVE  /\ Sorted(r, printed'[r]) /\ Sorted(r, down'[r]) /\ Sorted(r, agentOut')
                      /\ Before(r, printed'[r], down'[r])
                      /\ Before(r, printed'[r], agentOut')
                      /\ Before(r, down'[r], agentOut')
  BY DEF OrderInv, Sorted, Before, Follows
<1> DEFINE p == printed[r]
           d == down[r]
           a == agentOut
           p2 == printed'[r]
           d2 == down'[r]
           a2 == agentOut'
<1> DEFINE Goal == /\ Sorted(r, p2) /\ Sorted(r, d2) /\ Sorted(r, a2)
                   /\ Before(r, p2, d2) /\ Before(r, p2, a2) /\ Before(r, d2, a2)
<1>2. /\ Sorted(r, p) /\ Sorted(r, d) /\ Sorted(r, a)
      /\ Before(r, p, d) /\ Before(r, p, a) /\ Before(r, d, a)
  BY DEF OrderInv
<1>3. p \in Seq(Frames) /\ d \in Seq(Frames) /\ a \in Seq(Frames)
  BY DEF RemoteTypeOK
<1>4. /\ \A i \in 1..Len(p) : p[i] \in Frames /\ Sound(p[i])
      /\ \A i \in 1..Len(d) : d[i] \in Frames /\ Sound(d[i])
      /\ \A i \in 1..Len(a) : a[i] \in Frames /\ Sound(a[i])
  BY <1>3, SeqOps DEF FrameInv
<1>5. ASSUME NEW f \in Frames, New(f), NEW g \in Frames, Sound(g)
      PROVE  Follows(r, g, f)
  <2>1. lines[r] \in Nat /\ g.line \in Nat
    BY DEF RemoteTypeOK, Frames
  <2> QED
    BY <1>5, <2>1 DEF New, Sound, Follows
<1>6. ASSUME NEW f \in Frames, Relayed(r, f), NEW g
      PROVE  Follows(r, g, f) /\ Follows(r, f, g)
  BY <1>6 DEF Relayed, Follows
<1>7. /\ d # <<>> => Head(d) \in Frames /\ Tail(d) \in Seq(Frames)
      /\ a # <<>> => Head(a) \in Frames /\ Tail(a) \in Seq(Frames)
      /\ Sorted(r, <<>>) /\ \A s : Before(r, s, <<>>) /\ Before(r, <<>>, s)
  BY Heads DEF Sorted, Before
<1>8. CASE Still(r)
  BY <1>2, <1>8 DEF Still
<1>9. CASE Emits(r)
  <2>1. PICK f \in Frames : New(f) /\ p2 = p /\ d2 = d /\ a2 = Append(a, f)
    BY <1>9 DEF Emits
  <2>2. /\ \A i \in 1..Len(p) : Follows(r, p[i], f)
        /\ \A i \in 1..Len(d) : Follows(r, d[i], f)
        /\ \A i \in 1..Len(a) : Follows(r, a[i], f)
    BY <1>4, <1>5, <2>1
  <2> HIDE DEF p, d, a, p2, d2, a2
  <2>3. Sorted(r, a2)
    BY <1>2, <1>3, <2>1, <2>2, SortedOps
  <2>4. Before(r, p2, a2)
    BY <1>2, <1>3, <2>1, <2>2, BeforeOps
  <2>5. Before(r, d2, a2)
    BY <1>2, <1>3, <2>1, <2>2, BeforeOps
  <2>6. Goal
    BY <1>2, <2>1, <2>3, <2>4, <2>5
  <2> QED
    BY <2>6 DEF p2, d2, a2
<1>10. CASE Prints(r)
  <2>1. d # <<>> /\ d2 = Tail(d) /\ p2 = Append(p, Head(d)) /\ a2 = a
    BY <1>10 DEF Prints
  <2> HIDE DEF p, d, a, p2, d2, a2
  <2>2. Sorted(r, d2) /\ \A i \in 1..Len(d2) : Follows(r, Head(d), d2[i])
    BY <1>2, <1>3, <2>1, SortedOps
  <2>3. Before(r, p, d2) /\ \A i \in 1..Len(p) : Follows(r, p[i], Head(d))
    BY <1>2, <1>3, <2>1, BeforeOps
  <2>4. Before(r, d2, a) /\ \A j \in 1..Len(a) : Follows(r, Head(d), a[j])
    BY <1>2, <1>3, <2>1, BeforeOps
  <2>5. Sorted(r, p2)
    BY <1>2, <1>3, <1>7, <2>1, <2>3, SortedOps
  <2>6. Before(r, p2, d2)
    BY <1>3, <1>7, <2>1, <2>2, <2>3, BeforeOps
  <2>7. Before(r, p2, a)
    BY <1>2, <1>3, <1>7, <2>1, <2>4, BeforeOps
  <2>8. Goal
    BY <1>2, <2>1, <2>2, <2>4, <2>5, <2>6, <2>7
  <2> QED
    BY <2>8 DEF p2, d2, a2
<1>11. CASE Skips(r)
  <2>1. d # <<>> /\ d2 = Tail(d) /\ p2 = p /\ a2 = a
    BY <1>11 DEF Skips
  <2> HIDE DEF p, d, a, p2, d2, a2
  <2>2. Sorted(r, d2)
    BY <1>2, <1>3, <2>1, SortedOps
  <2>3. Before(r, p, d2)
    BY <1>2, <1>3, <2>1, BeforeOps
  <2>4. Before(r, d2, a)
    BY <1>2, <1>3, <2>1, BeforeOps
  <2>5. Goal
    BY <1>2, <2>1, <2>2, <2>3, <2>4
  <2> QED
    BY <2>5 DEF p2, d2, a2
<1>12. CASE Clears(r)
  BY <1>2, <1>7, <1>12 DEF Clears
<1>13. CASE Tells(r)
  <2>1. PICK f \in Frames : Relayed(r, f) /\ p2 = p /\ d2 = Append(d, f) /\ a2 = a
    BY <1>13 DEF Tells
  <2> HIDE DEF p, d, a, p2, d2, a2
  <2>2. Sorted(r, d2)
    BY <1>2, <1>3, <1>6, <2>1, SortedOps
  <2>3. Before(r, p, d2)
    BY <1>2, <1>3, <1>6, <2>1, BeforeOps
  <2>4. Before(r, d2, a)
    BY <1>2, <1>3, <1>6, <2>1, BeforeOps
  <2>5. Goal
    BY <1>2, <2>1, <2>2, <2>3, <2>4
  <2> QED
    BY <2>5 DEF p2, d2, a2
<1>14. CASE Delivers(r)
  <2>1. /\ a # <<>> /\ p2 = p /\ a2 = Tail(a) /\ (d2 = d \/ d2 = Append(d, Head(a)))
    BY <1>14 DEF Delivers
  <2> HIDE DEF p, d, a, p2, d2, a2
  <2>2. Sorted(r, a2) /\ \A i \in 1..Len(a2) : Follows(r, Head(a), a2[i])
    BY <1>2, <1>3, <2>1, SortedOps
  <2>3. Before(r, p, a2) /\ \A i \in 1..Len(p) : Follows(r, p[i], Head(a))
    BY <1>2, <1>3, <2>1, BeforeOps
  <2>4. Before(r, d, a2) /\ \A i \in 1..Len(d) : Follows(r, d[i], Head(a))
    BY <1>2, <1>3, <2>1, BeforeOps
  <2>5. CASE d2 = d
    <3>1. Goal
      BY <1>2, <2>1, <2>2, <2>3, <2>4, <2>5
    <3> QED
      BY <3>1 DEF p2, d2, a2
  <2>6. CASE d2 = Append(d, Head(a))
    <3>1. Sorted(r, d2)
      BY <1>2, <1>3, <1>7, <2>1, <2>4, <2>6, SortedOps
    <3>2. Before(r, p, d2)
      BY <1>2, <1>3, <1>7, <2>1, <2>3, <2>6, BeforeOps
    <3>3. Before(r, d2, a2)
      BY <1>3, <1>7, <2>1, <2>2, <2>4, <2>6, BeforeOps
    <3>4. Goal
      BY <1>2, <2>1, <2>2, <2>3, <3>1, <3>2, <3>3
    <3> QED
      BY <3>4 DEF p2, d2, a2
  <2> QED
    BY <2>1, <2>5, <2>6
<1>15. CASE Loses(r)
  BY <1>2, <1>7, <1>15 DEF Loses
<1> QED
  BY <1>8, <1>9, <1>10, <1>11, <1>12, <1>13, <1>14, <1>15, WayStep DEF Way

-----------------------------------------------------------------------------
(* The way back to a run. *)

\* A sole run stays so only if it was.
LEMMA SoleBefore ==
    ASSUME RemoteTypeOK, RunInv, [RemoteNext]_vars, NEW r \in Runs, SoleUser(r)'
    PROVE  SoleUser(r)
BY Monotone DEF SoleUser

\* The other runs do nothing to the connection of a sole one, nor to its entry.
LEMMA OthersLeaveRoute ==
    ASSUME RemoteTypeOK, RunInv, TableInv, NEW r \in Runs, SoleUser(r), NEW q \in Runs, q # r,
           Cli(q) \/ HandlerSteps(q) \/ Relays(q) \/ RelayForgets(q)
    PROVE  link'[r] = link[r] /\ (table[host[r]] = r => table'[host[r]] = r)
<1>t. host[r] \in Hosts /\ host[q] \in Hosts
  BY DEF RemoteTypeOK
<1>1. CASE Cli(q)
  BY <1>1 DEF Cli, Quits, Exit, Dials, Passes, Requests, Turns, RemoteTypeOK
<1>2. CASE HandlerSteps(q)
  BY <1>2 DEF HandlerSteps, Acknowledge, Refuse, Stream, Finish, HandlerStep
<1>3. CASE RelayAccepts(q)
  <2>1. run[q] # "idle" /\ table' = [table EXCEPT ![host[q]] = q]
    BY <1>3 DEF RelayAccepts, RelayTakes, RunInv, RunOK, AuthPending
  <2>2. host[q] # host[r]
    BY <2>1 DEF SoleUser
  <2>3. table[host[q]] # r
    BY <1>t, <2>2 DEF TableInv, RemoteTypeOK
  <2>4. \/ link' = link
        \/ table[host[q]] # NoRun /\ link' = [link EXCEPT ![table[host[q]]] = "closed"]
    BY <1>3 DEF RelayAccepts
  <2> QED
    BY <1>t, <2>1, <2>2, <2>3, <2>4 DEF RemoteTypeOK
<1>4. CASE RelayRefuses(q) \/ RelayForwards(q) \/ RelayLists(q)
  BY <1>4 DEF RelayRefuses, RelayForwards, RelayLists, RemoteTypeOK
<1>5. CASE RelayForgets(q)
  BY <1>t, <1>5 DEF RelayForgets, RemoteTypeOK
<1> QED
  BY <1>1, <1>2, <1>3, <1>4, <1>5 DEF Relays

LEMMA RouteStep ==
    ASSUME RemoteTypeOK, RunInv, TableInv, RouteInv, [RemoteNext]_vars
    PROVE  RouteInv'
<1>1. ~online' => losses' > 0
  <2>1. CASE AgentLost
    BY <2>1 DEF AgentLost, RemoteTypeOK
  <2>2. CASE AgentReturns
    BY <2>2 DEF AgentReturns
  <2>3. CASE UNCHANGED <<online, losses>>
    BY <2>3 DEF RouteInv
  <2>4. ASSUME NEW r \in Runs, Cli(r) \/ HandlerSteps(r) \/ Relays(r) \/ RelayForgets(r)
        PROVE  UNCHANGED <<online, losses>>
    BY <2>4
       DEF Cli, HandlerSteps, Acknowledge, Refuse, Stream, Finish, HandlerStep, Relays, RelayAccepts,
           RelayRefuses, RelayForwards, RelayLists, RelayTakes, RelayForgets, agentVars
  <2> QED
    BY <2>1, <2>2, <2>3, <2>4, RemoteSteps DEF RelayDelivers, vars, agentVars
<1>2. SUFFICES ASSUME NEW r \in Runs, SoleUser(r)'
               PROVE  RouteOK(r)'
  BY <1>1 DEF RouteInv
<1>3. SoleUser(r)
  BY <1>2, SoleBefore
<1>4. RouteOK(r) /\ RunOK(r)
  BY <1>3 DEF RouteInv, RunInv
<1>5. \A q \in Runs : up[q] # <<>> => Head(up[q]).of = q
  BY DEF RunInv, RunOK
<1>6. ASSUME /\ UNCHANGED host /\ run'[r] = run[r] /\ up'[r] = up[r] /\ link'[r] = link[r]
             /\ handler[r] = "none" => handler'[r] = "none"
             /\ table[host[r]] = r => table'[host[r]] = r
      PROVE  RouteOK(r)'
  BY <1>4, <1>6 DEF RouteOK, AuthPending
<1>7. ASSUME NEW q \in Runs, q # r, Cli(q) \/ HandlerSteps(q) \/ Relays(q)
      PROVE  RouteOK(r)'
  BY <1>3, <1>5, <1>6, <1>7, OthersRest, OthersLeaveRoute DEF Rests
<1>8. CASE Cli(r)
  <2>1. UNCHANGED <<host, table, handler>>
    BY <1>8 DEF Cli, agentVars
  <2>2. CASE Quits(r)
    <3>1. run'[r] = "done"
      BY <2>2 DEF Quits, Exit, RemoteTypeOK
    <3> QED
      BY <3>1 DEF RouteOK
  <2>3. CASE Dials(r)
    <3>1. /\ run[r] = "idle" /\ run'[r] = "auth" /\ link'[r] = "open"
          /\ up'[r] = Append(up[r], Frame("AUTH_REQUEST", r))
      BY <2>3 DEF Dials, RemoteTypeOK
    <3>2. up[r] = <<>>
      BY <1>4, <3>1 DEF RunOK, AuthPending
    <3>3. up'[r] = <<Frame("AUTH_REQUEST", r)>>
      BY <3>1, <3>2
    <3>4. up'[r] # <<>> /\ Head(up'[r]).type = "AUTH_REQUEST"
      BY <3>3 DEF Frame
    <3> QED
      BY <3>1, <3>4 DEF RouteOK, AuthPending
  <2>4. CASE Passes(r)
    <3>1. /\ run[r] = "auth" /\ run'[r] = "send" /\ down[r] # <<>>
          /\ UNCHANGED <<up, link>>
      BY <2>4 DEF Passes, RemoteTypeOK
    <3> QED
      BY <1>4, <2>1, <3>1 DEF RouteOK, RunOK, AuthPending
  <2>5. CASE Requests(r)
    <3>1. /\ run[r] = "send" /\ run'[r] = "read" /\ UNCHANGED link
          /\ up'[r] # up[r] => link[r] = "open"
      BY <2>5 DEF Requests, Write, RemoteTypeOK
    <3>2. up[r] = <<>> /\ handler[r] = "none"
      BY <1>4, <3>1 DEF RunOK, AuthPending
    <3>3. ~AuthPending(r)
      BY <3>2 DEF AuthPending
    <3> QED
      BY <1>4, <2>1, <3>1, <3>2, <3>3 DEF RouteOK
  <2>6. CASE Turns(r)
    BY <1>6, <2>1, <2>6 DEF Turns
  <2> QED
    BY <1>8, <2>2, <2>3, <2>4, <2>5, <2>6 DEF Cli
<1>9. CASE HandlerSteps(r)
  BY <1>6, <1>9 DEF HandlerSteps, Acknowledge, Refuse, Stream, Finish, HandlerStep, cliVars
<1>10. CASE Relays(r)
  <2>1. up[r] # <<>> /\ UNCHANGED <<host, run>>
    BY <1>10 DEF Relays, RelayAccepts, RelayRefuses, RelayForwards, RelayLists, RelayTakes, cliVars
  <2>2. CASE RelayAccepts(r)
    <3>1. AuthPending(r) /\ host[r] \in Hosts
      BY <2>1, <2>2 DEF RelayAccepts, AuthPending, RemoteTypeOK
    <3>2. run[r] \in {"auth", "done"}
      BY <1>4, <3>1 DEF RunOK
    <3>3. table'[host[r]] = r
      BY <2>2, <3>1 DEF RelayAccepts, RemoteTypeOK
    <3> QED
      BY <2>1, <3>2, <3>3 DEF RouteOK
  <2>3. CASE RelayRefuses(r)
    <3>1. AuthPending(r) /\ link'[r] = "closed"
      BY <2>1, <2>3 DEF RelayRefuses, AuthPending, RemoteTypeOK
    <3>2. run[r] \in {"auth", "done"}
      BY <1>4, <3>1 DEF RunOK
    <3> QED
      BY <2>1, <3>1, <3>2 DEF RouteOK
  <2>4. CASE RelayForwards(r) \/ RelayLists(r)
    <3>1. ~AuthPending(r) /\ UNCHANGED <<link, table>>
      BY <2>4 DEF RelayForwards, RelayLists, AuthPending
    <3> QED
      BY <1>4, <2>1, <3>1 DEF RouteOK
  <2> QED
    BY <1>10, <2>2, <2>3, <2>4 DEF Relays
<1>11. ASSUME NEW q \in Runs, RelayForgets(q)
       PROVE  RouteOK(r)'
  <2>1. UNCHANGED <<host, run, up, link, handler>>
    BY <1>11 DEF RelayForgets, cliVars, agentVars
  <2>2. CASE q = r
    BY <1>4, <1>11, <2>1, <2>2 DEF RelayForgets, RouteOK
  <2>3. CASE q # r
    BY <1>3, <1>6, <1>11, <2>1, <2>3, OthersLeaveRoute
  <2> QED
    BY <2>2, <2>3
<1>12. CASE RelayDelivers \/ AgentLost \/ AgentReturns \/ UNCHANGED vars
  BY <1>6, <1>12 DEF RelayDelivers, AgentLost, AgentReturns, vars, cliVars, agentVars
<1> QED
  BY <1>7, <1>8, <1>9, <1>10, <1>11, <1>12, RemoteSteps

-----------------------------------------------------------------------------
(* The lines of a command. *)

LEMMA HasLineOps ==
    ASSUME NEW r, NEW n, NEW s \in Seq(Frames)
    PROVE  /\ \A f \in Frames : HasLine(s, r, n) \/ IsLine(f, r, n) => HasLine(Append(s, f), r, n)
           /\ s # <<>> /\ HasLine(s, r, n) => IsLine(Head(s), r, n) \/ HasLine(Tail(s), r, n)
<1>1. ASSUME NEW f \in Frames, HasLine(s, r, n) \/ IsLine(f, r, n)
      PROVE  HasLine(Append(s, f), r, n)
  <2> DEFINE t == Append(s, f)
  <2>1. /\ Len(s) \in Nat /\ Len(t) = Len(s) + 1 /\ t[Len(s) + 1] = f
        /\ \A i \in 1..Len(s) : t[i] = s[i]
    BY SeqOps
  <2> HIDE DEF t
  <2>2. CASE IsLine(f, r, n)
    <3>1. Len(s) + 1 \in 1..Len(t)
      BY <2>1
    <3>2. HasLine(t, r, n)
      BY <2>1, <2>2, <3>1 DEF HasLine
    <3> QED
      BY <3>2 DEF t
  <2>3. CASE HasLine(s, r, n)
    <3>1. PICK i \in 1..Len(s) : IsLine(s[i], r, n)
      BY <2>3 DEF HasLine
    <3>2. i \in 1..Len(t) /\ t[i] = s[i]
      BY <2>1
    <3>3. HasLine(t, r, n)
      BY <3>1, <3>2 DEF HasLine
    <3> QED
      BY <3>3 DEF t
  <2> QED
    BY <1>1, <2>2, <2>3
<1>2. ASSUME s # <<>>, HasLine(s, r, n)
      PROVE  IsLine(Head(s), r, n) \/ HasLine(Tail(s), r, n)
  <2> DEFINE t == Tail(s)
  <2>1. /\ Len(s) \in Nat /\ Len(t) = Len(s) - 1 /\ s[1] = Head(s)
        /\ \A i \in 1..Len(t) : t[i] = s[i + 1]
    BY <1>2, SeqOps
  <2> HIDE DEF t
  <2>2. PICK i \in 1..Len(s) : IsLine(s[i], r, n)
    BY <1>2 DEF HasLine
  <2>3. CASE i = 1
    BY <2>1, <2>2, <2>3
  <2>4. CASE i # 1
    <3>1. i - 1 \in 1..Len(t) /\ t[i - 1] = s[i]
      <4>1. i - 1 \in 1..Len(t) /\ (i - 1) + 1 = i
        BY <2>1, <2>4
      <4> QED
        BY <2>1, <4>1
    <3>2. HasLine(t, r, n)
      BY <2>2, <3>1 DEF HasLine
    <3> QED
      BY <3>2 DEF t
  <2> QED
    BY <2>3, <2>4
<1> QED
  BY <1>1, <1>2

\* Whatever a sole run has been given is its own.
LEMMA OwnFrames ==
    ASSUME RemoteTypeOK, FrameInv, NEW r \in Runs, SoleUser(r)
    PROVE  /\ \A i \in 1..Len(printed[r]) : printed[r][i].of = r
           /\ \A i \in 1..Len(down[r]) : down[r][i].of = r
           /\ exit[r].of \in {r, NoRun}
<1>1. /\ \A i \in 1..Len(printed[r]) : printed[r][i] \in Frames
      /\ \A i \in 1..Len(down[r]) : down[r][i] \in Frames
  <2>1. printed[r] \in Seq(Frames) /\ down[r] \in Seq(Frames)
    BY DEF RemoteTypeOK
  <2> QED
    BY <2>1, SeqOps
<1>2. ASSUME NEW q \in Runs, host[q] = host[r], run[q] # "idle"
      PROVE  q = r
  BY <1>2 DEF SoleUser
<1>3. exit[r].of \in {r, NoRun}
  <2>1. exit[r].of \in Runs \cup {NoRun}
    BY DEF RemoteTypeOK
  <2> QED
    BY <1>2, <2>1 DEF FrameInv
<1>4. \A i \in 1..Len(printed[r]) : printed[r][i].of = r
  <2>1. ASSUME NEW i \in 1..Len(printed[r])
        PROVE  run[printed[r][i].of] # "idle" /\ host[printed[r][i].of] = host[r]
    BY <2>1 DEF FrameInv, Sound
  <2> QED
    BY <1>1, <1>2, <2>1 DEF Frames
<1>5. \A i \in 1..Len(down[r]) : down[r][i].of = r
  <2>1. ASSUME NEW i \in 1..Len(down[r])
        PROVE  run[down[r][i].of] # "idle" /\ host[down[r][i].of] = host[r]
    BY <2>1 DEF FrameInv, Sound
  <2> QED
    BY <1>1, <1>2, <2>1 DEF Frames
<1> QED
  BY <1>3, <1>4, <1>5

\* While the agent is connected, a line its command prints is sent.
LEMMA LinesStep ==
    ASSUME RemoteTypeOK, RunInv, [RemoteNext]_vars, online, NEW r \in Runs
    PROVE  \/ lines'[r] = lines[r]
           \/ /\ lines'[r] = lines[r] + 1 /\ handler[r] # "finished"
              /\ printed' = printed /\ down' = down /\ run' = run /\ exit' = exit
              /\ \E f \in Frames : IsLine(f, r, lines[r] + 1) /\ agentOut' = Append(agentOut, f)
<1>t. lines \in [Runs -> Nat]
  BY DEF RemoteTypeOK
<1>1. CASE Stream(r)
  <2>1. /\ lines'[r] = lines[r] + 1 /\ handler[r] # "finished"
        /\ UNCHANGED <<printed, down, run, exit>>
        /\ agentOut' = Append(agentOut, Line(r, lines[r] + 1))
    BY <1>1, <1>t DEF Stream, HandlerStep, SendFrame, cliVars
  <2>2. Line(r, lines[r] + 1) \in Frames /\ IsLine(Line(r, lines[r] + 1), r, lines[r] + 1)
    <3>1. lines[r] + 1 \in Nat
      BY <1>t
    <3> QED
      BY <3>1, FrameOK DEF Line, IsLine
  <2> QED
    BY <2>1, <2>2
<1>2. ASSUME NEW q \in Runs, q # r, Stream(q)
      PROVE  lines'[r] = lines[r]
  BY <1>2, <1>t DEF Stream
<1>3. CASE UNCHANGED lines
  BY <1>3
<1>4. ASSUME NEW q \in Runs, Cli(q) \/ Relays(q) \/ RelayForgets(q)
      PROVE  UNCHANGED lines
  BY <1>4 DEF Cli, Relays, RelayAccepts, RelayRefuses, RelayForwards, RelayLists, RelayTakes,
              RelayForgets, agentVars
<1> QED
  BY <1>1, <1>2, <1>3, <1>4, RemoteSteps
     DEF HandlerSteps, Acknowledge, Refuse, Finish, RelayDelivers, AgentLost, AgentReturns, vars, agentVars

\* What a sole run has printed are its command's first lines, and the next
\* frame it reads, if it is a line, is the next one.
LEMMA NextLine ==
    ASSUME RemoteTypeOK, FrameInv, OrderInv, NEW r \in Runs, SoleUser(r), InPlace(r)
    PROVE  /\ Len(printed[r]) \in Nat /\ Len(printed[r]) <= lines[r]
           /\ down[r] # <<>> /\ (\A n \in 1..lines[r] : Covered(r, n))
              => /\ Head(down[r]).type = "STREAM_DATA" => Head(down[r]).line = Len(printed[r]) + 1
                 /\ Head(down[r]).type = "COMMAND_RESULT" => Len(printed[r]) = lines[r]
<1> DEFINE p == printed[r]
           d == down[r]
           a == agentOut
           m == Len(p)
<1>1. /\ p \in Seq(Frames) /\ d \in Seq(Frames) /\ a \in Seq(Frames)
      /\ lines[r] \in Nat /\ lines \in [Runs -> Nat]
  BY DEF RemoteTypeOK
<1>2. m \in Nat /\ Len(d) \in Nat /\ Len(a) \in Nat
  BY <1>1, SeqOps
<1>3. \A i \in 1..m : /\ p[i].of = r /\ p[i].type = "STREAM_DATA" /\ p[i].line = i
                      /\ p[i].line \in 1..lines[r]
  BY OwnFrames DEF FrameInv, Sound, InPlace
<1>4. m <= lines[r]
  <2> HIDE DEF m, p
  <2>1. CASE m = 0
    BY <1>1, <2>1
  <2>2. CASE m # 0
    BY <1>1, <1>2, <1>3, <2>2
  <2> QED
    BY <2>1, <2>2
<1>5. ASSUME d # <<>>, \A n \in 1..lines[r] : Covered(r, n)
      PROVE  /\ Head(d).type = "STREAM_DATA" => Head(d).line = m + 1
             /\ Head(d).type = "COMMAND_RESULT" => m = lines[r]
  <2> DEFINE h == Head(d)
  <2>1. h = d[1] /\ 1 \in 1..Len(d) /\ h \in Frames
    BY <1>1, <1>5, SeqOps
  <2>2. h.of = r /\ Sound(h)
    BY <2>1, OwnFrames DEF FrameInv
  <2>3. h.line \in Nat
    BY <2>1 DEF Frames
  \* A line that comes after h.
  <2>4. ASSUME NEW n, m < n, n \in 1..lines[r], h.type \in {"STREAM_DATA", "COMMAND_RESULT"}
        PROVE  h.type = "STREAM_DATA" /\ h.line <= n
    <3>1. Covered(r, n) /\ ~(n <= m)
      BY <1>2, <1>5, <2>4
    <3>2. CASE HasLine(d, r, n)
      <4>1. PICK i \in 1..Len(d) : IsLine(d[i], r, n)
        BY <3>2 DEF HasLine
      <4>2. CASE i = 1
        BY <2>1, <2>3, <4>1, <4>2 DEF IsLine
      <4>3. CASE i # 1
        <5>1. Follows(r, d[1], d[i])
          BY <2>1, <4>3 DEF OrderInv, Sorted
        <5> QED
          BY <2>1, <2>2, <2>3, <2>4, <4>1, <5>1 DEF Follows, IsLine
      <4> QED
        BY <4>2, <4>3
    <3>3. CASE HasLine(a, r, n)
      <4>1. PICK i \in 1..Len(a) : IsLine(a[i], r, n)
        BY <3>3 DEF HasLine
      <4>2. Follows(r, d[1], a[i])
        BY <2>1 DEF OrderInv, Before
      <4> QED
        BY <2>1, <2>2, <2>3, <2>4, <4>1, <4>2 DEF Follows, IsLine
    <3> QED
      BY <3>1, <3>2, <3>3 DEF Covered
  <2>5. ASSUME h.type = "STREAM_DATA"
        PROVE  h.line = m + 1
    <3>1. h.line \in 1..lines[r]
      BY <2>2, <2>5 DEF Sound
    <3>2. m < h.line
      <4>1. CASE m = 0
        BY <3>1, <4>1
      <4>2. CASE m # 0
        <5>1. m \in 1..m
          BY <1>2, <4>2
        <5>2. Follows(r, p[m], h)
          BY <2>1, <5>1 DEF OrderInv, Before
        <5>3. p[m].of = r /\ p[m].type = "STREAM_DATA" /\ p[m].line = m
          BY <1>3, <5>1
        <5> HIDE DEF h, m, p
        <5> QED
          BY <2>2, <2>5, <5>2, <5>3 DEF Follows
      <4> QED
        BY <4>1, <4>2
    <3>3. m + 1 \in 1..lines[r] /\ m < m + 1
      BY <1>1, <1>2, <3>1, <3>2
    <3>4. h.line <= m + 1
      BY <2>4, <2>5, <3>3
    <3> QED
      BY <1>2, <2>3, <3>2, <3>4
  <2>6. ASSUME h.type = "COMMAND_RESULT"
        PROVE  m = lines[r]
    <3>1. CASE m < lines[r]
      <4>1. lines[r] \in 1..lines[r]
        BY <1>1, <1>2, <3>1
      <4> QED
        BY <2>4, <2>6, <3>1, <4>1
    <3> QED
      BY <1>1, <1>2, <1>4, <3>1
  <2> QED
    BY <2>5, <2>6
<1> QED
  BY <1>2, <1>4, <1>5

\* A line that is covered stays so until it is printed.
LEMMA CoveredStep ==
    ASSUME RemoteTypeOK, RunInv, RouteInv, [RemoteNext]_vars, NEW r \in Runs, SoleUser(r),
           run[r] = "read", run'[r] = "read", losses' = 0, NEW n \in Nat, lines[r] # 0,
           down[r] # <<>> /\ Head(down[r]).type = "STREAM_DATA" => Head(down[r]).line = Len(printed[r]) + 1,
           Covered(r, n)
    PROVE  Covered(r, n)'
<1> DEFINE p == printed[r]
           d == down[r]
           a == agentOut
           p2 == printed'[r]
           d2 == down'[r]
           a2 == agentOut'
           Goal == n <= Len(p2) \/ HasLine(d2, r, n) \/ HasLine(a2, r, n)
<1>t. /\ p \in Seq(Frames) /\ d \in Seq(Frames) /\ a \in Seq(Frames)
      /\ d # <<>> => Head(d) \in Frames
      /\ a # <<>> => Head(a) \in Frames
  BY Heads DEF RemoteTypeOK
<1>0. SUFFICES Goal
  BY DEF Covered
<1>1. n <= Len(p) \/ HasLine(d, r, n) \/ HasLine(a, r, n)
  BY DEF Covered
<1>2. Way(r)
  BY WayStep
<1>3. CASE Still(r)
  BY <1>1, <1>3 DEF Still
<1>4. CASE Emits(r)
  <2>1. PICK f \in Frames : p2 = p /\ d2 = d /\ a2 = Append(a, f)
    BY <1>4 DEF Emits
  <2> HIDE DEF p, d, a, p2, d2, a2
  <2>2. HasLine(a, r, n) => HasLine(a2, r, n)
    BY <1>t, <2>1, HasLineOps
  <2> QED
    BY <1>1, <2>1, <2>2
<1>5. CASE Prints(r)
  <2>1. /\ d # <<>> /\ d2 = Tail(d) /\ p2 = Append(p, Head(d)) /\ a2 = a
        /\ Head(d).line = Len(p) + 1
    BY <1>5 DEF Prints
  <2> HIDE DEF p, d, a, p2, d2, a2
  <2>2. Len(p) \in Nat /\ Len(p2) = Len(p) + 1
    BY <1>t, <2>1, SeqOps
  <2>3. HasLine(d, r, n) => HasLine(d2, r, n) \/ n = Len(p) + 1
    BY <1>t, <2>1, HasLineOps DEF IsLine
  <2>4. n <= Len(p) \/ n = Len(p) + 1 => n <= Len(p2)
    BY <2>2
  <2> QED
    BY <1>1, <2>1, <2>3, <2>4
<1>6. CASE Skips(r)
  <2>1. /\ d # <<>> /\ d2 = Tail(d) /\ p2 = p /\ a2 = a
        /\ Head(d).type # "STREAM_DATA"
    BY <1>6 DEF Skips
  <2> HIDE DEF p, d, a, p2, d2, a2
  <2>2. HasLine(d, r, n) => HasLine(d2, r, n)
    BY <1>t, <2>1, HasLineOps DEF IsLine
  <2> QED
    BY <1>1, <2>1, <2>2
<1>7. CASE Tells(r)
  <2>1. PICK f \in Frames : p2 = p /\ d2 = Append(d, f) /\ a2 = a
    BY <1>7 DEF Tells
  <2> HIDE DEF p, d, a, p2, d2, a2
  <2>2. HasLine(d, r, n) => HasLine(d2, r, n)
    BY <1>t, <2>1, HasLineOps
  <2> QED
    BY <1>1, <2>1, <2>2
<1>8. CASE Delivers(r)
  <2>1. handler[r] # "none"
    BY DEF RunInv, RunOK
  <2>2. table[host[r]] = r /\ link[r] = "open"
    <3>1. ~AuthPending(r)
      BY DEF RunInv, RunOK
    <3> QED
      BY <2>1, <3>1 DEF RouteInv, RouteOK
  <2>3. /\ a # <<>> /\ a2 = Tail(a) /\ p2 = p
        /\ IF table[host[Head(a).of]] = r /\ link[r] = "open"
             THEN d2 = Append(d, Head(a)) ELSE d2 = d
    BY <1>8 DEF Delivers
  <2>4. Head(a).of = r => d2 = Append(d, Head(a))
    BY <2>2, <2>3
  <2>5. d2 = d \/ d2 = Append(d, Head(a))
    BY <2>3
  <2> HIDE DEF p, d, a, p2, d2, a2
  <2>6. HasLine(a, r, n) => IsLine(Head(a), r, n) \/ HasLine(a2, r, n)
    BY <1>t, <2>3, HasLineOps
  <2>7. /\ IsLine(Head(a), r, n) => HasLine(Append(d, Head(a)), r, n)
        /\ HasLine(d, r, n) => HasLine(Append(d, Head(a)), r, n)
    BY <1>t, <2>3, HasLineOps
  <2>8. IsLine(Head(a), r, n) => HasLine(d2, r, n)
    BY <2>4, <2>7 DEF IsLine
  <2> QED
    BY <1>1, <2>3, <2>5, <2>6, <2>7, <2>8
<1>9. CASE Clears(r) \/ Loses(r)
  <2>1. FALSE
    BY <1>9 DEF Clears, Loses
  <2> QED
    BY <2>1
<1> QED
  BY <1>2, <1>3, <1>4, <1>5, <1>6, <1>7, <1>8, <1>9 DEF Way

\* A printed line is in its place.
LEMMA InPlaceStep ==
    ASSUME RemoteTypeOK, RunInv, [RemoteNext]_vars, NEW r \in Runs, InPlace(r),
           down[r] # <<>> /\ Head(down[r]).type = "STREAM_DATA" => Head(down[r]).line = Len(printed[r]) + 1
    PROVE  InPlace(r)'
<1>1. CASE Prints(r)
  <2>1. /\ printed[r] \in Seq(Frames) /\ Head(down[r]) \in Frames
        /\ printed'[r] = Append(printed[r], Head(down[r]))
        /\ Head(down[r]).line = Len(printed[r]) + 1
    BY <1>1, Heads DEF Prints, RemoteTypeOK
  <2>2. \A i \in 1..Len(printed'[r]) : printed'[r][i].line = i
    BY <2>1, AppendIndex DEF InPlace
  <2> QED
    BY <2>2 DEF InPlace
<1>2. CASE ~Prints(r)
  <2>1. printed'[r] = printed[r]
    BY <1>2, WayStep DEF Way, Still, Emits, Skips, Clears, Tells, Delivers, Loses
  <2> QED
    BY <2>1 DEF InPlace
<1> QED
  BY <1>1, <1>2

\* The run's own steps are the only ones that move or end it.
LEMMA OwnStep ==
    ASSUME RemoteTypeOK, [RemoteNext]_vars, NEW r \in Runs
    PROVE  Cli(r) \/ (run'[r] = run[r] /\ exit'[r] = exit[r])
<1>1. ASSUME NEW q \in Runs, q # r, Cli(q)
      PROVE  run'[r] = run[r] /\ exit'[r] = exit[r]
  BY <1>1 DEF Cli, Quits, Exit, Dials, Passes, Requests, Turns, RemoteTypeOK
<1>2. ASSUME NEW q \in Runs, HandlerSteps(q) \/ Relays(q) \/ RelayForgets(q)
      PROVE  UNCHANGED <<run, exit>>
  BY <1>2
     DEF HandlerSteps, Acknowledge, Refuse, Stream, Finish, HandlerStep, Relays, RelayAccepts,
         RelayRefuses, RelayForwards, RelayLists, RelayTakes, RelayForgets, cliVars
<1> QED
  BY <1>1, <1>2, RemoteSteps DEF RelayDelivers, AgentLost, AgentReturns, vars, cliVars

LEMMA WholeStep ==
    ASSUME RemoteTypeOK, RunInv, TableInv, FrameInv, OrderInv, RouteInv, WholeInv, [RemoteNext]_vars
    PROVE  WholeInv'
<1>1. SUFFICES ASSUME NEW r \in Runs, SoleUser(r)', losses' = 0
               PROVE  WholeOK(r)'
  BY DEF WholeInv
<1>2. losses = 0 /\ online
  <2>1. losses \in Nat
    BY DEF RemoteTypeOK
  <2>2. CASE AgentLost
    BY <1>1, <2>1, <2>2 DEF AgentLost
  <2>3. ASSUME NEW q \in Runs, Cli(q) \/ HandlerSteps(q) \/ Relays(q) \/ RelayForgets(q)
        PROVE  UNCHANGED losses
    BY <2>3
       DEF Cli, HandlerSteps, Acknowledge, Refuse, Stream, Finish, HandlerStep, Relays, RelayAccepts,
           RelayRefuses, RelayForwards, RelayLists, RelayTakes, RelayForgets, agentVars
  <2>4. losses = 0
    BY <1>1, <2>2, <2>3, RemoteSteps DEF RelayDelivers, AgentReturns, vars, agentVars
  <2> QED
    BY <2>4 DEF RouteInv
<1>3. SoleUser(r)
  BY <1>1, SoleBefore
<1>4. WholeOK(r) /\ RunOK(r)
  BY <1>2, <1>3 DEF WholeInv, RunInv
<1>t. /\ lines[r] \in Nat /\ lines'[r] \in Nat /\ printed[r] \in Seq(Frames)
      /\ lines \in [Runs -> Nat] /\ handler' \in [Runs -> {"none", "started", "acked", "streaming", "finished"}]
  BY Monotone, RemoteTypeStep DEF RemoteTypeOK
<1>5. CASE run[r] = "read" /\ run'[r] = "read"
  <2>1. InPlace(r) /\ \A n \in 1..lines[r] : Covered(r, n)
    BY <1>4, <1>5 DEF WholeOK
  <2>2. exit'[r].how # "COMMAND_RESULT"
    <3>1. RunOK(r)'
      BY RunStep DEF RunInv
    <3> QED
      BY <1>5, <3>1 DEF RunOK, NoExit
  <2>3. down[r] # <<>> /\ Head(down[r]).type = "STREAM_DATA" => Head(down[r]).line = Len(printed[r]) + 1
    BY <1>3, <2>1, NextLine
  <2>4. InPlace(r)'
    BY <2>1, <2>3, InPlaceStep
  <2>5. ASSUME NEW n \in 1..lines'[r]
        PROVE  Covered(r, n)'
    <3>1. CASE n \in 1..lines[r]
      <4>1. n \in Nat /\ lines[r] # 0 /\ Covered(r, n)
        BY <1>t, <2>1, <3>1
      <4> QED
        BY <1>1, <1>3, <1>5, <2>3, <4>1, CoveredStep
    <3>2. CASE n \notin 1..lines[r]
      <4>1. lines'[r] # lines[r]
        BY <3>2
      <4>2. PICK f \in Frames : /\ lines'[r] = lines[r] + 1 /\ IsLine(f, r, lines[r] + 1)
                                /\ agentOut' = Append(agentOut, f)
        BY <1>2, <4>1, LinesStep
      <4>3. n = lines[r] + 1
        BY <1>t, <3>2, <4>2
      <4>4. agentOut \in Seq(Frames)
        BY DEF RemoteTypeOK
      <4>5. HasLine(agentOut', r, n)
        BY <4>2, <4>3, <4>4, HasLineOps
      <4> QED
        BY <4>5 DEF Covered
    <3> QED
      BY <3>1, <3>2
  <2> QED
    BY <2>2, <2>4, <2>5 DEF WholeOK
<1>6. CASE run[r] # "read" /\ run'[r] = "read"
  <2>1. Cli(r)
    BY <1>6, OwnStep
  <2>2. Requests(r) /\ UNCHANGED <<handler, lines>>
    BY <1>6, <2>1 DEF Cli, Quits, Exit, Dials, Passes, Turns, agentVars, RemoteTypeOK
  <2>3. /\ run[r] = "send" /\ printed'[r] = printed[r] /\ exit'[r] = exit[r] /\ lines'[r] = lines[r]
    BY <2>2 DEF Requests
  <2>4. printed[r] = <<>> /\ lines[r] = 0 /\ exit[r] = NoExit
    BY <1>4, <2>3 DEF RunOK
  <2>5. Len(printed'[r]) = 0 /\ lines'[r] = 0 /\ exit'[r].how # "COMMAND_RESULT"
    BY <2>3, <2>4 DEF NoExit
  <2> QED
    BY <2>5 DEF WholeOK, InPlace
<1>7. CASE run'[r] # "read"
  <2>1. SUFFICES ASSUME exit'[r].how = "COMMAND_RESULT"
                 PROVE  AllPrinted(r)'
    BY <1>7 DEF WholeOK
  <2>2. CASE exit'[r] = exit[r]
    <3>1. AllPrinted(r) /\ run[r] = "done"
      BY <1>4, <2>1, <2>2 DEF WholeOK, RunOK, NoExit
    <3>2. handler'[r] = "finished" /\ lines'[r] = lines[r]
      BY <1>2, <3>1, Monotone, LinesStep DEF AllPrinted
    <3>3. printed'[r] = printed[r]
      BY <3>1, WayStep DEF Way, Still, Emits, Prints, Skips, Clears, Tells, Delivers, Loses
    <3> QED
      BY <3>1, <3>2, <3>3 DEF AllPrinted
  <2>3. CASE exit'[r] # exit[r]
    <3>1. Cli(r)
      BY <2>3, OwnStep
    <3>2. /\ run[r] = "read" /\ down[r] # <<>> /\ Head(down[r]).type = "COMMAND_RESULT"
          /\ UNCHANGED <<printed, handler, lines>>
      BY <2>1, <2>3, <3>1 DEF Cli, Quits, Exit, Dials, Passes, Requests, Turns, agentVars, RemoteTypeOK
    <3>3. Len(printed[r]) = lines[r]
      BY <1>3, <1>4, <3>2, NextLine DEF WholeOK
    <3>4. handler[r] = "finished"
      <4>1. down[r] \in Seq(Frames)
        BY DEF RemoteTypeOK
      <4>2. Head(down[r]) = down[r][1] /\ 1 \in 1..Len(down[r])
        BY <3>2, <4>1, SeqOps
      <4>3. Head(down[r]).of = r /\ Sound(Head(down[r]))
        BY <1>3, <4>2, OwnFrames DEF FrameInv
      <4> QED
        BY <3>2, <4>3 DEF Sound
    <3> QED
      BY <3>2, <3>3, <3>4 DEF AllPrinted
  <2> QED
    BY <2>2, <2>3
<1> QED
  BY <1>5, <1>6, <1>7

-----------------------------------------------------------------------------
(* The theorems. *)

LEMMA RemoteInitOK == RemoteInit => RemoteInv
<1> SUFFICES ASSUME RemoteInit PROVE RemoteInv
  OBVIOUS
<1>1. RemoteTypeOK
  <2>1. <<>> \in Seq(Frames)
    BY EmptySeq
  <2>2. NoExit \in [how : Outcomes, of : Runs \cup {NoRun}]
    BY DEF NoExit, Outcomes
  <2>3. online \in BOOLEAN
    BY Zenon DEF RemoteInit
  <2>4. /\ printed \in [Runs -> Seq(Frames)] /\ up \in [Runs -> Seq(Frames)]
        /\ down \in [Runs -> Seq(Frames)] /\ agentOut \in Seq(Frames)
    BY <2>1 DEF RemoteInit
  <2>5. exit \in [Runs -> [how : Outcomes, of : Runs \cup {NoRun}]]
    BY <2>2 DEF RemoteInit
  <2>6. losses \in 0..MaxLosses /\ lines \in [Runs -> Nat]
    BY DEF RemoteInit
  <2>7. /\ kind \in Workloads /\ host \in Placements
        /\ run \in [Runs -> {"idle", "auth", "send", "read", "done"}]
        /\ link \in [Runs -> {"none", "open", "closed"}]
        /\ table \in [Hosts -> Runs \cup {NoRun}]
        /\ handler \in [Runs -> {"none", "started", "acked", "streaming", "finished"}]
    BY DEF RemoteInit
  <2> QED
    BY <2>3, <2>4, <2>5, <2>6, <2>7 DEF RemoteTypeOK
<1>2. RunInv /\ TableInv
  BY DEF RemoteInit, RunInv, RunOK, AuthPending, TableInv, NoExit
<1>3. \A r \in Runs : /\ Len(printed[r]) = 0 /\ Len(down[r]) = 0 /\ Len(agentOut) = 0
                      /\ lines[r] = 0 /\ exit[r] = NoExit /\ run[r] = "idle"
  BY DEF RemoteInit
<1>4. Len(agentOut) = 0 /\ online
  BY DEF RemoteInit
<1>5. FrameInv
  BY <1>3, <1>4 DEF FrameInv, NoExit
<1>6. OrderInv
  BY <1>3, <1>4 DEF OrderInv, Sorted, Before
<1>7. RouteInv /\ WholeInv
  BY <1>3, <1>4 DEF RouteInv, RouteOK, WholeInv, WholeOK, InPlace, NoExit
<1> QED
  BY <1>1, <1>2, <1>5, <1>6, <1>7 DEF RemoteInv

LEMMA RemoteStep == RemoteInv /\ [RemoteNext]_vars => RemoteInv'
BY RemoteTypeStep, RunStep, TableStep, FrameStep, OrderStep, RouteStep, WholeStep DEF RemoteInv

LEMMA RemoteAlways == RemoteSpec => []RemoteInv
BY RemoteInitOK, RemoteStep, PTL DEF RemoteSpec

\* The state of the runs, of the relay and of the agent has its type, for any
\* number of runs and hosts (cmd/muster-tunnel/main.go, all of it).
THEOREM RemoteTypeCorrect == RemoteSpec => []RemoteTypeOK
<1>1. RemoteInv => RemoteTypeOK
  BY DEF RemoteInv
<1> QED
  BY <1>1, RemoteAlways, PTL

\* As long as no other run of its host has been started, a run of
\* muster-tunnel prints the lines of its own command and ends with the answer
\* to its own request (streamResponse and the reads of ping and agents), though
\* every request has the same RequestID.
THEOREM SoleRunGetsOwnAnswer == RemoteSpec => []SoleUserGetsOwnAnswer
<1>1. RemoteInv => SoleUserGetsOwnAnswer
  BY OwnFrames DEF RemoteInv, SoleUserGetsOwnAnswer, OwnAnswer
<1> QED
  BY <1>1, RemoteAlways, PTL

\* Such a run prints its command's lines in their order; and if the agent has
\* not lost its connection, a run that ends with COMMAND_RESULT has printed
\* every one of them.
THEOREM SoleRunGetsWholeAnswer == RemoteSpec => []SoleUserGetsWholeAnswer
<1>1. ASSUME RemoteInv
      PROVE  SoleUserGetsWholeAnswer
  <2>1. ASSUME NEW r \in Runs, SoleUser(r),
               NEW i \in 1..Len(printed[r]), NEW j \in 1..Len(printed[r]), i < j
        PROVE  printed[r][i].line < printed[r][j].line
    <3>1. /\ printed[r][i].of = r /\ printed[r][i].type = "STREAM_DATA"
          /\ printed[r][j].of = r /\ printed[r][j].type = "STREAM_DATA"
      BY <1>1, <2>1, OwnFrames DEF RemoteInv, FrameInv
    <3>2. Follows(r, printed[r][i], printed[r][j])
      BY <1>1, <2>1 DEF RemoteInv, OrderInv, Sorted
    <3> QED
      BY <3>1, <3>2 DEF Follows
  <2>2. ASSUME NEW r \in Runs, SoleUser(r), losses = 0, exit[r].how = "COMMAND_RESULT"
        PROVE  Len(printed[r]) = lines[r]
    BY <1>1, <2>2 DEF RemoteInv, WholeInv, WholeOK, AllPrinted
  <2> QED
    BY <2>1, <2>2 DEF SoleUserGetsWholeAnswer
<1> QED
  BY <1>1, RemoteAlways, PTL

=============================================================================
