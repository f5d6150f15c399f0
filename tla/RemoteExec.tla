----------------------------- MODULE RemoteExec -----------------------------
(***************************************************************************)
(* Runs of the CLI helper (cmd/muster-tunnel/main.go) against one agent,   *)
(* through the relay.  A run connects, authenticates, sends one request    *)
(* and reads until it has its answer.  All runs of a host have the same    *)
(* identity and send a RequestID of zero, so the only way back to a run is *)
(* the relay's table of identities.                                        *)
(*                                                                         *)
(* The agent is reduced to what ReplyProtocol lets a sender see of it, and *)
(* the relay, which is not part of the repository, follows                 *)
(* docs/protocol.md.                                                       *)
(***************************************************************************)
EXTENDS Integers, Sequences, Functions

CONSTANTS
    Runs,       \* runs of muster-tunnel
    NoRun,      \* stands for none of them
    Hosts,      \* the identities "<org>/cli-<hostname>"
    Placements, \* which run is on which host
    Workloads,  \* which run does what: "exec", "push", "ping" or "agents"
    MaxLines,   \* bound: lines the remote commands print, all together
    MaxLosses   \* bound: times the agent loses its connection

ASSUME RemoteExecAssumption ==
    /\ NoRun \notin Runs
    /\ Placements \subseteq [Runs -> Hosts]
    /\ Workloads \subseteq [Runs -> {"exec", "push", "ping", "agents"}]
    /\ MaxLines \in Nat
    /\ MaxLosses \in Nat

VARIABLES
    kind, host,     \* per run: what it was asked to do, and where it runs
    run,            \* per run: where it is
    printed,        \* per run: the lines it has printed
    exit,           \* per run: how it ended, and by the answer to whose request
    link,           \* per run: its connection
    up, down,       \* per run: frames on their way to and from the relay
    table,          \* the relay's connection table: a run for each host
    online,         \* the agent is connected
    losses,         \* number of connections it has lost
    agentOut,       \* frames on their way from the agent
    handler,        \* per run: the agent's handler of its command
    lines           \* per run: lines its command has printed

cliVars == <<run, printed, exit>>
agentVars == <<online, losses, handler, lines>>
vars == <<kind, host, cliVars, link, up, down, table, agentVars, agentOut>>

\* Source and destination of a frame follow from the run whose request it is
\* or answers; the frame itself carries the host's name only.
Frame(t, r) == [type |-> t, of |-> r, line |-> 0]
Line(r, i) == [type |-> "STREAM_DATA", of |-> r, line |-> i]

NoExit == [how |-> "none", of |-> NoRun]

RemoteInit ==
    /\ kind \in Workloads
    /\ host \in Placements
    /\ run = [r \in Runs |-> "idle"]
    /\ printed = [r \in Runs |-> <<>>]
    /\ exit = [r \in Runs |-> NoExit]
    /\ link = [r \in Runs |-> "none"]
    /\ up = [r \in Runs |-> <<>>]
    /\ down = [r \in Runs |-> <<>>]
    /\ table = [h \in Hosts |-> NoRun]
    /\ online = TRUE /\ losses = 0
    /\ agentOut = <<>>
    /\ handler = [r \in Runs |-> "none"]
    /\ lines = [r \in Runs |-> 0]

-----------------------------------------------------------------------------
(* The CLI.                                                                *)

\* os.Exit, log.Fatalf or a return: the process and its connection are gone,
\* with whatever it has not read.
Exit(r, how, of) ==
    /\ down' = [down EXCEPT ![r] = <<>>]
    /\ run' = [run EXCEPT ![r] = "done"]
    /\ exit' = [exit EXCEPT ![r] = [how |-> how, of |-> of]]
    /\ link' = [link EXCEPT ![r] = "closed"]
    /\ UNCHANGED printed

Skip(r) == down' = [down EXCEPT ![r] = Tail(@)]

\* A write to a connection the other side has closed fails or is lost.
Write(r, f) ==
    up' = IF link[r] = "open" THEN [up EXCEPT ![r] = Append(@, f)] ELSE up

Start(r) ==
    /\ run[r] = "idle"
    /\ \/ /\ run' = [run EXCEPT ![r] = "auth"]
          /\ link' = [link EXCEPT ![r] = "open"]
          /\ up' = [up EXCEPT ![r] = Append(@, Frame("AUTH_REQUEST", r))]
          /\ UNCHANGED <<printed, exit, down>>
       \/ Exit(r, "failed", r) /\ UNCHANGED up
    /\ UNCHANGED <<kind, host, table, agentVars, agentOut>>

\* connectAndAuth looks at the type of the response, and not at its "ok".
ReadAuth(r) ==
    /\ run[r] = "auth" /\ down[r] # <<>>
    /\ IF Head(down[r]).type \in {"AUTH_OK", "AUTH_FAILED"}
         THEN Skip(r) /\ run' = [run EXCEPT ![r] = "send"] /\ UNCHANGED <<printed, exit, link>>
         ELSE Exit(r, "failed", r)
    /\ UNCHANGED <<kind, host, up, table, agentVars, agentOut>>

Send(r, k, type) ==
    /\ run[r] = "send" /\ kind[r] = k
    /\ \/ /\ Write(r, Frame(type, r))
          /\ run' = [run EXCEPT ![r] = "read"]
          /\ UNCHANGED <<printed, exit, link, down>>
       \/ link[r] = "closed" /\ Exit(r, "failed", r) /\ UNCHANGED up
    /\ UNCHANGED <<kind, host, table, agentVars, agentOut>>

SendExec(r) == Send(r, "exec", "COMMAND")
SendPush(r) == Send(r, "push", "COMMAND")
SendPing(r) == Send(r, "ping", "HEARTBEAT")
SendAgents(r) == Send(r, "agents", "AGENT_LIST_REQUEST")

\* Faulty variant: a refusal does not end the loop.
Final_ResultsOnly == {"COMMAND_RESULT", "ERROR"}

Final == {"COMMAND_RESULT", "COMMAND_ERROR", "ERROR"}

\* One turn of the loop of exec and push.  What is neither a line nor final
\* is skipped.
ReadTurn(r, k) ==
    /\ run[r] = "read" /\ kind[r] = k /\ down[r] # <<>>
    /\ LET f == Head(down[r]) IN
       IF f.type \in Final
         THEN Exit(r, f.type, f.of)
         ELSE /\ Skip(r)
              /\ printed' = IF f.type = "STREAM_DATA"
                              THEN [printed EXCEPT ![r] = Append(@, f)] ELSE printed
              /\ UNCHANGED <<run, exit, link>>
    /\ UNCHANGED <<kind, host, up, table, agentVars, agentOut>>

ReadExec(r) == ReadTurn(r, "exec")
ReadPush(r) == ReadTurn(r, "push")

\* Faulty variant: whatever frame comes is reported as it is.
ReadOne_AsItIs(r, k, wanted) ==
    /\ run[r] = "read" /\ kind[r] = k /\ down[r] # <<>>
    /\ Exit(r, Head(down[r]).type, Head(down[r]).of)
    /\ UNCHANGED <<kind, host, up, table, agentVars, agentOut>>

\* ping and agents take the first frame for the answer.
ReadOne(r, k, wanted) ==
    /\ run[r] = "read" /\ kind[r] = k /\ down[r] # <<>>
    /\ LET f == Head(down[r])
       IN  Exit(r, IF f.type = wanted THEN wanted ELSE "failed", f.of)
    /\ UNCHANGED <<kind, host, up, table, agentVars, agentOut>>

ReadPing(r) == ReadOne(r, "ping", "HEARTBEAT_ACK")
ReadAgents(r) == ReadOne(r, "agents", "AGENT_LIST")

ReadFails(r) ==
    /\ run[r] \in {"auth", "read"} /\ link[r] = "closed" /\ down[r] = <<>>
    /\ Exit(r, "failed", r)
    /\ UNCHANGED <<kind, host, up, table, agentVars, agentOut>>

\* The user ends the run, or its connection fails and the run with it; what it
\* has asked for goes on.
Interrupt(r) ==
    /\ run[r] \in {"auth", "send", "read"}
    /\ Exit(r, "failed", r)
    /\ UNCHANGED <<kind, host, up, table, agentVars, agentOut>>

-----------------------------------------------------------------------------
(* The relay.                                                              *)

RelayTakes(r) ==
    /\ up[r] # <<>>
    /\ up' = [up EXCEPT ![r] = Tail(@)]
    /\ UNCHANGED <<kind, host, cliVars, online, losses, lines>>

SendDown(r, f) ==
    down' = IF link[r] = "open" THEN [down EXCEPT ![r] = Append(@, f)] ELSE down

\* Whoever has the host's entry is replaced, and may be disconnected.
RelayAccepts(r) ==
    /\ RelayTakes(r) /\ Head(up[r]).type = "AUTH_REQUEST"
    /\ table' = [table EXCEPT ![host[r]] = r]
    /\ SendDown(r, Frame("AUTH_OK", r))
    /\ LET old == table[host[r]] IN
       link' \in {link} \cup (IF old = NoRun THEN {} ELSE {[link EXCEPT ![old] = "closed"]})
    /\ UNCHANGED <<handler, agentOut>>

\* A bad token, or an identity that is taken; the relay closes the connection,
\* so that nothing else comes over it.
RelayRefuses(r) ==
    /\ RelayTakes(r) /\ Head(up[r]).type = "AUTH_REQUEST"
    /\ SendDown(r, Frame("AUTH_FAILED", r))
    /\ link' = [link EXCEPT ![r] = "closed"]
    /\ UNCHANGED <<table, handler, agentOut>>

\* SendFrame, whose errors the handlers ignore.
SendFrame(f) == agentOut' = IF online THEN Append(agentOut, f) ELSE agentOut

\* What the message loop does with a frame: a command gets a handler of its
\* own, a heartbeat is answered.
Serve(f) ==
    IF f.type = "COMMAND"
      THEN handler' = [handler EXCEPT ![f.of] = "started"] /\ UNCHANGED agentOut
      ELSE SendFrame(Frame("HEARTBEAT_ACK", f.of)) /\ UNCHANGED handler

\* To the agent.  Without it the run is told so, unless the relay has not
\* noticed yet.
RelayForwards(r) ==
    /\ RelayTakes(r) /\ Head(up[r]).type \in {"COMMAND", "HEARTBEAT"}
    /\ \/ online /\ Serve(Head(up[r])) /\ UNCHANGED down
       \/ /\ ~online
          /\ UNCHANGED down \/ SendDown(r, Frame("ERROR", r))
          /\ UNCHANGED <<handler, agentOut>>
    /\ UNCHANGED <<link, table>>

RelayLists(r) ==
    /\ RelayTakes(r) /\ Head(up[r]).type = "AGENT_LIST_REQUEST"
    /\ SendDown(r, Frame("AGENT_LIST", r))
    /\ UNCHANGED <<link, table, handler, agentOut>>

\* Faulty variant: every reply goes to one host, wherever the command came from.
Destination_OneHost(f) == CHOOSE h \in Hosts : TRUE

\* The agent answers the source of the frame.
Destination(f) == host[f.of]

\* A frame of the agent goes to the connection its destination is registered
\* with; without one it is lost to the run.
RelayDelivers ==
    /\ agentOut # <<>>
    /\ agentOut' = Tail(agentOut)
    /\ LET f == Head(agentOut)
           r == table[Destination(f)]
       IN  IF r = NoRun THEN UNCHANGED down ELSE SendDown(r, f)
    /\ UNCHANGED <<kind, host, cliVars, link, up, table, agentVars>>

\* A connection is closed: its entry goes, if it is still its own.
RelayForgets(r) ==
    /\ link[r] = "closed" /\ table[host[r]] = r
    /\ table' = [table EXCEPT ![host[r]] = NoRun]
    /\ UNCHANGED <<kind, host, cliVars, link, up, down, agentVars, agentOut>>

-----------------------------------------------------------------------------
(* The agent.                                                              *)

HandlerStep(r, from, to) ==
    /\ handler[r] = from
    /\ handler' = [handler EXCEPT ![r] = to]
    /\ UNCHANGED <<kind, host, cliVars, link, up, down, table, online, losses>>

Acknowledge(r) ==
    /\ HandlerStep(r, "started", "acked")
    /\ SendFrame(Frame("COMMAND_ACK", r))
    /\ UNCHANGED lines

Refuse(r) ==
    /\ HandlerStep(r, "acked", "finished")
    /\ SendFrame(Frame("COMMAND_ERROR", r))
    /\ UNCHANGED lines

\* The bound on lines.
MoreLines == FoldFunction(+, 0, lines) < MaxLines

Stream(r) ==
    /\ MoreLines
    /\ HandlerStep(r, "acked", "streaming") \/ HandlerStep(r, "streaming", "streaming")
    /\ lines' = [lines EXCEPT ![r] = @ + 1]
    /\ SendFrame(Line(r, lines[r] + 1))

\* Faulty variant: the result is sent when the command is started.
Finish_AtOnce(r) ==
    /\ HandlerStep(r, "acked", "streaming")
    /\ SendFrame(Frame("COMMAND_RESULT", r))
    /\ UNCHANGED lines

Finish(r) ==
    /\ HandlerStep(r, "acked", "finished") \/ HandlerStep(r, "streaming", "finished")
    /\ SendFrame(Frame("COMMAND_RESULT", r))
    /\ UNCHANGED lines

\* The agent's connection fails with what is in it, and it comes back.
AgentLost ==
    /\ online /\ losses < MaxLosses
    /\ online' = FALSE /\ losses' = losses + 1
    /\ agentOut' = <<>>
    /\ UNCHANGED <<kind, host, cliVars, link, up, down, table, handler, lines>>

AgentReturns ==
    /\ ~online
    /\ online' = TRUE
    /\ UNCHANGED <<kind, host, cliVars, link, up, down, table, losses, handler, lines, agentOut>>

-----------------------------------------------------------------------------

CliStep(r) ==
    \/ ReadAuth(r)
    \/ SendExec(r) \/ SendPush(r) \/ SendPing(r) \/ SendAgents(r)
    \/ ReadExec(r) \/ ReadPush(r) \/ ReadPing(r) \/ ReadAgents(r)
    \/ ReadFails(r)

RelayStep ==
    \/ RelayDelivers
    \/ \E r \in Runs : RelayAccepts(r) \/ RelayRefuses(r) \/ RelayForwards(r) \/ RelayLists(r)

HandlerSteps(r) == Acknowledge(r) \/ Refuse(r) \/ Stream(r) \/ Finish(r)

Faults ==
    \/ AgentLost
    \/ \E r \in Runs : Interrupt(r)

RemoteNext ==
    \/ \E r \in Runs : Start(r) \/ CliStep(r) \/ HandlerSteps(r) \/ RelayForgets(r)
    \/ RelayStep \/ AgentReturns \/ Faults

\* Processes that can run do run, the relay reads what it is sent, and remote
\* commands end.
RemoteFairness ==
    /\ \A r \in Runs : WF_vars(CliStep(r)) /\ WF_vars(HandlerSteps(r))
    /\ WF_vars(RelayStep)

RemoteSpec == RemoteInit /\ [][RemoteNext]_vars /\ RemoteFairness

-----------------------------------------------------------------------------
(* Properties. *)

FrameTypes ==
    {"AUTH_REQUEST", "AUTH_OK", "AUTH_FAILED", "COMMAND", "COMMAND_ACK", "COMMAND_ERROR",
     "COMMAND_RESULT", "STREAM_DATA", "HEARTBEAT", "HEARTBEAT_ACK", "AGENT_LIST_REQUEST",
     "AGENT_LIST", "ERROR"}

Frames == [type : FrameTypes, of : Runs, line : Nat]

Outcomes ==
    {"none", "failed", "COMMAND_RESULT", "COMMAND_ERROR", "ERROR",
     "HEARTBEAT_ACK", "AGENT_LIST"}

RemoteTypeOK ==
    /\ kind \in Workloads
    /\ host \in Placements
    /\ run \in [Runs -> {"idle", "auth", "send", "read", "done"}]
    /\ printed \in [Runs -> Seq(Frames)]
    /\ exit \in [Runs -> [how : Outcomes, of : Runs \cup {NoRun}]]
    /\ link \in [Runs -> {"none", "open", "closed"}]
    /\ up \in [Runs -> Seq(Frames)]
    /\ down \in [Runs -> Seq(Frames)]
    /\ table \in [Hosts -> Runs \cup {NoRun}]
    /\ online \in BOOLEAN
    /\ losses \in 0..MaxLosses
    /\ agentOut \in Seq(Frames)
    /\ handler \in [Runs -> {"none", "started", "acked", "streaming", "finished"}]
    /\ lines \in [Runs -> Nat]

\* What a run prints, and the answer it ends with, belong to its own request.
OwnAnswer(r) ==
    /\ \A i \in 1..Len(printed[r]) : printed[r][i].of = r
    /\ exit[r].of \in {r, NoRun}

\* No other run of its host has been started yet.
SoleUser(r) == \A q \in Runs \ {r} : host[q] = host[r] => run[q] = "idle"

\* A run that has its host's identity for itself is given its own answer,
\* whatever runs of other hosts do and whatever connections fail.
SoleUserGetsOwnAnswer == \A r \in Runs : SoleUser(r) => OwnAnswer(r)

\* The lines it prints are in order, and none is missing unless the agent lost
\* its connection; with a result it has printed all of them.
SoleUserGetsWholeAnswer ==
    \A r \in Runs : SoleUser(r) =>
        /\ \A i, j \in 1..Len(printed[r]) : i < j => printed[r][i].line < printed[r][j].line
        /\ losses = 0 /\ exit[r].how = "COMMAND_RESULT" => Len(printed[r]) = lines[r]

\* A started run ends if it has its host's identity for itself and the agent
\* keeps its connection.
SteadyRunEnds ==
    \A r \in Runs : [](SoleUser(r) /\ losses = 0) => (run[r] = "auth" ~> run[r] = "done")

\* RequestID is a "correlation ID" (docs/protocol.md): answers go with the
\* request they answer.
EveryRunGetsOwnAnswer == \A r \in Runs : OwnAnswer(r)

=============================================================================
