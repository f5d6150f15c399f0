# Muster Fleet Cloud in TLA+

Muster Fleet Cloud lets a command line tool run deployment commands on remote
machines. A daemon on each machine, `muster-agent`, keeps a WebSocket connection
to a relay; `muster-tunnel` connects to the same relay, sends a COMMAND frame to
an agent and prints what comes back. This directory holds TLA+ modules for the
parts of that system with state, concurrency and failure in them, the TLC
configurations that check them on small instances, and TLAPS proofs of the
properties that matter most for every instance. Paths below are relative to the
repository's root.

## 1. The system

| component | source | state it keeps | operations | talks to |
|---|---|---|---|---|
| command executor | `internal/agent/executor.go` | per call: a bash process, the pipe its stdout and stderr share, a streaming goroutine, a channel of 64 lines | `Execute`, `ExecuteHook`, `ValidateCommand`, `ParseCommandRequest` | called by the command handler, which ranges over the channel |
| command handler | `internal/agent/agent.go`, `handleCommand` | one goroutine per COMMAND frame | decrypt, parse, acknowledge, execute, forward lines, report | executor (channel), tunnel client (`SendFrame`) |
| agent session | `internal/agent/agent.go` (`Run`, `sendHello`, `messageLoop`, `handleKeyExchange`), `pkg/tunnel/client.go` | `c.conn` under a mutex; where the loop is | Connect, Authenticate, register, serve heartbeats, key exchanges and commands | relay over one connection at a time; shares `c.conn` with the handlers |
| reconnection loop | `pkg/tunnel/reconnect.go` | attempt counter, delay, start of the connection | `ConnectLoop`, `backoff` | calls the session's operations, watches the context |
| WebSocket connection | `pkg/tunnel/ws.go` | a socket | Dial, Write, Read, Close | used by client and CLI |
| CLI helper | `cmd/muster-tunnel/main.go` | one connection per run, no other state | exec, push, ping, agents | relay, and through it an agent |
| agent command line | `cmd/muster-agent/main.go` | key files and configuration under `~/.muster-agent` | run, join, status | configuration, key files, session |
| frame codec | `pkg/protocol` | none | Encode, Decode, PadID, ParseID, Validate | used by everything that sends |
| keys and encryption | `pkg/crypto` | two key files | GenerateKeyPair, SaveKeyPair, LoadKeyPair, Encrypt, Decrypt | join, run, handler |
| configuration | `pkg/config` | one JSON file | load, save, defaults | join, run, status |
| relay | not in the repository; described in `docs/protocol.md` | connections by identity, tokens, agents | authenticate, register, route | all of the above |
| installation | `install.sh`, `uninstall.sh`, `deploy/`, `Makefile` | files and a service unit | run once by hand | none |

How a command travels: the CLI authenticates and writes COMMAND; the relay
routes it by destination identity; the agent's message loop starts a goroutine;
the handler acknowledges and calls the executor, which starts `bash` and a
second goroutine that scans its output; that goroutine sends each line through a
channel, the handler turns each into STREAM_DATA and the last one into
COMMAND_RESULT; `SendFrame` takes whatever connection the client has at that
moment. Nothing is numbered, acknowledged or resent.

### What is hard in it, and what makes each part correct

- **Executor.** Three parties (process, goroutine, consumer) meet at two bounded
  buffers, and a cancellation can land anywhere. It is correct if the consumer
  gets the lines in order without gaps, one exit code that is the command's own,
  and always the end of the stream once the process is gone and no descendant of
  it holds on to its pipes: the output's, and for a hook also that of stdin, since
  `cmd.Wait` waits for the goroutine that copies the script. The scanner has a
  64 KB limit whose error nobody looks at.
- **Handler.** Every path must leave the sender with an answer and nothing after
  it, and the goroutine must outlive the one it feeds on. Only the end of the
  agent's process, after a cancellation, may cut it off.
- **Session.** The loop replaces `c.conn` while handlers hold the old one; the
  relay may route to the agent before it has confirmed the registration;
  connections fail for one side only. It is correct if only accepted connections
  are served, questions are answered where they were asked, and the replies to a
  command are never repeated or reordered across connections.
- **Reconnection loop.** Delays must follow the failures, no failure may end the
  loop, and a cancellation must.
- **CLI.** Frames of different runs on one host share identity and RequestID,
  and no read has a limit.
- **Join.** Two key files and a configuration are written in three steps around
  a registration at the relay; any of them can fail, and a crash can fall
  between any two.
- **Codec.** A round trip must be the identity for every frame that fits. Names
  longer than 32 bytes are cut, so that two of them can become one; nothing in the
  code prevents that, and no property rules it out.

`PROJECT.json` lists each of these hazards at its line with the properties that
cover it, or why none does yet.

## 2. The modules

```
Executor ----------- ExecutorProofs          (theorems)
   ^                     ^
   | EXTENDS             | EXTENDS
CommandHandler ----- CommandHandlerProofs    (theorems; the refinement step by step)
   |
   +---------------> ReplyProtocol           (INSTANCE ... WITH: implements)

ConnectLoop -------- ConnectLoopProofs       (theorems)
   ^                     ^
   | EXTENDS             | EXTENDS
AgentSession ------- AgentSessionProofs      (theorems)

RemoteExec --------- RemoteExecProofs        (theorems; the agent as ReplyProtocol
   ^                                          lets it be seen)
   | EXTENDS
MCRemoteExec                                 (instances: which runs, on which hosts)

CommandLine                                  (operators: command lines and the allowlist)
   ^
   | EXTENDS
Join --------------- JoinProofs              (theorems)
   ^
   | EXTENDS
MCJoin                                       (instances: which flags, which requests)

Codec                                        (operators: frames as bytes)
   ^
   | EXTENDS
Exchange ----------- ExchangeProofs          (theorems; the codec's first)
   ^
   | EXTENDS
MCExchange                                   (instances: which bytes, names and payloads)

SequenceLemmas                               (lemmas on queues and logs that the proofs of
                                              session, RemoteExec and Exchange share)
```

Operators named `X_Something`, or commented "Faulty variant", are not part of
the model: each is a definition of the model changed the way a plausible mistake
in the code would change it, and substituting it makes TLC report the property
it is paired with in `PROJECT.json`.

### Executor

One call of `Execute` or `ExecuteHook`, which differ only in how the process is
started. Calls share nothing but the context, so one call is the component.

| model | code |
|---|---|
| `ret` | what the call returned: a channel, or an error (rejected command, unknown action, process not started) |
| `shell`, `exit`, `toWrite` | the `bash` process, its status, what it will still print |
| `child` | a background descendant that inherited stdout |
| `copying` | the goroutine of `os/exec` that copies a hook's script (`executor.go:155`) has some of it left; never in `Execute`, which sets no stdin |
| `stdinHeld` | a descendant holds the read end of that stdin, whatever it did with its output |
| `pipe`, `written` | the operating system's pipe; stdout and stderr are both it (`cmd.Stderr = cmd.Stdout`) |
| `reader`, `held`, `code` | the goroutine at `executor.go:116`: in the scanner loop, sending, in `cmd.Wait`, at the last send, gone |
| `ch`, `taken` | the `OutputLine` channel, and what its consumer received |
| `cancelled`, `alive` | the context of the agent, and its process |

`ShellWrites` blocks on a full pipe, `SendLine` and `ReportDone` on a full
channel, `WaitReturns` on the shell and on the copy of the script: a descendant
that outlives the shell, holds stdin and does not read it keeps the Done line
back, with nobody left on the output pipe. The copy is over when the script is
read (`ScriptRead`) or when nobody is left who could read it (`CopyBreaks`, an
EPIPE that `os/exec` forgives). A descendant that holds either pipe is `Detained`,
and `StreamEnds` and `CancelEndsStream` speak of what happens without one. After
a cancellation the process may end at any moment (`AgentExits`, `main.go:83-86`),
and both goroutines with it. `ScanTooLong` is the scanner's `ErrTooLong`:
the loop ends as at the end of the output. `cmd.Wait` closes the read end
(`pipe' = <<>>`), after which a descendant's writes fail. `ShellKilled` kills the
shell alone, as `exec.CommandContext` does. `WaitCode` has the one race in the
exit code: a process that succeeded and was not reaped before the kill is
reported as 1, because `Wait` then returns the context's error.

A line of output is the number of its place, so "in order and without gaps" is
"the i-th line received is line i". Its text is not modelled.

### CommandHandler and ReplyProtocol

`CommandHandler` composes `handleCommand` with the executor through the channel:
`ForwardLine` is `Receive` of the executor together with the `SendFrame` that
follows. `ReplyProtocol` says what the sender of a COMMAND may see: nothing, a
refusal, or an acknowledgement followed by a refusal or by the lines in order and
one result. `CommandHandler` implements it under the mapping at its head: the
phase (`Phase`) is read off the handler's program counter and the frames sent.
A handler stops where it stands when the agent's process ends (`alive`).
`ClearCommandAnswered` therefore names all that an answer depends on: commands
that end on their own (`CommandEnds`), lines that fit the scanner (`[]Fits`), and
a process that does not end first.
`ResultCoversOutput` has the same condition as `DoneIsComplete`: a line too long
for the scanner ends the stream early, and a result follows all the same.

### ConnectLoop

`ConnectLoop` and `backoff` with the outcomes of the three calls open. `Retry`
is the code repeated after each failure (check the context, choose a delay,
wait); the select of timer and context is `BackoffElapses` and
`BackoffCancelled`, both enabled when both are ready. `failures` and `late` are
history: the failures in a row, and the connections opened after the
cancellation, counted up to two. A callback that returns without an error makes
`ConnectLoop` return at `reconnect.go:71`; the agent's `Run` never returns so, and
`Disconnected` leaves it out.

### AgentSession

The loop with its calls filled in, one goroutine per command seen as the sender
of `Replies` frames, the network and the relay.

| model | code |
|---|---|
| `at` | where the loop is in `Authenticate`, `Run`'s callback or `messageLoop` |
| `conn` | `c.conn`; `Close` leaves it in place |
| `snap` | the connection `SendFrame` read under the mutex and has not written to yet |
| `closed`, `broken` | closed by the agent; failed for the agent, which may still have data in it |
| `out`, `in` | frames under way in the two directions of each connection |
| `relay`, `got` | the relay's side of each connection, and what it has received |
| `asked` | history: the heartbeats and key exchanges the relay has sent |

A question and its answer have the number of the question in `seq`, so that
`InlineAnswersMatch` can say which answer belongs to which question; the frames
in the code carry no number. A question that `Run` reads in place of RELAY_ACK is
marked "MISSED" in `asked` and is the only one that may be left out.

The relay's actions are external. They do what `docs/protocol.md` prescribes: it
answers AUTH_REQUEST, confirms AGENT_HELLO, and routes to an identity from the
moment it is authenticated (`docs/protocol.md:138`), to its newest connection. A
connection can fail in each direction at its own time: a write may succeed and
be lost, a read may still deliver what had arrived. A frame that does not decode
is a fault of another kind: `ReadFrame` returns an error, the loop moves on, and
the old connection stays open in both directions, with handlers writing to it.

### RemoteExec

Several runs of `muster-tunnel` at once, on the same host or on different ones,
with the relay between them and one agent.

| model | code |
|---|---|
| `kind`, `host` | which of exec, push, ping and agents the run was asked for; the hostname its identity is made of |
| `run`, `printed`, `exit` | where the process is, the STREAM_DATA it has printed, how it ended and by which frame |
| `link`, `up`, `down` | its connection and the frames under way in it |
| `table` | the relay's connection of each CLI identity; the newest one has it |
| `online`, `agentOut` | the agent's connection and what is in it |
| `handler`, `lines` | the agent's goroutine for the run's command, and the lines it has streamed |

A frame carries in `of` the run whose request it belongs to. Nothing in the code
can see that field: the frames themselves hold a RequestID of zero and the host's
name, and `RelayDelivers` looks up the name. The properties compare `of` with the
run that reads the frame. A line of output is its number among its command's, and
`MaxLines` bounds the lines of all commands together. `ReadAuth` takes any AUTH_RESPONSE, as `connectAndAuth`
does; `ReadOne` is the single read of ping and agents; `Exit` drops what has not
been read.

The agent is reduced to what `ReplyProtocol` leaves of it for the sender. The
relay's forwarding of a frame and the agent's message loop are one step, and a
loss of the agent's connection drops what it had sent. The relay is external and
follows `docs/protocol.md`. `Interrupt` is the user stopping a run, or the
run's own connection failing.

### CommandLine and Join

`CommandLine` has the line `Execute` builds for each action and `ValidateCommand`,
over words in place of characters; `Begins` keeps the one effect of comparing
characters, that the last word of an allowed prefix may go on in the line.

`Join` is one machine: `muster-agent join`, repeated, beside a `muster-agent run`
that is started at any moment.

| model | code |
|---|---|
| `join`, `n` | the call `cmdJoin` is in; joins are numbered in the order they start |
| `disk` | `identity.key`, `identity.pub` and `config.json`: missing, torn, or the number of the join that wrote it |
| `sent`, `accepted` | the joins whose AGENT_HELLO is sent; those the relay has registered |
| `agent`, `mem` | the file `cmdRun` loads next (configuration, private key, public key), and what it has read |
| `flag` | the `--muster-path` of each join |

`os.WriteFile` empties a file before it writes it, which makes two steps of each
write (`Open`, `Fill`). `JoinFails` is a call that returns an error and a process
that is killed; it is possible at every step, and nothing is undone. A torn file
is one `LoadKeyPair` or `json.Unmarshal` refuses: a key of another length, a JSON
object without its end. A run that cannot load its files ends and is started again.
The relay registers a join at any time after its AGENT_HELLO was sent, also when
the join has ended and another one has begun.

### Codec and Exchange

`Codec` is `pkg/protocol/frame.go` over byte strings: the layout of the code with
the widths of its identifiers and the number of byte values as parameters. A
length is four digits of base `Base`. `Exchange` carries a question and its
answer over it: one side builds and encodes a frame, the bytes arrive whole, cut
at any place, with more behind them, or with one byte changed, and the agent
decodes them and answers the identity in SourceID.

| model | code |
|---|---|
| `asked`, `Question` | the arguments of `NewFrame` and the frame |
| `data`, `damage` | the WebSocket message, and what distinguishes it from the one that was encoded |
| `got` | what `Decode` returns: a frame, or `Refused` for its errors |
| `answer` | the frame a handler builds from `got`, as it is decoded by the other side |

WebSocket delivers messages whole. The damages stand for the other programs at
the other end, which `Decode` cannot assume to be right about the length field.

## 3. What the runs check

Deadlock is checked in `join` only: everywhere else a call that has returned, an
agent that has exited or has used up its faults, or an exchange that is over has
really stopped.

| run | what it asks | instance |
|---|---|---|
| `handler` | order, exit code, completeness, no wait cycle of the executor inside the handler; the stream ends, also after a cancellation; the reply protocol is implemented; no leaked goroutine; the result follows the whole output; a command in clear that ends by itself with lines that fit is answered | pipe 2, channel 1, up to 5 lines, line 4 overlong, exit codes 0 and 2 |
| `connect_loop` | delays follow failures, no failure ends the loop, a cancellation does | base 2, cap 10, jitter 2, 5 failures in a row |
| `session` | heartbeats and key exchanges are answered in order on their connection, with a reconnection in between, and only on one that has accepted the agent and has its AGENT_HELLO | two connections, one fault, 2 questions on each, no command |
| `session_reconnect` | one registration on each connection, replies in order across connections, return to service | three connections, two faults, 1 command with 2 replies |
| `remote_exec` | a run that has its identity for itself prints and reports its own command only, in order and completely, and ends | two runs, one host or two; exec and push, exec and ping, ping and agents; 2 lines in all; the agent loses its connection at most once |
| `join` | an agent's configuration is that of a registered join and its keys are never older; success means installed; the pair of a registered join matches; an agent started after a successful join comes up with it; the default path serves every action | 3 joins, each with or without `--muster-path`; services none, one or two |
| `frame` | a frame survives the way, a cut one is refused, nothing is read that did not arrive, and the answer has the asker's field and RequestID | 3 byte values, RequestID of 1 byte, identities of 2 with names of 0 to 3, payloads of 0 to 10 bytes, one damage |

The bounds are the smallest at which every buffer fills, empties and is
contended: three lines that fit and the Done line against a channel of one; a
pipe of two with more behind it; a delay that doubles three times before the cap
cuts it; a handler that reads a connection two reconnections ago; one run with another to
be confused with; a join over the files of a complete and of a broken one; a name
shorter than its field, as long, and longer; a payload whose length carries
into the third digit. Larger
instances differ in how often this happens, and for every safety property the
theorems of section 5 remove the bounds altogether. `MaxLines`, `MaxAttempts`,
`MaxFaults`, `MaxRequests`, `MaxLosses` and `MaxJoins` are bounds of the model and
limit nothing in the code.

Five more runs end in a violation: the documents or comments promise something
the code does not do.

| run | promise | what happens |
|---|---|---|
| `executor_hangs` | `main.go:216` of the CLI: responses "until COMMAND_RESULT or COMMAND_ERROR" | if the command prints more after that line than the pipe holds, it and the goroutine wait for each other for ever |
| `session_auth_first` | `docs/protocol.md:108` | a command that outlives its connection can write to the next one ahead of AUTH_REQUEST |
| `session_shutdown` | `reconnect.go:29` "runs until ctx is cancelled" | a cancelled agent with a healthy connection never leaves its read |
| `remote_exec_crossed` | `docs/protocol.md:20` RequestID is the "correlation ID" | a run started while an earlier run's command still goes on prints that command's lines and exits with its exit code |
| `join_documented_path` | `README.md:112-118`, `docs/protocol.md:437-438`, `deploy/agent.json.example:14-20`: `muster_path` is `/usr/local/bin/muster`, and `muster deploy`, `status`, `rollback` and `logs` are allowed | the line starts with the path and no entry of the allowlist does, so that each of these actions is refused |

More differences are in the models as the code has them, without a run of their
own:

- `executor.go:57` "streams output line by line": a line over 64 KB and everything
  after it are dropped, and the exit code reported is the command's own
  (`ScanTooLong`; `DoneIsComplete` has its condition for that reason).
- `docs/protocol.md:331`, `:87`: an encrypted command gets no reply, not even
  E_DECRYPT, because the sender's key is never looked up. `ClearCommandAnswered`
  speaks of commands in clear.
- `docs/protocol.md:394` and the comment in `reconnect.go` reset the attempt
  counter after a connection of 60 s, and `ConnectLoop` resets it for every
  connection that authenticated.
- `agent.go:51` says "Wait for RELAY_ACK", and the code takes whatever frame comes
  next for it, a COMMAND included, which then gets no reply.
- An agent started between the two key files of a join, or after a join cut off
  there, runs with a private key and a public key that do not belong together
  (`keys.go:79`); `LoadKeyPair` looks at lengths only. `KeysCoverConfig` and
  `RegisteredPairMatches` say what does hold.
- `docs/protocol.md:73` wants frames of type 0 rejected. `Decode` accepts them and
  `Validate` is called by tests only; every reader ignores or reports the type.
  `FrameSurvives` speaks of frames that have a type for that reason.

Two that concern no model: `deploy/muster-agent.service` passes `--config` to a
`run` that reads no arguments, and the reconnect delays of the configuration are
read by nothing (`agent.go:43` takes the defaults).

## 4. Fairness

- `ExecFairness` and `HandlerFairness`: a goroutine that can run does run, the
  kernel delivers a kill, and the consumer keeps receiving (`range` has no other
  exit). Nothing obliges a command to print, to end, to read its stdin or to let
  go of its pipes, nor the agent's process to end, so `StreamEnds` and
  `CancelEndsStream` do not depend on it.
- `CommandEnds` is assumed only where it is named (`ClearCommandAnswered` and the
  run `executor_hangs`): a command that ends by itself when its output is
  accepted, and whose descendants end and release its pipes. A `tail -f` is not
  answered, and nothing in the code would end it.
- `LoopSpec`: Connect, Authenticate and the callback return. In `AgentSession`
  that is no longer assumed, and `CancelledAgentExits` fails for that reason.
- `SessionFairness`: goroutines run, the relay reads what it is sent and answers,
  and a broken connection is noticed sooner or later (Go's dialer turns TCP
  keep-alive on; the code sets no read deadline). Faults are not fair, and there
  are finitely many.
- `RemoteFairness`: a run of the CLI that can go on does, the relay reads what it
  is sent, and remote commands end. The return of the agent is not fair:
  `SteadyRunEnds` is about an agent that keeps its connection, since a run has no
  limit on its reads and waits for ever for a reply that was lost.
- `JoinSpec`: a run that is not up loads its files, again and again
  (`Restart=always` in `deploy/muster-agent.service`). Joins are not fair.

## 5. What is proved

Every invariant and every action or refinement property of the passing runs is a
theorem, checked by `tlapm`. The theorems hold for every capacity, number of
lines, set of exit codes and overlong lines; every delay; any number of commands,
replies, faults and questions; any number of runs on any hosts; any number of
joins and every list of services; and every width of the frame's identifiers and
number of byte values. They use the named assumptions of the modules and no
others: capacities and delays are positive and the first delay is not above the
cap, a request for logs names a service, a byte has at least two values, an
identity has no zero byte, a payload is no longer than the length field can say,
and the values that stand for "none" are none of the others.

| theorem | says |
|---|---|
| `ExecTypeCorrect` | types; nothing enters a full pipe or channel |
| `ExecStreamInOrder` | the consumer gets a prefix of the output in order, and nothing after the Done line |
| `ExecExitCode` | the exit code is the command's own, up to the race named above |
| `ExecComplete` | while every line fits, Done comes after the whole output |
| `ExecNoWaitCycle` | while every line fits, goroutine and shell never wait for each other |
| `HandlerTypeCorrect` | types; what the handler sends are reply frames |
| `HandlerNeverAbandons` | the handler outlives the goroutine it feeds on |
| `ResultIsLast` | while every line fits, the result follows the whole output |
| `HandlerFollowsProtocol` | the handler implements `ReplyProtocol` |
| `LoopTypeCorrect` | types of the loop |
| `DelayAlwaysFollowsFailures` | the delay doubles with each failure up to the cap, and exceeds it by the jitter at most |
| `LoopRunsUntilCancelled` | no sequence of failures ends the loop |
| `AtMostOneLateConnection` | a cancelled loop opens at most one more connection |
| `SessionTypeCorrect` | types of the session |
| `ServesOnlyAccepted` | Run registers and serves on the newest connection, only once accepted there, and answers nothing before its AGENT_HELLO |
| `RegistersOnceAfterAuth` | AGENT_HELLO comes after AUTH_REQUEST on each connection, and once |
| `RepliesStayInOrder` | the replies to a command reach the relay in order across connections, none twice |
| `AnswersMatchQuestions` | questions are answered in order, once, where they were asked; only one read in place of RELAY_ACK is left out |
| `SessionRunsTheLoop` | the steps of a session are steps of `ConnectLoop` or leave its variables alone |
| `SessionKeepsTheLoop` | so a session is not ended by a failure either, opens one late connection at most, and its delays follow its failures |
| `RemoteTypeCorrect` | types of `RemoteExec` |
| `SoleRunGetsOwnAnswer` | a run with its host for itself prints and reports its own command only |
| `SoleRunGetsWholeAnswer` | its lines are in order and, while the agent keeps its connection, all there when the result comes |
| `JoinTypeCorrect` | types; an agent never holds a torn file |
| `ConfigAlwaysRegistered` | no configuration on the disk or in an agent is of a join the relay has not registered |
| `KeysAlwaysCoverConfig` | an agent that loads its files in the middle of joins has no key older than its configuration |
| `RegisteredPairAlwaysMatches` | the key pair of a registered join is whole on the disk or replaced |
| `SuccessMeansInstalled` | a join that reports success is registered and all three files are its own |
| `DefaultPathAlwaysServes` | the default path serves every named action |
| `RoundTrip` | `Decode(Encode(f)) = f` for every frame |
| `DecodedIsPrefix` | whatever `Decode` accepts begins with the encoding of the frame it returns, the two reserved bytes apart |
| `ExchangeTypeCorrect` | types; anything that arrives is decoded as a frame or refused |
| `FrameAlwaysSurvives` | a frame with a type that arrives whole, with anything behind it, is the frame that was sent |
| `CutAlwaysRefused` | a frame cut at any place is refused |
| `NothingEverInvented` | what is decoded has arrived, whichever byte was changed |
| `AnswerAlwaysReachesAsker` | the answer has the asker's field and RequestID |

**Executor.** `StreamInOrder` is not inductive: it speaks of the lines the
consumer has, and the next step may hand it any line. `OrderInv` adds where all
the others are. The channel holds the lines after those, the goroutine's `held`
is the next, the pipe holds the ones after it, and a Done line is the last thing
sent. `ExitInv` adds that the goroutine's code stays the one in the Done line,
and `CompleteInv` that the scanner loop is left only at the end of the output as
long as every line fits. `FitsBack` lets that hypothesis travel backwards over a
step, since lines never leave the output. Each step lemma has one case per
action, and `QueueOps` says once what Append, Head and Tail do.

**Handler.** Every step of it is a step of the executor or leaves the executor
alone (`ExecutorSteps`), so the executor's invariant carries over; the steps of
stdin and of the agent's end touch nothing it speaks of (`AsideSilent`). `FlowInv` says
when the call has been made and when it has ended, and `SentInv` that the frames
sent are the acknowledgement and then one frame for each line taken from the
channel. The refinement needs both: `ForwardLine` is a streamed line or the
result, and which of the two depends on the line's place in the output, which is
`OrderInv`. `PhaseTable` has the abstract phase of each state, before and after a
step.

**Loop.** `late <= 1` needs to know where the loop can be when it is cancelled:
after a late connection it can only fail once and leave. `CounterInv` ties the
attempt counter to the failures in a row, one behind while a delay is waited for.
`backoff` needs of its power of two only that it is positive: a power counts the
subsets of a set (`PowersOfTwo`), so no induction is needed.

**Session.** `SessionInv` has a part for each question a connection raises.
`OpenInv`: connections not yet opened are untouched, and the loop uses the newest.
`AcceptInv`: which state the relay is in is told by the frames it has read.
`HelloInv`: a second AGENT_HELLO on a connection is neither received nor on its way.
`RegisterInv`: an answer to a question has an AGENT_HELLO before it on its connection.
`ReplyInv`: a goroutine holds a connection the client has had and has written
nothing to a newer one, which is why a reply written late can be lost, but not
overtake. `AskInv`: a question under way has a number above those of all answers
on its connection, and on a live connection every question was missed, is under
way or is answered. `Uplink`, what the relay has received followed by what is on
its way, only grows at its end unless the connection is lost.

**RemoteExec.** Whose line a run prints depends on the relay's table, on frames
that are still under way, and on how often the host's name was used.
`RouteInv` says that the table leads to a run that is alone on its host from its
acceptance until it is gone, and `FrameInv` that whatever a run is given was for a
run of its host: the same run, when it is alone. `OrderInv` puts the lines printed,
those on the run's connection and those on the agent's in one order, with no line
after the result. `WholeInv` adds that every line its command has printed is
in one of the three places as long as the agent keeps its connection; when the
result is read, the other two are empty of lines. `SoleUser` and the absence of
losses travel backwards over a step, as `Fits` does.

**Joins.** `KeysCoverConfig` relates what an agent read at three moments, and
between two of them any number of joins may have written. `KeysNewer` makes it
inductive: a key file that is whole is at least as new as the configuration on
the disk and as the one an agent has read, because a configuration is written
over key files of the same join and key files only ever become newer.
`Progress` says what a join has done by each of its steps, above all that it sends
AGENT_HELLO only after both key files are its own; `SentPairMatches` extends
`RegisteredPairMatches` to the joins whose AGENT_HELLO is still under way.
`DefaultAllows` is about lines alone: the first two words of a line of a named
action are the path and the action, and no action begins another one.

**Codec and exchange.** `Carries(d, f)` says that the bytes `d` begin with the
fields of `f`, each at its place: `Encode` makes them do so (`EncodeCarries`),
`Decode` of such bytes is `f` (`DecodeCarried`), and whatever `Decode` accepts
carries what it returns (`DecodedCarries`). The two directions meet in the length
field, whose four digits are unique (`Digits`, `DigitsUnique`, `LengthField`). A
name comes back from its field because its length is the least place of a zero,
or the whole field (`LeastOf`, by the well-foundedness of the naturals). With
these, `ExchangeInv` only has to say that the bytes under way carry the question
until they are changed, and that what was decoded is `Decode` of them.

Only model-checked: everything temporal (`StreamEnds`, `CancelEndsStream`,
`ClearCommandAnswered`, `CancelledLoopExits`,
`ComesBack`, `SteadyRunEnds`, `RestartedAgentIsJoined`), because liveness under
fairness is out of the prover's reach.

## 6. What is not modelled

- The text of lines, payloads and logs; JSON; the splitting of `--env`.
- The encryption itself (`pkg/crypto/encrypt.go`): a stateless layer over NaCl
  box, and one no agent can reach, since the sender's key is never found.
- The relay's configuration (`LoadRelayConfig`), which no program here reads;
  `muster-agent status`, which prints what it loads and changes nothing.
- What the relay does with a join whose identity an agent is connected with:
  `docs/protocol.md:140` leaves it open.
- An overflow of the header length plus the payload length: `int` has 64 bits in
  every build of the `Makefile`, and the length field 32.
- Time: a delay is a number the loop chooses, and waiting is one step.
- Two commands at once share no state in an agent, so one stands for all of
  them in the executor and the handler; in the session they share the
  connection, and the instances have one.
- Dialling options and TLS; installation scripts and the rest of the service
  file, which are run or copied once by hand.

## 7. Plan

Done, in this order, because the agent's two concurrent halves are where the
code can go wrong unnoticed: `Executor`, `CommandHandler` with `ReplyProtocol`,
`ConnectLoop`, `AgentSession`, `RemoteExec`; then the parts around them, `Join`
with `CommandLine` and `Exchange` with `Codec`; and the proofs of all their
safety properties.

Next: that `Acknowledge`, `Refuse`, `Stream` and `Finish` of `RemoteExec` are, for
each run, steps of `ReplyProtocol`, as `CommandHandler`'s are. So far that is how
they were written, and no theorem says it.
