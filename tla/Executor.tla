------------------------------ MODULE Executor ------------------------------
(***************************************************************************)
(* One call of Execute or ExecuteHook (internal/agent/executor.go): the    *)
(* shell process the call starts, the pipe both its stdout and its stderr  *)
(* go to, the goroutine that scans the pipe line by line, and the channel  *)
(* the caller ranges over.  Calls share nothing but the context, so one    *)
(* call is the whole component.                                            *)
(*                                                                         *)
(* A line is the number of its place in the output: line i is the i-th one *)
(* that entered the pipe.  Overlong holds the places of the lines that do  *)
(* not fit the 64 KB buffer of bufio.Scanner.                              *)
(***************************************************************************)
EXTENDS Integers, Sequences

CONSTANTS
    PipeCap,    \* lines the operating system's pipe holds
    ChanCap,    \* capacity of the OutputLine channel (64 in the code)
    MaxLines,   \* bound: lines the shell prints, and lines in all once a child prints too
    ExitCodes,  \* exit statuses a command may choose to end with
    Overlong    \* places of the lines longer than the scanner's buffer

ASSUME ExecutorAssumption ==
    /\ PipeCap \in Nat \ {0}
    /\ ChanCap \in Nat \ {0}
    /\ MaxLines \in Nat
    /\ ExitCodes \subseteq Nat
    /\ Overlong \subseteq Nat \ {0}

VARIABLES
    ret,        \* what the call returned: nothing yet, a channel or an error
    shell,      \* the bash process
    exit,       \* the status the process left behind
    toWrite,    \* lines the shell has yet to print
    child,      \* a descendant of the shell holds the pipe's write end too
    copying,    \* a goroutine of os/exec still has some of a hook's script to copy to stdin
    stdinHeld,  \* a descendant of the shell holds the read end of that stdin too
    written,    \* lines that entered the pipe so far
    pipe,       \* lines in the pipe
    reader,     \* where the streaming goroutine is
    held,       \* the line it has scanned and not yet sent, 0 for none
    code,       \* its exitCode variable
    ch,         \* the OutputLine channel
    taken,      \* history: what the caller received from ch
    cancelled,  \* the agent's context is cancelled
    alive       \* the agent's process has not ended

stdinVars == <<copying, stdinHeld>>
execVars == <<ret, shell, exit, toWrite, child, stdinVars, written, pipe,
              reader, held, code, ch, taken, cancelled, alive>>

\* ExitError.ExitCode() of a process that a signal ended
Killed == -1

TextLine(i) == [text |-> i, exitCode |-> 0, done |-> FALSE]
DoneLine(c) == [text |-> 0, exitCode |-> c, done |-> TRUE]

OutputLine == [text : Nat, exitCode : Int, done : BOOLEAN]

ExecInit ==
    /\ ret = "none" /\ shell = "none" /\ exit = 0
    /\ toWrite = 0 /\ child = FALSE /\ written = 0 /\ pipe = <<>>
    /\ copying = FALSE /\ stdinHeld = FALSE
    /\ reader = "none" /\ held = 0 /\ code = 0
    /\ ch = <<>> /\ taken = <<>>
    /\ cancelled = FALSE /\ alive = TRUE

-----------------------------------------------------------------------------
(* The call itself. *)

\* An unknown action, a missing service, a command outside the allowlist, a
\* pipe or a process that cannot be created: the caller gets an error.
ExecuteFails ==
    /\ ret = "none"
    /\ ret' = "error"
    /\ UNCHANGED <<shell, exit, toWrite, child, written, pipe, reader, held,
                   code, ch, taken, cancelled, stdinVars, alive>>

\* cmd.Start refuses to start once the context is cancelled.  Execute gives the
\* shell no stdin; the script of ExecuteHook is copied to it, and may be more
\* than the pipe of stdin holds.
ExecuteStarts ==
    /\ ret = "none"
    /\ ~cancelled
    /\ ret' = "ok"
    /\ shell' = "running"
    /\ toWrite' \in 0..MaxLines
    /\ copying' \in BOOLEAN
    /\ reader' = "scan"
    /\ UNCHANGED <<exit, child, written, pipe, held, code, ch, taken, cancelled,
                   stdinHeld, alive>>

-----------------------------------------------------------------------------
(* The processes at the other end of the pipe.  Go's cmd.Wait closes the   *)
(* read end, so nothing enters the pipe once the goroutine is past it, or  *)
(* once the agent's process is gone.                                       *)

PutLine ==
    /\ alive /\ Len(pipe) < PipeCap
    /\ written' = written + 1
    /\ pipe' = Append(pipe, written + 1)

ShellWrites ==
    /\ shell = "running" /\ toWrite > 0
    /\ PutLine
    /\ toWrite' = toWrite - 1
    /\ UNCHANGED <<ret, shell, exit, child, reader, held, code, ch, taken,
                   cancelled, stdinVars, alive>>

\* The shell is inside a write the pipe has no room for.
ShellBlocked == shell = "running" /\ toWrite > 0 /\ Len(pipe) = PipeCap

ShellForks ==
    /\ shell = "running" /\ ~ShellBlocked /\ ~child
    /\ child' = TRUE
    /\ UNCHANGED <<ret, shell, exit, toWrite, written, pipe, reader, held, code,
                   ch, taken, cancelled, stdinVars, alive>>

ChildWrites ==
    /\ child /\ reader \in {"scan", "send", "wait"} /\ written < MaxLines
    /\ PutLine
    /\ UNCHANGED <<ret, shell, exit, toWrite, child, reader, held, code, ch,
                   taken, cancelled, stdinVars, alive>>

ChildCloses ==
    /\ child
    /\ child' = FALSE
    /\ UNCHANGED <<ret, shell, exit, toWrite, written, pipe, reader, held, code,
                   ch, taken, cancelled, stdinVars, alive>>

\* A descendant that redirected its output, or did not, may still hold stdin.
ShellLendsStdin ==
    /\ shell = "running" /\ ~ShellBlocked /\ copying /\ ~stdinHeld
    /\ stdinHeld' = TRUE
    /\ UNCHANGED <<ret, shell, exit, toWrite, child, written, pipe,
                   reader, held, code, ch, taken, cancelled, copying, alive>>

StdinReleased ==
    /\ stdinHeld
    /\ stdinHeld' = FALSE
    /\ UNCHANGED <<ret, shell, exit, toWrite, child, written, pipe,
                   reader, held, code, ch, taken, cancelled, copying, alive>>

\* Somebody reads stdin until the rest of the script fits its pipe.
ScriptRead ==
    /\ copying
    /\ stdinHeld \/ (shell = "running" /\ ~ShellBlocked)
    /\ copying' = FALSE
    /\ UNCHANGED <<ret, shell, exit, toWrite, child, written, pipe,
                   reader, held, code, ch, taken, cancelled, stdinHeld, alive>>

ShellEnds(status) ==
    /\ shell = "running"
    /\ shell' = "exited"
    /\ exit' = status
    /\ UNCHANGED <<ret, toWrite, child, written, pipe, reader, held, code, ch,
                   taken, cancelled, stdinVars, alive>>

ShellExits == toWrite = 0 /\ \E c \in ExitCodes : ShellEnds(c)

\* Faulty variant: exec.Command, which knows nothing of the context.
ShellKilledNever == FALSE /\ ShellEnds(Killed)

\* exec.CommandContext kills the shell, and only the shell, on cancellation.
ShellKilled == alive /\ cancelled /\ ShellEnds(Killed)

Cancel ==
    /\ alive /\ ~cancelled
    /\ cancelled' = TRUE
    /\ UNCHANGED <<ret, shell, exit, toWrite, child, written, pipe, reader, held,
                   code, ch, taken, stdinVars, alive>>

\* The process ends when its main loop has returned after a cancellation, and
\* every goroutine with it (cmd/muster-agent/main.go, cmdRun).
AgentExits ==
    /\ alive /\ cancelled
    /\ alive' = FALSE
    /\ UNCHANGED <<ret, shell, exit, toWrite, child, written, pipe,
                   reader, held, code, ch, taken, cancelled, stdinVars>>

-----------------------------------------------------------------------------
(* The goroutine that copies the script, which os/exec starts for any      *)
(* stdin that is no file, and the streaming goroutine.                     *)

\* The copy ends early, and without an error of Wait, when nobody is left who
\* could read it.
CopyBreaks ==
    /\ copying /\ shell = "exited" /\ ~stdinHeld
    /\ copying' = FALSE
    /\ UNCHANGED <<ret, shell, exit, toWrite, child, written, pipe,
                   reader, held, code, ch, taken, cancelled, stdinHeld, alive>>

ScanLine ==
    /\ reader = "scan" /\ pipe # <<>>
    /\ Head(pipe) \notin Overlong
    /\ held' = Head(pipe)
    /\ pipe' = Tail(pipe)
    /\ reader' = "send"
    /\ UNCHANGED <<ret, shell, exit, toWrite, child, written, code, ch, taken,
                   cancelled, stdinVars, alive>>

\* Scan() returns false with ErrTooLong, which the loop does not look at.
ScanTooLong ==
    /\ reader = "scan" /\ pipe # <<>>
    /\ Head(pipe) \in Overlong
    /\ pipe' = Tail(pipe)
    /\ reader' = "wait"
    /\ UNCHANGED <<ret, shell, exit, toWrite, child, written, held, code, ch,
                   taken, cancelled, stdinVars, alive>>

\* Faulty variant: an empty pipe taken for the end of the output.
ScanEOFOnEmptyPipe ==
    /\ reader = "scan" /\ pipe = <<>>
    /\ reader' = "wait"
    /\ UNCHANGED <<ret, shell, exit, toWrite, child, written, pipe, held, code,
                   ch, taken, cancelled, stdinVars, alive>>

\* The end of the pipe: it is empty and nobody holds its write end.
ScanEOF ==
    /\ reader = "scan" /\ pipe = <<>>
    /\ shell = "exited" /\ ~child
    /\ reader' = "wait"
    /\ UNCHANGED <<ret, shell, exit, toWrite, child, written, pipe, held, code,
                   ch, taken, cancelled, stdinVars, alive>>

\* Faulty variant: a send with a default case, which drops the line when the
\* channel is full.
SendLineOrDrop ==
    /\ reader = "send"
    /\ ch' = IF Len(ch) < ChanCap THEN Append(ch, TextLine(held)) ELSE ch
    /\ held' = 0
    /\ reader' = "scan"
    /\ UNCHANGED <<ret, shell, exit, toWrite, child, written, pipe, code, taken,
                   cancelled, stdinVars, alive>>

\* Faulty variant: a queue without a limit in place of the channel.
SendLineUnbounded ==
    /\ reader = "send"
    /\ ch' = Append(ch, TextLine(held))
    /\ held' = 0
    /\ reader' = "scan"
    /\ UNCHANGED <<ret, shell, exit, toWrite, child, written, pipe, code, taken,
                   cancelled, stdinVars, alive>>

SendLine ==
    /\ reader = "send" /\ Len(ch) < ChanCap
    /\ ch' = Append(ch, TextLine(held))
    /\ held' = 0
    /\ reader' = "scan"
    /\ UNCHANGED <<ret, shell, exit, toWrite, child, written, pipe, code, taken,
                   cancelled, stdinVars, alive>>

\* Faulty variant: a signalled process has no exit code, so 0 is left in place.
WaitCodeOfSignalLost == IF exit = Killed THEN {0} ELSE {exit}

\* The exit code: the process's own, or 1 when the process succeeded but the
\* cancellation reached it before Wait reaped it.
WaitCode ==
    IF exit = 0 /\ cancelled THEN {0, 1} ELSE {exit}

\* cmd.Wait waits for the shell and for the copy of the script, not for the
\* shell's descendants, and then closes the read end.
WaitReturns ==
    /\ reader = "wait" /\ shell = "exited" /\ ~copying
    /\ code' \in WaitCode
    /\ pipe' = <<>>
    /\ reader' = "report"
    /\ UNCHANGED <<ret, shell, exit, toWrite, child, written, held, ch, taken,
                   cancelled, stdinVars, alive>>

\* Faulty variant: the goroutine returns on an error of Wait, and the
\* deferred close ends the channel without a Done line.
ReportDoneOnSuccessOnly ==
    /\ reader = "report" /\ Len(ch) < ChanCap
    /\ ch' = IF code = 0 THEN Append(ch, DoneLine(code)) ELSE ch
    /\ reader' = "closed"
    /\ UNCHANGED <<ret, shell, exit, toWrite, child, written, pipe, held, code,
                   taken, cancelled, stdinVars, alive>>

\* The last send, and the deferred close that follows it.
ReportDone ==
    /\ reader = "report" /\ Len(ch) < ChanCap
    /\ ch' = Append(ch, DoneLine(code))
    /\ reader' = "closed"
    /\ UNCHANGED <<ret, shell, exit, toWrite, child, written, pipe, held, code,
                   taken, cancelled, stdinVars, alive>>

\* The caller ranges over the channel.
Receive ==
    /\ alive /\ ch # <<>>
    /\ taken' = Append(taken, Head(ch))
    /\ ch' = Tail(ch)
    /\ UNCHANGED <<ret, shell, exit, toWrite, child, written, pipe, reader, held,
                   code, cancelled, stdinVars, alive>>

-----------------------------------------------------------------------------

Goroutine ==
    /\ alive
    /\ \/ ScanLine \/ ScanTooLong \/ ScanEOF \/ SendLine \/ WaitReturns \/ ReportDone
       \/ CopyBreaks

Processes ==
    \/ ShellWrites \/ ShellForks \/ ChildWrites \/ ChildCloses
    \/ ShellLendsStdin \/ StdinReleased \/ ScriptRead
    \/ ShellExits \/ ShellKilled

Call == alive /\ (ExecuteFails \/ ExecuteStarts)

ExecNext == Call \/ Processes \/ Goroutine \/ Receive \/ Cancel \/ AgentExits

\* The scheduler runs the goroutines that can run, the kill is delivered, and
\* the caller's loop has no exit but the end of the channel.  Nothing obliges
\* a command to print, to end, to read its stdin or to close its pipes.
ExecFairness ==
    /\ WF_execVars(Goroutine)
    /\ WF_execVars(ShellKilled)
    /\ WF_execVars(Receive)

ExecSpec == ExecInit /\ [][ExecNext]_execVars /\ ExecFairness

\* Commands that end on their own if their output is accepted, and whose
\* background children do too.
CommandEnds ==
    /\ WF_execVars(ShellWrites)
    /\ WF_execVars(ShellExits)
    /\ WF_execVars(ChildCloses)
    /\ WF_execVars(StdinReleased)

EndingSpec == ExecSpec /\ CommandEnds

-----------------------------------------------------------------------------
(* Properties. *)

ExecTypeOK ==
    /\ ret \in {"none", "ok", "error"}
    /\ shell \in {"none", "running", "exited"}
    /\ exit \in Int
    /\ toWrite \in Nat
    /\ child \in BOOLEAN
    /\ copying \in BOOLEAN /\ stdinHeld \in BOOLEAN
    /\ written \in Nat
    /\ pipe \in Seq(Nat)
    /\ Len(pipe) <= PipeCap
    /\ reader \in {"none", "scan", "send", "wait", "report", "closed"}
    /\ held \in Nat
    /\ code \in Int
    /\ ch \in Seq(OutputLine)
    /\ Len(ch) <= ChanCap
    /\ taken \in Seq(OutputLine)
    /\ cancelled \in BOOLEAN
    /\ alive \in BOOLEAN

Ended == \E i \in 1..Len(taken) : taken[i].done

\* What the caller has received is a prefix of the command's output: the i-th
\* line it gets is the i-th line that entered the pipe, with none lost in
\* between, repeated or out of order, and nothing follows the Done line
\* (executor.go, the scanner loop, the send after it and the deferred close).
StreamInOrder ==
    \A i \in 1..Len(taken) :
        IF taken[i].done THEN i = Len(taken) /\ ch = <<>> /\ reader = "closed"
                         ELSE taken[i].text = i

\* No line of the output so far is too long for the scanner.
Fits == \A i \in 1..written : i \notin Overlong

\* The Done line ends the whole output: every line that the shell or a
\* descendant of it printed came before it.
WholeOutput ==
    /\ Len(taken) = written + 1
    /\ toWrite = 0 \/ exit = Killed
    /\ ~child

\* As long as every line fits the scanner, the caller never sees the Done line
\* before the whole output (executor.go, the loop and cmd.Wait after it).
DoneIsComplete == Ended /\ Fits => WholeOutput

\* The reported exit code is the command's own; a cancellation may turn a
\* success into a failure, and nothing ever turns a failure into a success.
ExitCodeIsFaithful ==
    \A i \in 1..Len(taken) : taken[i].done =>
        /\ shell = "exited"
        /\ taken[i].exitCode = exit \/ (cancelled /\ exit = 0 /\ taken[i].exitCode = 1)

\* As long as every line fits the scanner, the goroutine never waits for a
\* shell that is itself blocked on a pipe only that goroutine could drain.
NoWaitCycle == Fits => ~(reader = "wait" /\ ShellBlocked)

\* A descendant of the shell keeps the stream from ending: it holds the output
\* pipe, or it holds stdin without reading the rest of the script.
Detained == child \/ (copying /\ stdinHeld)

\* Once the shell is gone and no descendant detains the stream, the caller gets
\* the Done line, whatever was left in the pipe, in the channel and of the
\* script, unless the agent's process ends first.
StreamEnds == (shell = "exited" /\ ~Detained) ~> (Ended \/ ~alive)

\* A cancellation ends the stream, unless a descendant that outlives the
\* killed shell detains it.
CancelEndsStream == (cancelled /\ ret = "ok") ~> (Ended \/ Detained \/ ~alive)

\* A started command gets its Done line to the caller, or the agent ends.
CommandAnswered == (ret = "ok") ~> (Ended \/ ~alive)

=============================================================================
