--------------------------- MODULE ExecutorProofs ---------------------------
(***************************************************************************)
(* What Execute and ExecuteHook guarantee for every capacity of the pipe   *)
(* and of the channel, every command and every moment of cancellation.     *)
(***************************************************************************)
EXTENDS Executor, SequenceTheorems, TLAPS

USE ExecutorAssumption DEF ExecutorAssumption

\* The steps of the agent's process and of a hook's stdin, which touch nothing
\* the invariants speak of.
Aside == AgentExits \/ ShellLendsStdin \/ StdinReleased \/ ScriptRead \/ CopyBreaks

LEMMA AsideSilent ==
    Aside => UNCHANGED <<ret, shell, exit, toWrite, child, written, pipe, reader, held, code,
                         ch, taken, cancelled>>
BY DEF Aside, AgentExits, ShellLendsStdin, StdinReleased, ScriptRead, CopyBreaks

-----------------------------------------------------------------------------
(* Typing. *)

LEMMA LineTypes ==
    /\ \A i \in Nat : TextLine(i) \in OutputLine
    /\ \A c \in Int : DoneLine(c) \in OutputLine
BY DEF TextLine, DoneLine, OutputLine

\* What the operations on a queue do, stated once.
LEMMA QueueOps ==
    ASSUME NEW S, NEW q \in Seq(S)
    PROVE  /\ Len(q) \in Nat
           /\ Len(<<>>) = 0
           /\ q = <<>> <=> Len(q) = 0
           /\ \A e \in S : /\ Append(q, e) \in Seq(S)
                           /\ Len(Append(q, e)) = Len(q) + 1
                           /\ \A i \in 1..Len(q) : Append(q, e)[i] = q[i]
                           /\ Append(q, e)[Len(q) + 1] = e
           /\ q # <<>> => /\ Head(q) \in S
                          /\ Head(q) = q[1]
                          /\ Tail(q) \in Seq(S)
                          /\ Len(Tail(q)) = Len(q) - 1
                          /\ \A i \in 1..Len(Tail(q)) : Tail(q)[i] = q[i + 1]
<1>1. Len(q) \in Nat /\ Len(<<>>) = 0 /\ (q = <<>> <=> Len(q) = 0)
  BY EmptySeq, LenProperties
<1>2. ASSUME NEW e \in S
      PROVE  /\ Append(q, e) \in Seq(S)
             /\ Len(Append(q, e)) = Len(q) + 1
             /\ \A i \in 1..Len(q) : Append(q, e)[i] = q[i]
             /\ Append(q, e)[Len(q) + 1] = e
  BY AppendProperties
<1>3. ASSUME q # <<>>
      PROVE  /\ Head(q) \in S
             /\ Head(q) = q[1]
             /\ Tail(q) \in Seq(S)
             /\ Len(Tail(q)) = Len(q) - 1
             /\ \A i \in 1..Len(Tail(q)) : Tail(q)[i] = q[i + 1]
  BY <1>3, HeadTailProperties
<1> QED
  BY <1>1, <1>2, <1>3

\* The type invariant is inductive as it stands.  The only conjuncts with
\* content are the capacities: nothing enters a full pipe or a full channel.
LEMMA TypeStep == ExecTypeOK /\ [ExecNext]_execVars => ExecTypeOK'
<1> SUFFICES ASSUME ExecTypeOK, [ExecNext]_execVars PROVE ExecTypeOK'
  OBVIOUS
<1> USE DEF ExecTypeOK, stdinVars
<1>p. \A e \in Nat : Append(pipe, e) \in Seq(Nat) /\ Len(Append(pipe, e)) = Len(pipe) + 1
  BY QueueOps
<1>q. pipe # <<>> => Head(pipe) \in Nat /\ Tail(pipe) \in Seq(Nat) /\ Len(Tail(pipe)) = Len(pipe) - 1
  BY QueueOps
<1>r. <<>> \in Seq(Nat) /\ Len(<<>>) = 0 /\ Len(pipe) \in Nat /\ Len(ch) \in Nat
  BY QueueOps, EmptySeq
<1>c. \A e \in OutputLine : Append(ch, e) \in Seq(OutputLine) /\ Len(Append(ch, e)) = Len(ch) + 1
  BY QueueOps
<1>d. ch # <<>> => Head(ch) \in OutputLine /\ Tail(ch) \in Seq(OutputLine) /\ Len(Tail(ch)) = Len(ch) - 1
  BY QueueOps
<1>t. \A e \in OutputLine : Append(taken, e) \in Seq(OutputLine)
  BY QueueOps
<1>1. CASE ExecuteFails
  BY <1>1 DEF ExecuteFails
<1>2. CASE ExecuteStarts
  BY <1>2 DEF ExecuteStarts
<1>3. CASE ShellWrites
  BY <1>3, <1>p, <1>r DEF ShellWrites, PutLine
<1>4. CASE ShellForks
  BY <1>4 DEF ShellForks
<1>5. CASE ChildWrites
  BY <1>5, <1>p, <1>r DEF ChildWrites, PutLine
<1>6. CASE ChildCloses
  BY <1>6 DEF ChildCloses
<1>7. CASE ShellExits
  BY <1>7 DEF ShellExits, ShellEnds
<1>8. CASE ShellKilled
  BY <1>8 DEF ShellKilled, ShellEnds, Killed
<1>9. CASE ScanLine
  BY <1>9, <1>q, <1>r DEF ScanLine
<1>10. CASE ScanTooLong
  BY <1>10, <1>q, <1>r DEF ScanTooLong
<1>11. CASE ScanEOF
  BY <1>11 DEF ScanEOF
<1>12. CASE SendLine
  BY <1>12, <1>c, <1>r, LineTypes DEF SendLine
<1>13. CASE WaitReturns
  BY <1>13, <1>r DEF WaitReturns, WaitCode
<1>14. CASE ReportDone
  BY <1>14, <1>c, <1>r, LineTypes DEF ReportDone
<1>15. CASE Receive
  BY <1>15, <1>d, <1>r, <1>t DEF Receive
<1>16. CASE Cancel
  BY <1>16 DEF Cancel
<1>17. CASE Aside
  <2>1. copying' \in BOOLEAN /\ stdinHeld' \in BOOLEAN /\ alive' \in BOOLEAN
    BY <1>17, Zenon DEF Aside, AgentExits, ShellLendsStdin, StdinReleased, ScriptRead, CopyBreaks,
                        stdinVars
  <2> QED
    BY <1>17, <2>1, AsideSilent
<1>18. CASE UNCHANGED execVars
  BY <1>18 DEF execVars, stdinVars
<1> QED
  BY <1>1, <1>2, <1>3, <1>4, <1>5, <1>6, <1>7, <1>8, <1>9, <1>10, <1>11, <1>12,
     <1>13, <1>14, <1>15, <1>16, <1>17, <1>18 DEF ExecNext, Call, Processes, Goroutine, Aside

LEMMA ExecInitType == ExecInit => ExecTypeOK
<1> SUFFICES ASSUME ExecInit PROVE ExecTypeOK
  OBVIOUS
<1>1. pipe \in Seq(Nat) /\ Len(pipe) <= PipeCap
  BY EmptySeq DEF ExecInit
<1>2. ch \in Seq(OutputLine) /\ Len(ch) <= ChanCap
  BY EmptySeq DEF ExecInit
<1>3. taken \in Seq(OutputLine)
  BY EmptySeq DEF ExecInit
<1>4. /\ child \in BOOLEAN /\ cancelled \in BOOLEAN /\ alive \in BOOLEAN
      /\ copying \in BOOLEAN /\ stdinHeld \in BOOLEAN
  BY Zenon DEF ExecInit
<1>5. exit \in Int /\ toWrite \in Nat /\ written \in Nat /\ held \in Nat /\ code \in Int
  BY DEF ExecInit
<1>6. /\ ret \in {"none", "ok", "error"}
      /\ shell \in {"none", "running", "exited"}
      /\ reader \in {"none", "scan", "send", "wait", "report", "closed"}
  BY DEF ExecInit
<1> QED
  BY <1>1, <1>2, <1>3, <1>4, <1>5, <1>6 DEF ExecTypeOK

\* Every variable keeps its type, and neither the pipe nor the channel ever
\* holds more than its capacity.
THEOREM ExecTypeCorrect == ExecSpec => []ExecTypeOK
BY ExecInitType, TypeStep, PTL DEF ExecSpec

-----------------------------------------------------------------------------
(* The invariant.  StreamInOrder speaks of what the caller has; it is      *)
(* inductive only together with where every other line is: in the channel, *)
(* in the goroutine's hands or in the pipe, each at its place.             *)

\* Lines the goroutine has sent, and lines it has scanned.
Sent == Len(taken) + Len(ch)
Scanned == IF reader = "send" THEN Sent + 1 ELSE Sent

\* e may be the i-th line that was sent.
LineAt(e, i) == IF e.done THEN i = Sent /\ reader = "closed" ELSE e.text = i

OrderInv ==
    /\ ret = "ok" <=> reader # "none"
    /\ \A i \in 1..Len(taken) : LineAt(taken[i], i)
    /\ \A i \in 1..Len(ch) : LineAt(ch[i], Len(taken) + i)
    /\ reader = "send" => held = Scanned
    /\ reader \in {"none", "scan", "send"} =>
         /\ written = Scanned + Len(pipe)
         /\ \A i \in 1..Len(pipe) : pipe[i] = Scanned + i
    /\ reader = "none" => shell = "none" /\ ~child

\* The code in the Done line, wherever it is, is the one the goroutine found.
ExitInv ==
    /\ reader \in {"report", "closed"} =>
         /\ shell = "exited"
         /\ code = exit \/ (cancelled /\ exit = 0 /\ code = 1)
    /\ \A i \in 1..Len(taken) : taken[i].done => taken[i].exitCode = code
    /\ \A i \in 1..Len(ch) : ch[i].done => ch[i].exitCode = code

\* As long as every line fits, the goroutine stops scanning only at the end of
\* the output.
ScannedToTheEnd ==
    /\ shell = "exited" => toWrite = 0 \/ exit = Killed
    /\ reader \in {"wait", "report", "closed"} => shell = "exited" /\ ~child
    /\ reader \in {"wait", "report"} => Sent = written
    /\ reader = "closed" => Sent = written + 1

CompleteInv == Fits => ScannedToTheEnd

LEMMA OrderStep == ExecTypeOK /\ OrderInv /\ [ExecNext]_execVars => OrderInv'
<1> SUFFICES ASSUME ExecTypeOK, OrderInv, [ExecNext]_execVars PROVE OrderInv'
  OBVIOUS
<1>l. Len(pipe) \in Nat /\ Len(ch) \in Nat /\ Len(taken) \in Nat /\ written \in Nat /\ Len(<<>>) = 0
  BY QueueOps DEF ExecTypeOK
<1>p. \A e \in Nat : /\ Len(Append(pipe, e)) = Len(pipe) + 1
                     /\ \A i \in 1..Len(pipe) : Append(pipe, e)[i] = pipe[i]
                     /\ Append(pipe, e)[Len(pipe) + 1] = e
  BY QueueOps DEF ExecTypeOK
<1>q. pipe # <<>> => /\ Head(pipe) = pipe[1]
                     /\ Len(pipe) > 0
                     /\ Len(Tail(pipe)) = Len(pipe) - 1
                     /\ \A i \in 1..Len(Tail(pipe)) : Tail(pipe)[i] = pipe[i + 1]
  BY QueueOps DEF ExecTypeOK
<1>a. \A e \in OutputLine : /\ Len(Append(ch, e)) = Len(ch) + 1
                            /\ \A i \in 1..Len(ch) : Append(ch, e)[i] = ch[i]
                            /\ Append(ch, e)[Len(ch) + 1] = e
  BY QueueOps DEF ExecTypeOK
<1>h. ch # <<>> => /\ Head(ch) \in OutputLine /\ Head(ch) = ch[1] /\ Len(ch) > 0
                   /\ Len(Tail(ch)) = Len(ch) - 1
                   /\ \A i \in 1..Len(Tail(ch)) : Tail(ch)[i] = ch[i + 1]
  BY QueueOps DEF ExecTypeOK
<1>t. \A e \in OutputLine : /\ Len(Append(taken, e)) = Len(taken) + 1
                            /\ \A i \in 1..Len(taken) : Append(taken, e)[i] = taken[i]
                            /\ Append(taken, e)[Len(taken) + 1] = e
  BY QueueOps DEF ExecTypeOK
<1>f. reader # "closed" =>
        \A i \in 1..Len(ch) : ch[i].done = FALSE /\ ch[i].text = Len(taken) + i
  <2>1. \A i \in 1..Len(ch) : ch[i] \in OutputLine
    BY ElementOfSeq DEF ExecTypeOK
  <2> QED
    BY <2>1 DEF OrderInv, LineAt, OutputLine
<1>1. CASE ExecuteFails
  BY <1>1 DEF OrderInv, Sent, Scanned, LineAt, ExecuteFails
<1>2. CASE ExecuteStarts
  BY <1>2 DEF OrderInv, Sent, Scanned, LineAt, ExecuteStarts
<1>3. ASSUME PutLine, UNCHANGED <<ret, shell, child, reader, held, ch, taken>>, reader # "none"
      PROVE  OrderInv'
  <2>1. /\ Len(pipe') = Len(pipe) + 1
        /\ \A i \in 1..Len(pipe) : pipe'[i] = pipe[i]
        /\ pipe'[Len(pipe) + 1] = written + 1
    BY <1>3, <1>l, <1>p DEF PutLine
  <2>2. Sent' = Sent /\ Scanned' = Scanned
    BY <1>3 DEF Sent, Scanned
  <2>3. \A e, i : LineAt(e, i)' <=> LineAt(e, i)
    BY <1>3, <2>2 DEF LineAt
  <2>4. ASSUME reader' \in {"none", "scan", "send"}
        PROVE  /\ written' = Scanned' + Len(pipe')
               /\ \A i \in 1..Len(pipe') : pipe'[i] = Scanned' + i
    <3>1. Scanned \in Nat
      BY <1>l DEF Scanned, Sent
    <3>2. written = Scanned + Len(pipe) /\ \A i \in 1..Len(pipe) : pipe[i] = Scanned + i
      BY <1>3, <2>4 DEF OrderInv
    <3>3. \A i \in 1..Len(pipe') : i \in 1..Len(pipe) \/ i = Len(pipe) + 1
      BY <1>l, <2>1
    <3>4. written' = Scanned' + Len(pipe')
      BY <1>3, <1>l, <2>1, <2>2, <3>1, <3>2 DEF PutLine
    <3>5. pipe'[Len(pipe) + 1] = Scanned' + (Len(pipe) + 1)
      BY <1>l, <2>1, <2>2, <3>1, <3>2
    <3> QED
      BY <2>1, <2>2, <3>2, <3>3, <3>4, <3>5
  <2> QED
    BY <1>3, <2>2, <2>3, <2>4 DEF OrderInv
<1>4. CASE ShellWrites
  <2>1. reader # "none"
    BY <1>4 DEF ShellWrites, OrderInv
  <2> QED
    BY <1>3, <1>4, <2>1 DEF ShellWrites
<1>5. CASE ShellForks
  BY <1>5 DEF OrderInv, Sent, Scanned, LineAt, ShellForks
<1>6. CASE ChildWrites
  <2>1. reader # "none"
    BY <1>6 DEF ChildWrites
  <2> QED
    BY <1>3, <1>6, <2>1 DEF ChildWrites
<1>7. CASE ChildCloses
  BY <1>7 DEF OrderInv, Sent, Scanned, LineAt, ChildCloses
<1>8. CASE ShellExits
  BY <1>8 DEF OrderInv, Sent, Scanned, LineAt, ShellExits, ShellEnds
<1>9. CASE ShellKilled
  BY <1>9 DEF OrderInv, Sent, Scanned, LineAt, ShellKilled, ShellEnds
<1>10. CASE ScanLine
  <2>1. /\ pipe # <<>> /\ held' = pipe[1] /\ pipe' = Tail(pipe) /\ written' = written
        /\ reader = "scan" /\ reader' = "send" /\ UNCHANGED <<ret, shell, child, ch, taken>>
    BY <1>10, <1>q DEF ScanLine
  <2>2. Sent' = Sent /\ Scanned = Sent /\ Scanned' = Sent + 1 /\ Sent \in Nat
    BY <1>l, <2>1 DEF Sent, Scanned
  <2>3. \A e, i : LineAt(e, i)' <=> LineAt(e, i)
    BY <2>1, <2>2 DEF LineAt
  <2>4. written = Sent + Len(pipe) /\ \A i \in 1..Len(pipe) : pipe[i] = Sent + i
    BY <2>1, <2>2 DEF OrderInv
  <2>5. held' = Scanned' /\ written' = Scanned' + Len(pipe')
    BY <1>l, <1>q, <2>1, <2>2, <2>4
  <2>6. \A i \in 1..Len(pipe') : pipe'[i] = Scanned' + i
    BY <1>l, <1>q, <2>1, <2>2, <2>4
  <2> QED
    BY <2>1, <2>3, <2>5, <2>6 DEF OrderInv
<1>11. CASE ScanTooLong
  BY <1>11 DEF OrderInv, Sent, Scanned, LineAt, ScanTooLong
<1>12. CASE ScanEOF
  BY <1>12 DEF OrderInv, Sent, Scanned, LineAt, ScanEOF
<1>13. CASE SendLine
  <2>1. /\ ch' = Append(ch, TextLine(held)) /\ taken' = taken /\ pipe' = pipe
        /\ written' = written /\ ret' = ret /\ reader = "send" /\ reader' = "scan"
    BY <1>13 DEF SendLine
  <2>2. TextLine(held) \in OutputLine /\ TextLine(held).text = held /\ TextLine(held).done = FALSE
    BY LineTypes DEF TextLine, ExecTypeOK
  <2>3. held = Sent + 1 /\ Sent' = Sent + 1 /\ Scanned' = Scanned
    BY <1>l, <1>a, <2>1, <2>2 DEF OrderInv, Sent, Scanned
  <2>4. \A j \in 1..Len(taken') : LineAt(taken[j], j)'
    BY <1>l, <2>1 DEF OrderInv, LineAt
  <2>5. \A j \in 1..Len(ch') : LineAt(ch[j], Len(taken) + j)'
    <3>1. \A j \in 1..Len(ch) :
            ch'[j] = ch[j] /\ ch[j].done = FALSE /\ ch[j].text = Len(taken) + j
      BY <1>f, <1>l, <1>a, <2>1, <2>2
    <3>2. ch'[Len(ch) + 1] = TextLine(held) /\ Len(ch') = Len(ch) + 1
      BY <1>l, <1>a, <2>1, <2>2
    <3>3. \A j \in 1..Len(ch') : j \in 1..Len(ch) \/ j = Len(ch) + 1
      BY <1>l, <3>2
    <3>4. ASSUME NEW j \in 1..Len(ch)
          PROVE  LineAt(ch[j], Len(taken) + j)'
      BY <1>l, <2>1, <2>3, <3>1 DEF LineAt
    <3>5. LineAt(ch[Len(ch)], Len(taken) + Len(ch))'
      BY <1>l, <2>1, <2>2, <2>3, <3>2 DEF LineAt, Sent
    <3> QED
      BY <1>l, <3>2, <3>3, <3>4, <3>5
  <2> QED
    BY <1>l, <2>1, <2>3, <2>4, <2>5 DEF OrderInv
<1>14. CASE WaitReturns
  BY <1>14 DEF OrderInv, Sent, Scanned, LineAt, WaitReturns
<1>15. CASE ReportDone
  <2>1. /\ ch' = Append(ch, DoneLine(code)) /\ taken' = taken
        /\ ret' = ret /\ reader = "report" /\ reader' = "closed"
    BY <1>15 DEF ReportDone
  <2>2. DoneLine(code) \in OutputLine /\ DoneLine(code).done = TRUE
    BY LineTypes DEF DoneLine, ExecTypeOK
  <2>3. Sent' = Sent + 1 /\ Sent' = Len(taken) + Len(ch')
    BY <1>l, <1>a, <2>1, <2>2 DEF Sent
  <2>4. \A j \in 1..Len(taken') : LineAt(taken[j], j)'
    BY <1>l, <2>1 DEF OrderInv, LineAt
  <2>5. \A j \in 1..Len(ch') : LineAt(ch[j], Len(taken) + j)'
    <3>1. \A j \in 1..Len(ch) :
            ch'[j] = ch[j] /\ ch[j].done = FALSE /\ ch[j].text = Len(taken) + j
      BY <1>f, <1>l, <1>a, <2>1, <2>2
    <3>2. ch'[Len(ch) + 1] = DoneLine(code) /\ Len(ch') = Len(ch) + 1
      BY <1>l, <1>a, <2>1, <2>2
    <3>3. \A j \in 1..Len(ch') : j \in 1..Len(ch) \/ j = Len(ch) + 1
      BY <1>l, <3>2
    <3>4. ASSUME NEW j \in 1..Len(ch)
          PROVE  LineAt(ch[j], Len(taken) + j)'
      BY <1>l, <2>1, <2>3, <3>1 DEF LineAt
    <3>5. LineAt(ch[Len(ch)], Len(taken) + Len(ch))'
      BY <1>l, <2>1, <2>2, <2>3, <3>2 DEF LineAt, Sent
    <3> QED
      BY <1>l, <3>2, <3>3, <3>4, <3>5
  <2> QED
    BY <1>l, <2>1, <2>4, <2>5 DEF OrderInv
<1>16. CASE Receive
  <2>1. /\ ch # <<>> /\ ch' = Tail(ch) /\ taken' = Append(taken, Head(ch))
        /\ UNCHANGED <<ret, shell, child, written, pipe, reader, held>>
    BY <1>16 DEF Receive
  <2>2. /\ Len(taken') = Len(taken) + 1 /\ Len(ch') = Len(ch) - 1
        /\ \A j \in 1..Len(taken) : taken'[j] = taken[j]
        /\ taken'[Len(taken) + 1] = ch[1]
        /\ \A j \in 1..(Len(ch) - 1) : ch'[j] = ch[j + 1]
    BY <1>h, <1>t, <2>1
  <2>3. Sent' = Sent /\ Scanned' = Scanned
    BY <1>l, <2>1, <2>2 DEF Sent, Scanned
  <2>4. \A e, j : LineAt(e, j)' <=> LineAt(e, j)
    BY <2>1, <2>3 DEF LineAt
  <2>5. \A j \in 1..Len(taken') : LineAt(taken'[j], j)
    BY <1>l, <1>h, <2>1, <2>2 DEF OrderInv
  <2>6. \A j \in 1..Len(ch') : LineAt(ch'[j], Len(taken') + j)
    BY <1>l, <2>2 DEF OrderInv
  <2> QED
    BY <2>1, <2>3, <2>4, <2>5, <2>6 DEF OrderInv
<1>17. CASE Cancel
  BY <1>17 DEF OrderInv, Sent, Scanned, LineAt, Cancel
<1>18. CASE Aside
  BY <1>18, AsideSilent DEF OrderInv, Sent, Scanned, LineAt
<1>19. CASE UNCHANGED execVars
  BY <1>19 DEF OrderInv, Sent, Scanned, LineAt, execVars, stdinVars
<1> QED
  BY <1>1, <1>2, <1>4, <1>5, <1>6, <1>7, <1>8, <1>9, <1>10, <1>11, <1>12,
     <1>13, <1>14, <1>15, <1>16, <1>17, <1>18, <1>19 DEF ExecNext, Call, Processes, Goroutine, Aside

LEMMA ExitStep ==
    ExecTypeOK /\ OrderInv /\ ExitInv /\ [ExecNext]_execVars => ExitInv'
<1> SUFFICES ASSUME ExecTypeOK, OrderInv, ExitInv, [ExecNext]_execVars PROVE ExitInv'
  OBVIOUS
<1>l. Len(ch) \in Nat /\ Len(taken) \in Nat
  BY QueueOps DEF ExecTypeOK
<1>a. \A e \in OutputLine : /\ Len(Append(ch, e)) = Len(ch) + 1
                            /\ \A i \in 1..Len(ch) : Append(ch, e)[i] = ch[i]
                            /\ Append(ch, e)[Len(ch) + 1] = e
  BY QueueOps DEF ExecTypeOK
<1>h. ch # <<>> => /\ Head(ch) \in OutputLine /\ Head(ch) = ch[1] /\ Len(ch) > 0
                   /\ Len(Tail(ch)) = Len(ch) - 1
                   /\ \A i \in 1..Len(Tail(ch)) : Tail(ch)[i] = ch[i + 1]
  BY QueueOps DEF ExecTypeOK
<1>t. \A e \in OutputLine : /\ Len(Append(taken, e)) = Len(taken) + 1
                            /\ \A i \in 1..Len(taken) : Append(taken, e)[i] = taken[i]
                            /\ Append(taken, e)[Len(taken) + 1] = e
  BY QueueOps DEF ExecTypeOK
\* Before the Done line is sent there is none.
<1>n. reader # "closed" => /\ \A i \in 1..Len(taken) : ~taken[i].done
                           /\ \A i \in 1..Len(ch) : ~ch[i].done
  BY DEF OrderInv, LineAt
\* Steps that leave the queues, the code and the reader alone.
<1>1. ASSUME UNCHANGED <<reader, code, ch, taken>>,
             shell = "exited" => shell' = "exited" /\ exit' = exit,
             cancelled => cancelled'
      PROVE  ExitInv'
  BY <1>1 DEF ExitInv
<1>2. CASE ExecuteFails
  BY <1>1, <1>2 DEF ExecuteFails
<1>3. CASE ExecuteStarts
  BY <1>3, <1>n DEF ExecuteStarts, ExitInv
<1>4. CASE ShellWrites
  BY <1>1, <1>4 DEF ShellWrites
<1>5. CASE ShellForks
  BY <1>1, <1>5 DEF ShellForks
<1>6. CASE ChildWrites
  BY <1>1, <1>6 DEF ChildWrites
<1>7. CASE ChildCloses
  BY <1>1, <1>7 DEF ChildCloses
<1>8. CASE ShellExits
  BY <1>1, <1>8 DEF ShellExits, ShellEnds
<1>9. CASE ShellKilled
  BY <1>1, <1>9 DEF ShellKilled, ShellEnds
<1>10. CASE ScanLine
  BY <1>10, <1>n DEF ScanLine, ExitInv
<1>11. CASE ScanTooLong
  BY <1>11, <1>n DEF ScanTooLong, ExitInv
<1>12. CASE ScanEOF
  BY <1>12, <1>n DEF ScanEOF, ExitInv
<1>13. CASE SendLine
  <2>1. TextLine(held) \in OutputLine /\ TextLine(held).done = FALSE
    BY LineTypes DEF TextLine, ExecTypeOK
  <2>2. \A i \in 1..Len(ch') : i \in 1..Len(ch) \/ i = Len(ch) + 1
    BY <1>13, <1>l, <1>a, <2>1 DEF SendLine
  <2> QED
    BY <1>13, <1>n, <1>a, <2>1, <2>2 DEF SendLine, ExitInv
<1>14. CASE WaitReturns
  <2>1. code' = exit \/ (cancelled /\ exit = 0 /\ code' = 1)
    BY <1>14 DEF WaitReturns, WaitCode
  <2> QED
    BY <1>14, <1>n, <2>1 DEF WaitReturns, ExitInv
<1>15. CASE ReportDone
  <2>1. DoneLine(code) \in OutputLine /\ DoneLine(code).exitCode = code
    BY LineTypes DEF DoneLine, ExecTypeOK
  <2>2. \A i \in 1..Len(ch') : i \in 1..Len(ch) \/ i = Len(ch) + 1
    BY <1>15, <1>l, <1>a, <2>1 DEF ReportDone
  <2> QED
    BY <1>15, <1>a, <2>1, <2>2 DEF ReportDone, ExitInv
<1>16. CASE Receive
  <2>1. /\ ch # <<>> /\ ch' = Tail(ch) /\ taken' = Append(taken, Head(ch))
        /\ UNCHANGED <<shell, exit, reader, code, cancelled>>
    BY <1>16 DEF Receive
  <2>2. \A i \in 1..Len(taken') : i \in 1..Len(taken) \/ i = Len(taken) + 1
    BY <1>l, <1>h, <1>t, <2>1
  <2>3. \A i \in 1..Len(taken') : taken'[i].done => taken'[i].exitCode = code
    BY <1>l, <1>h, <1>t, <2>1, <2>2 DEF ExitInv
  <2>4. \A i \in 1..Len(ch') : ch'[i].done => ch'[i].exitCode = code
    BY <1>l, <1>h, <2>1 DEF ExitInv
  <2> QED
    BY <2>1, <2>3, <2>4 DEF ExitInv
<1>17. CASE Cancel
  BY <1>1, <1>17 DEF Cancel
<1>18. CASE Aside
  BY <1>1, <1>18, AsideSilent
<1>19. CASE UNCHANGED execVars
  BY <1>1, <1>19 DEF execVars, stdinVars
<1> QED
  BY <1>2, <1>3, <1>4, <1>5, <1>6, <1>7, <1>8, <1>9, <1>10, <1>11, <1>12,
     <1>13, <1>14, <1>15, <1>16, <1>17, <1>18, <1>19 DEF ExecNext, Call, Processes, Goroutine, Aside

\* Lines that have entered the pipe stay in the output: Fits, once false, never
\* holds again.
LEMMA FitsBack == ExecTypeOK /\ [ExecNext]_execVars /\ Fits' => Fits
<1> SUFFICES ASSUME ExecTypeOK, [ExecNext]_execVars PROVE written' >= written /\ written' \in Nat
  BY DEF Fits, ExecTypeOK
<1>1. CASE Aside
  BY <1>1, AsideSilent DEF ExecTypeOK
<1>2. CASE ~Aside
  BY <1>2 DEF Aside, ExecTypeOK, ExecNext, Call, Processes, Goroutine, ExecuteFails, ExecuteStarts,
         ShellWrites, ShellForks, ChildWrites, PutLine, ChildCloses, ShellExits, ShellEnds,
         ShellKilled, Cancel, ScanLine, ScanTooLong, ScanEOF, SendLine, WaitReturns,
         ReportDone, Receive, execVars, stdinVars
<1> QED
  BY <1>1, <1>2

\* The goroutine leaves the scanner loop through ScanEOF as long as every line
\* fits: the one at the head of the pipe is one of those that have entered it.
LEMMA CompleteStep ==
    ExecTypeOK /\ OrderInv /\ CompleteInv /\ [ExecNext]_execVars => CompleteInv'
<1> SUFFICES ASSUME ExecTypeOK, OrderInv, CompleteInv, [ExecNext]_execVars, Fits'
             PROVE  ScannedToTheEnd'
  BY DEF CompleteInv
<1>c. ScannedToTheEnd
  BY FitsBack DEF CompleteInv
<1>l. Len(ch) \in Nat /\ Len(taken) \in Nat /\ Len(pipe) \in Nat /\ Len(<<>>) = 0 /\ written \in Nat
  BY QueueOps DEF ExecTypeOK
<1>a. \A e \in OutputLine : Len(Append(ch, e)) = Len(ch) + 1
  BY QueueOps DEF ExecTypeOK
<1>h. ch # <<>> => Head(ch) \in OutputLine /\ Len(Tail(ch)) = Len(ch) - 1
  BY QueueOps DEF ExecTypeOK
<1>t. \A e \in OutputLine : Len(Append(taken, e)) = Len(taken) + 1
  BY QueueOps DEF ExecTypeOK
<1>1. CASE ExecuteFails
  BY <1>c, <1>1 DEF ExecuteFails, ScannedToTheEnd, Sent
<1>2. CASE ExecuteStarts
  BY <1>c, <1>2 DEF ExecuteStarts, ScannedToTheEnd, Sent
<1>3. CASE ShellWrites
  BY <1>c, <1>3 DEF ShellWrites, ScannedToTheEnd, Sent
<1>4. CASE ShellForks
  BY <1>c, <1>4 DEF ShellForks, ScannedToTheEnd, Sent
<1>5. CASE ChildWrites
  BY <1>c, <1>5 DEF ChildWrites, ScannedToTheEnd, Sent
<1>6. CASE ChildCloses
  BY <1>c, <1>6 DEF ChildCloses, ScannedToTheEnd, Sent
<1>7. CASE ShellExits
  BY <1>c, <1>7 DEF ShellExits, ShellEnds, ScannedToTheEnd, Sent
<1>8. CASE ShellKilled
  BY <1>c, <1>8 DEF ShellKilled, ShellEnds, ScannedToTheEnd, Sent
<1>9. CASE ScanLine
  BY <1>c, <1>9 DEF ScanLine, ScannedToTheEnd, Sent
<1>10. CASE ScanTooLong
  <2>1. Len(pipe) > 0 /\ Head(pipe) = pipe[1] /\ Scanned \in Nat
    BY <1>10, <1>l, QueueOps DEF ScanTooLong, ExecTypeOK, Scanned, Sent
  <2>2. Head(pipe) \in 1..written
    BY <1>10, <1>l, <2>1 DEF ScanTooLong, OrderInv
  <2> QED
    BY <1>10, <2>2, FitsBack DEF ScanTooLong, Fits
<1>11. CASE ScanEOF
  <2>1. written = Sent
    BY <1>11, <1>l DEF ScanEOF, OrderInv, Scanned, Sent
  <2> QED
    BY <1>c, <1>11, <2>1 DEF ScanEOF, ScannedToTheEnd, Sent
<1>12. CASE SendLine
  BY <1>c, <1>12 DEF SendLine, ScannedToTheEnd
<1>13. CASE WaitReturns
  BY <1>c, <1>13 DEF WaitReturns, ScannedToTheEnd, Sent
<1>14. CASE ReportDone
  <2>1. DoneLine(code) \in OutputLine
    BY LineTypes DEF ExecTypeOK
  <2> QED
    BY <1>c, <1>14, <1>l, <1>a, <2>1 DEF ReportDone, ScannedToTheEnd, Sent
<1>15. CASE Receive
  <2>1. Sent' = Sent
    BY <1>15, <1>l, <1>h, <1>t DEF Receive, Sent
  <2> QED
    BY <1>c, <1>15, <2>1 DEF Receive, ScannedToTheEnd
<1>16. CASE Cancel
  BY <1>c, <1>16 DEF Cancel, ScannedToTheEnd, Sent
<1>17. CASE Aside
  BY <1>c, <1>17, AsideSilent DEF ScannedToTheEnd, Sent
<1>18. CASE UNCHANGED execVars
  BY <1>c, <1>18 DEF execVars, stdinVars, ScannedToTheEnd, Sent
<1> QED
  BY <1>1, <1>2, <1>3, <1>4, <1>5, <1>6, <1>7, <1>8, <1>9, <1>10, <1>11, <1>12,
     <1>13, <1>14, <1>15, <1>16, <1>17, <1>18 DEF ExecNext, Call, Processes, Goroutine, Aside

-----------------------------------------------------------------------------
(* The theorems. *)

LEMMA InitInv == ExecInit => OrderInv /\ ExitInv /\ CompleteInv
<1> SUFFICES ASSUME ExecInit PROVE OrderInv /\ ExitInv /\ CompleteInv
  OBVIOUS
<1>1. Len(ch) = 0 /\ Len(taken) = 0 /\ Len(pipe) = 0
  BY EmptySeq DEF ExecInit
<1>2. reader = "none" /\ ret = "none" /\ shell = "none" /\ ~child /\ written = 0
  BY DEF ExecInit
<1> QED
  BY <1>1, <1>2 DEF OrderInv, ExitInv, CompleteInv, ScannedToTheEnd, Sent, Scanned

LEMMA OrderAlways == ExecSpec => [](ExecTypeOK /\ OrderInv /\ ExitInv)
<1>1. ExecTypeOK /\ OrderInv /\ ExitInv /\ [ExecNext]_execVars
        => (ExecTypeOK /\ OrderInv /\ ExitInv)'
  BY TypeStep, OrderStep, ExitStep
<1>2. ExecInit => OrderInv /\ ExitInv
  BY InitInv
<1> QED
  BY <1>1, <1>2, ExecTypeCorrect, PTL DEF ExecSpec

\* For every command, capacity and moment of cancellation, the caller receives
\* the lines of the output in order, none lost in between and none repeated,
\* and nothing after the Done line.
THEOREM ExecStreamInOrder == ExecSpec => []StreamInOrder
<1>1. ExecTypeOK /\ OrderInv => StreamInOrder
  <2> SUFFICES ASSUME ExecTypeOK, OrderInv, NEW i \in 1..Len(taken)
               PROVE  IF taken[i].done THEN i = Len(taken) /\ ch = <<>> /\ reader = "closed"
                                       ELSE taken[i].text = i
    BY DEF StreamInOrder
  <2>1. Len(taken) \in Nat /\ Len(ch) \in Nat /\ (Len(ch) = 0 => ch = <<>>)
    BY QueueOps DEF ExecTypeOK
  <2>2. LineAt(taken[i], i)
    BY DEF OrderInv
  <2> QED
    BY <2>1, <2>2 DEF LineAt, Sent
<1> QED
  BY <1>1, OrderAlways, PTL

\* The exit code in the Done line is the command's own, or 1 for a success
\* that the cancellation reached before it was reaped.
THEOREM ExecExitCode == ExecSpec => []ExitCodeIsFaithful
<1>1. OrderInv /\ ExitInv => ExitCodeIsFaithful
  BY DEF OrderInv, LineAt, ExitInv, ExitCodeIsFaithful
<1> QED
  BY <1>1, OrderAlways, PTL

LEMMA CompleteAlways == ExecSpec => []CompleteInv
<1>1. ExecTypeOK /\ OrderInv /\ CompleteInv /\ [ExecNext]_execVars => CompleteInv'
  BY CompleteStep
<1>2. ExecInit => CompleteInv
  BY InitInv
<1> QED
  BY <1>1, <1>2, OrderAlways, PTL DEF ExecSpec

\* As long as every line fits the scanner, the Done line comes after the whole
\* output of the shell and of the descendants that shared its pipe.
THEOREM ExecComplete == ExecSpec => []DoneIsComplete
<1>1. ExecTypeOK /\ OrderInv /\ CompleteInv => DoneIsComplete
  <2> SUFFICES ASSUME ExecTypeOK, OrderInv, CompleteInv, Ended, Fits PROVE WholeOutput
    BY DEF DoneIsComplete
  <2>1. PICK i \in 1..Len(taken) : taken[i].done
    BY DEF Ended
  <2>2. reader = "closed" /\ i = Sent
    BY <2>1 DEF OrderInv, LineAt
  <2>3. Len(taken) \in Nat /\ Len(ch) \in Nat
    BY QueueOps DEF ExecTypeOK
  <2>4. Len(taken) = Sent
    BY <2>2, <2>3 DEF Sent
  <2> QED
    BY <2>2, <2>4 DEF CompleteInv, ScannedToTheEnd, WholeOutput
<1> QED
  BY <1>1, OrderAlways, CompleteAlways, PTL

\* As long as every line fits the scanner, the goroutine never waits for a
\* shell that waits for the goroutine.
THEOREM ExecNoWaitCycle == ExecSpec => []NoWaitCycle
<1>1. CompleteInv => NoWaitCycle
  BY DEF CompleteInv, ScannedToTheEnd, NoWaitCycle, ShellBlocked
<1> QED
  BY <1>1, CompleteAlways, PTL

=============================================================================
