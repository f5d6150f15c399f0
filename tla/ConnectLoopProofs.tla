-------------------------- MODULE ConnectLoopProofs --------------------------
(***************************************************************************)
(* When the reconnection loop may end, what a cancellation leaves of it to *)
(* happen, and how long it waits, for every configuration and every order  *)
(* of failures.                                                            *)
(***************************************************************************)
EXTENDS ConnectLoop, FiniteSetTheorems, TLAPS

\* A loop that is about to dial, or may still dial, has opened no connection
\* since the cancellation.
LateInv ==
    /\ late \in 0..1
    /\ loop \in {"dial", "backoff"} \/ ~cancelled => late = 0

ShutdownInv == LateInv /\ ExitsOnlyWhenCancelled

\* Every step keeps ShutdownInv; the only way into the delay is a failure that
\* found the context alive.
LEMMA ShutdownStep == ShutdownInv /\ [LoopNext]_loopVars => ShutdownInv'
<1> SUFFICES ASSUME ShutdownInv, [LoopNext]_loopVars PROVE ShutdownInv'
  OBVIOUS
<1> USE DEF ShutdownInv, LateInv, ExitsOnlyWhenCancelled
<1>1. CASE DialSucceeds
  BY <1>1 DEF DialSucceeds
<1>2. ASSUME NEW n, Retry(n)
      PROVE  ShutdownInv'
  BY <1>2 DEF Retry
<1>3. CASE DialFails
  BY <1>2, <1>3 DEF DialFails
<1>4. CASE AuthFails
  BY <1>2, <1>4 DEF AuthFails
<1>5. CASE Authenticated
  BY <1>5 DEF Authenticated
<1>6. CASE Disconnected
  BY <1>2, <1>6 DEF Disconnected
<1>7. CASE BackoffElapses
  BY <1>7 DEF BackoffElapses
<1>8. CASE BackoffCancelled
  BY <1>8 DEF BackoffCancelled
<1>9. CASE Cancel
  BY <1>9 DEF Cancel
<1>10. CASE UNCHANGED loopVars
  BY <1>10 DEF loopVars
<1> QED
  BY <1>1, <1>3, <1>4, <1>5, <1>6, <1>7, <1>8, <1>9, <1>10 DEF LoopNext, LoopStep

LEMMA ShutdownInit == LoopInit => ShutdownInv
BY DEF LoopInit, ShutdownInv, LateInv, ExitsOnlyWhenCancelled

LEMMA ShutdownAlways == LoopSpec => []ShutdownInv
BY ShutdownInit, ShutdownStep, PTL DEF LoopSpec

\* No sequence of failed dials, refused authentications and lost connections
\* ends the loop: only a cancellation does.
THEOREM LoopRunsUntilCancelled == LoopSpec => []ExitsOnlyWhenCancelled
<1>1. ShutdownInv => ExitsOnlyWhenCancelled
  BY DEF ShutdownInv
<1> QED
  BY <1>1, ShutdownAlways, PTL

\* After the cancellation the loop opens at most one more connection, however
\* the select between the delay and the context falls.
THEOREM AtMostOneLateConnection == LoopSpec => []OneLateConnection
<1>1. ShutdownInv => OneLateConnection
  BY DEF ShutdownInv, LateInv, OneLateConnection
<1> QED
  BY <1>1, ShutdownAlways, PTL

-----------------------------------------------------------------------------
(* The delays. *)

\* A power of two counts the subsets of a set, so it is a natural number and
\* not 0.
LEMMA PowersOfTwo == ASSUME NEW n \in Nat PROVE 2^n \in Nat \ {0}
<1>1. IsFiniteSet(1..n) /\ Cardinality(1..n) = n
  BY FS_Interval
<1>2. IsFiniteSet(SUBSET (1..n)) /\ Cardinality(SUBSET (1..n)) = 2^n
  BY <1>1, FS_SUBSET
<1>3. Cardinality(SUBSET (1..n)) # 0
  BY <1>2, FS_EmptySet
<1> QED
  BY <1>2, <1>3, FS_CardinalityType

\* What backoff returns for an attempt counter of n.
LEMMA BackoffBounds ==
    ASSUME NEW n \in Nat, NEW d \in Backoff(n)
    PROVE  /\ d \in Nat
           /\ d >= BaseDelay * 2^n \/ d >= MaxDelay
           /\ d <= MaxDelay + MaxJitter
<1> USE ConnectLoopAssumption DEF ConnectLoopAssumption
<1>1. BaseDelay * 2^n \in Nat
  BY PowersOfTwo
<1>2. /\ Exponential(n) \in Nat
      /\ Exponential(n) = BaseDelay * 2^n \/ Exponential(n) = MaxDelay
      /\ Exponential(n) <= MaxDelay
  BY <1>1 DEF Exponential
<1>3. PICK j \in Jitter : d = Exponential(n) + j
  BY DEF Backoff
<1>4. j \in Nat /\ j <= MaxJitter
  BY <1>3 DEF Jitter
<1> QED
  BY <1>1, <1>2, <1>3, <1>4

\* The attempt counter is the number of failures in a row, less one while the
\* delay that the last of them caused is waited for.
CounterInv ==
    /\ loop = "backoff" => attempt + 1 = failures /\ delay \in Backoff(attempt)
    /\ loop \in {"dial", "auth"} => attempt = failures
    /\ loop = "connected" => attempt = 0 /\ failures = 0

LEMMA CounterStep ==
    LoopTypeOK /\ CounterInv /\ [LoopNext]_loopVars => (LoopTypeOK /\ CounterInv)'
<1> SUFFICES ASSUME LoopTypeOK, CounterInv, [LoopNext]_loopVars PROVE (LoopTypeOK /\ CounterInv)'
  OBVIOUS
<1> USE ConnectLoopAssumption DEF ConnectLoopAssumption, LoopTypeOK, CounterInv
<1>1. CASE DialSucceeds
  BY <1>1 DEF DialSucceeds
<1>2. ASSUME NEW n \in Nat, Retry(n), failures = n
      PROVE  (LoopTypeOK /\ CounterInv)'
  <2>1. ~cancelled => delay' \in Nat
    BY <1>2, BackoffBounds DEF Retry
  <2> QED
    BY <1>2, <2>1 DEF Retry
<1>3. CASE DialFails
  BY <1>2, <1>3 DEF DialFails
<1>4. CASE AuthFails
  BY <1>2, <1>4 DEF AuthFails
<1>5. CASE Authenticated
  BY <1>5 DEF Authenticated
<1>6. CASE Disconnected
  BY <1>2, <1>6 DEF Disconnected
<1>7. CASE BackoffElapses
  BY <1>7 DEF BackoffElapses
<1>8. CASE BackoffCancelled
  BY <1>8 DEF BackoffCancelled
<1>9. CASE Cancel
  BY <1>9 DEF Cancel
<1>10. CASE UNCHANGED loopVars
  BY <1>10 DEF loopVars
<1> QED
  BY <1>1, <1>3, <1>4, <1>5, <1>6, <1>7, <1>8, <1>9, <1>10 DEF LoopNext, LoopStep

LEMMA LoopInitOK == LoopInit => LoopTypeOK /\ CounterInv
<1> SUFFICES ASSUME LoopInit PROVE LoopTypeOK /\ CounterInv
  OBVIOUS
<1>1. cancelled \in BOOLEAN
  BY Zenon DEF LoopInit
<1> QED
  BY <1>1, ConnectLoopAssumption DEF ConnectLoopAssumption, LoopInit, LoopTypeOK, CounterInv

LEMMA CounterAlways == LoopSpec => [](LoopTypeOK /\ CounterInv)
<1>1. LoopInit => LoopTypeOK /\ CounterInv
  BY LoopInitOK
<1> QED
  BY <1>1, CounterStep, PTL DEF LoopSpec

\* Types: the attempt counter, an int in the code, never falls below 0.
THEOREM LoopTypeCorrect == LoopSpec => []LoopTypeOK
BY CounterAlways, PTL

\* The invariant of the counter says what the delay is.
LEMMA DelayOfCounter == LoopTypeOK /\ CounterInv => DelayFollowsFailures
<1> SUFFICES ASSUME LoopTypeOK, CounterInv, loop = "backoff"
             PROVE  /\ delay >= BaseDelay * 2^(failures - 1) \/ delay >= MaxDelay
                    /\ delay <= MaxDelay + MaxJitter
  BY DEF DelayFollowsFailures
<1>1. attempt \in Nat /\ delay \in Backoff(attempt) /\ failures - 1 = attempt
  BY DEF LoopTypeOK, CounterInv
<1> QED
  BY <1>1, BackoffBounds

\* The delay after the n-th failure in a row is at least BaseDelay times
\* 2^(n-1), or MaxDelay, and at most MaxDelay and the jitter, for every
\* configuration: no connection, refusal or cancellation in between makes the
\* counter forget a failure or count one twice.
THEOREM DelayAlwaysFollowsFailures == LoopSpec => []DelayFollowsFailures
BY DelayOfCounter, CounterAlways, PTL

=============================================================================
