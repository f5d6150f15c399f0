----------------------------- MODULE ConnectLoop -----------------------------
(***************************************************************************)
(* The reconnection loop of the agent, ConnectLoop and backoff in          *)
(* pkg/tunnel/reconnect.go, with the outcomes of Connect, Authenticate and *)
(* the onConnected callback left open.  AgentSession fills them in.        *)
(***************************************************************************)
EXTENDS Integers

CONSTANTS
    BaseDelay, MaxDelay, MaxJitter,     \* ReconnectConfig, in one unit of time
    MaxAttempts                         \* bound: consecutive failures

ASSUME ConnectLoopAssumption ==
    /\ BaseDelay \in Nat \ {0}
    /\ MaxDelay \in Nat \ {0}
    /\ BaseDelay <= MaxDelay
    /\ MaxJitter \in Nat
    /\ MaxAttempts \in Nat \ {0}

VARIABLES
    loop,       \* what the loop is doing
    attempt,    \* its attempt counter
    delay,      \* the last delay it chose
    cancelled,  \* the context is cancelled
    failures,   \* history: failures in a row since a connection was authenticated
    late        \* history: connections opened after the cancellation; 2 is "more than one"

loopVars == <<loop, attempt, delay, cancelled, failures, late>>

-----------------------------------------------------------------------------

\* BaseDelay * 2^attempt, cut at MaxDelay.
Exponential(n) ==
    LET d == BaseDelay * 2^n IN IF d > MaxDelay THEN MaxDelay ELSE d

\* rand.Int63n(n) is in 0 .. n - 1; no jitter is drawn when MaxJitter is 0.
Jitter == IF MaxJitter > 0 THEN 0..(MaxJitter - 1) ELSE {0}

Backoff(n) == {Exponential(n) + j : j \in Jitter}

LoopInit ==
    /\ loop = "dial" /\ attempt = 0 /\ delay = 0 /\ cancelled = FALSE
    /\ failures = 0 /\ late = 0

DialSucceeds ==
    /\ loop = "dial"
    /\ loop' = "auth"
    /\ late' = IF cancelled /\ late < 2 THEN late + 1 ELSE late
    /\ UNCHANGED <<attempt, delay, cancelled, failures>>

\* Faulty variant: the check of the context before the delay is forgotten.
Retry_IgnoresContext(counted) ==
    /\ failures < MaxAttempts
    /\ loop' = "backoff"
    /\ attempt' = counted
    /\ delay' \in Backoff(counted)
    /\ failures' = failures + 1
    /\ UNCHANGED <<cancelled, late>>

\* The end of a failed round: return if the context is cancelled, otherwise
\* choose the delay and wait.
Retry(counted) ==
    /\ attempt' = counted
    /\ IF cancelled
         THEN loop' = "exited" /\ UNCHANGED <<delay, failures>>
         ELSE /\ failures < MaxAttempts
              /\ loop' = "backoff"
              /\ delay' \in Backoff(counted)
              /\ failures' = failures + 1
    /\ UNCHANGED <<cancelled, late>>

DialFails == loop = "dial" /\ Retry(attempt)

\* Faulty variant: an authentication failure ends the loop.
AuthFails_Fatal ==
    /\ loop = "auth"
    /\ loop' = "exited"
    /\ UNCHANGED <<attempt, delay, cancelled, failures, late>>

AuthFails == loop = "auth" /\ Retry(attempt)

\* Faulty variant: the counter is stepped down once for a success, with no
\* floor, where the code clears it.
Authenticated_StepsDown ==
    /\ loop = "auth"
    /\ loop' = "connected"
    /\ attempt' = attempt - 1
    /\ failures' = 0
    /\ UNCHANGED <<delay, cancelled, late>>

\* The counter is cleared as soon as the relay has accepted the agent.
Authenticated ==
    /\ loop = "auth"
    /\ loop' = "connected"
    /\ attempt' = 0
    /\ failures' = 0
    /\ UNCHANGED <<delay, cancelled, late>>

\* onConnected returned an error.  The counter is cleared once more for a
\* connection that lasted.  For a callback that returns without an error the
\* code dials again at once; the callback of agent.Run, the only one there is,
\* returns with the error of a failed send or read and in no other way.
Disconnected ==
    /\ loop = "connected"
    /\ \E lasted \in BOOLEAN : Retry(IF lasted THEN 0 ELSE attempt)

\* Faulty variant: the wait does not count the attempt.
BackoffElapses_Uncounted ==
    /\ loop = "backoff"
    /\ loop' = "dial"
    /\ UNCHANGED <<attempt, delay, cancelled, failures, late>>

\* The select may take the timer although the context is done as well.
BackoffElapses ==
    /\ loop = "backoff"
    /\ loop' = "dial"
    /\ attempt' = attempt + 1
    /\ UNCHANGED <<delay, cancelled, failures, late>>

BackoffCancelled ==
    /\ loop = "backoff" /\ cancelled
    /\ loop' = "exited"
    /\ UNCHANGED <<attempt, delay, cancelled, failures, late>>

Cancel ==
    /\ ~cancelled
    /\ cancelled' = TRUE
    /\ UNCHANGED <<loop, attempt, delay, failures, late>>

LoopStep ==
    \/ DialSucceeds \/ DialFails
    \/ AuthFails \/ Authenticated
    \/ Disconnected
    \/ BackoffElapses \/ BackoffCancelled

LoopNext == LoopStep \/ Cancel

\* Connect, Authenticate and onConnected return.
LoopSpec == LoopInit /\ [][LoopNext]_loopVars /\ WF_loopVars(LoopStep)

-----------------------------------------------------------------------------
(* Properties. *)

LoopTypeOK ==
    /\ loop \in {"dial", "auth", "connected", "backoff", "exited"}
    /\ attempt \in Nat
    /\ delay \in Nat
    /\ cancelled \in BOOLEAN
    /\ failures \in Nat
    /\ late \in Nat

\* The n-th failure in a row is followed by a delay of at least BaseDelay
\* times 2^(n-1), or MaxDelay, and never by more than MaxDelay and the jitter.
DelayFollowsFailures ==
    loop = "backoff" =>
        /\ \/ delay >= BaseDelay * 2^(failures - 1)
           \/ delay >= MaxDelay
        /\ delay <= MaxDelay + MaxJitter

\* No failure of the relay or of the network ends the loop.
ExitsOnlyWhenCancelled == loop = "exited" => cancelled

\* A cancelled agent opens at most one more connection: the one it was
\* dialling, or the one it dials because its delay ended at the same moment.
OneLateConnection == late <= 1

\* If the calls the loop makes return, a cancellation ends it.
CancelledLoopExits == cancelled ~> (loop = "exited")

=============================================================================
