----------------------------- MODULE Reconnect ------------------------------
(***************************************************************************)
(* runWithReconnect (cmd/retina-agent/main.go): call Run again and again,  *)
(* waiting a growing time after each failure, until SIGINT or SIGTERM      *)
(* cancels the context.                                                    *)
(*                                                                         *)
(* Time is counted in ticks.  Of Run the module keeps what AgentPipeline   *)
(* shows: it returns nil, or an error that is context.Canceled, only once  *)
(* its context is done.  AgentMain says when it returns.                   *)
(***************************************************************************)
EXTENDS Integers

CONSTANTS
  Second,                \* ticks in a second
  MaxReconnectBackoff,   \* cfg.MaxReconnectBackoff, in ticks
  MaxFailures            \* bound: failures are counted up to here

ASSUME ReconnectAssumption ==
  /\ Second \in Nat \ {0}
  /\ MaxReconnectBackoff \in Nat \ {0}
  /\ MaxFailures \in Nat \ {0}

VARIABLES
  ctxDone,    \* SIGINT or SIGTERM arrived
  phase,      \* "run" (in agentRun), "wait" (in the select) or "stopped"
  elapsed,    \* time since start, up to a second
  backoff,    \* backoff
  left,       \* what is left of time.After(backoff)
  failures,   \* short runs in a row (history)
  retries     \* runs started after the signal, up to two (history)

retryVars == <<ctxDone, phase, elapsed, backoff, left, failures, retries>>

initialBackoff == Second
backoffFactor  == 2

Least(a, b) == IF a <= b THEN a ELSE b

ReconnectInit ==
  /\ ctxDone = FALSE /\ phase = "run" /\ elapsed = 0
  /\ backoff = initialBackoff /\ left = 0
  /\ failures = 0 /\ retries = 0

\* agentRun returns and the context is done: shut down.
RunEndsShutdown ==
  /\ phase = "run" /\ ctxDone
  /\ phase' = "stopped"
  /\ UNCHANGED <<ctxDone, elapsed, backoff, left, failures, retries>>

\* Faulty variant: the backoff is never reset.
RunFailsNoReset ==
  /\ phase = "run" /\ ~ctxDone
  /\ failures' = IF elapsed >= initialBackoff THEN 0 ELSE failures
  /\ left' = backoff /\ phase' = "wait"
  /\ UNCHANGED <<ctxDone, elapsed, backoff, retries>>

\* Faulty variant: the context is not looked at after agentRun.
RunFailsIgnoresSignal ==
  /\ phase = "run"
  /\ backoff' = IF elapsed >= initialBackoff THEN initialBackoff ELSE backoff
  /\ failures' = IF elapsed >= initialBackoff THEN 0 ELSE failures
  /\ left' = backoff' /\ phase' = "wait"
  /\ UNCHANGED <<ctxDone, elapsed, retries>>

\* agentRun fails: a run that lasted resets the backoff, then the timer starts.
RunFails ==
  /\ phase = "run" /\ ~ctxDone
  /\ backoff' = IF elapsed >= initialBackoff THEN initialBackoff ELSE backoff
  /\ failures' = IF elapsed >= initialBackoff THEN 0 ELSE failures
  /\ left' = backoff' /\ phase' = "wait"
  /\ UNCHANGED <<ctxDone, elapsed, retries>>

\* Faulty variant: the agent gives up after MaxFailures attempts.
TimerFiresGivesUp ==
  /\ phase = "wait" /\ left = 0
  /\ backoff' = Least(backoff * backoffFactor, MaxReconnectBackoff)
  /\ failures' = Least(failures + 1, MaxFailures)
  /\ retries' = IF ctxDone THEN Least(retries + 1, 2) ELSE retries
  /\ elapsed' = 0 /\ phase' = IF failures = MaxFailures THEN "stopped" ELSE "run"
  /\ UNCHANGED <<ctxDone, left>>

\* time.After fires: grow the backoff and call agentRun again.
TimerFires ==
  /\ phase = "wait" /\ left = 0
  /\ backoff' = Least(backoff * backoffFactor, MaxReconnectBackoff)
  /\ failures' = Least(failures + 1, MaxFailures)
  /\ retries' = IF ctxDone THEN Least(retries + 1, 2) ELSE retries
  /\ elapsed' = 0 /\ phase' = "run"
  /\ UNCHANGED <<ctxDone, left>>

\* The context is done before the timer fires.
WaitCancelled ==
  /\ phase = "wait" /\ ctxDone
  /\ phase' = "stopped" /\ left' = 0
  /\ UNCHANGED <<ctxDone, elapsed, backoff, failures, retries>>

\* SIGINT or SIGTERM.
Signal ==
  /\ ~ctxDone
  /\ ctxDone' = TRUE
  /\ UNCHANGED <<phase, elapsed, backoff, left, failures, retries>>

\* time.Since(start) grows; past a second it makes no difference.
RunTick ==
  /\ phase = "run"
  /\ elapsed' = Least(elapsed + 1, initialBackoff)
  /\ UNCHANGED <<ctxDone, phase, backoff, left, failures, retries>>

WaitTick ==
  /\ phase = "wait" /\ left > 0
  /\ left' = left - 1
  /\ UNCHANGED <<ctxDone, phase, elapsed, backoff, failures, retries>>

RunReturns == RunFails \/ RunEndsShutdown
WaitEnds   == TimerFires \/ WaitCancelled

ReconnectNext == RunReturns \/ WaitEnds \/ Signal \/ RunTick \/ WaitTick

ReconnectSpec == ReconnectInit /\ [][ReconnectNext]_retryVars

-----------------------------------------------------------------------------
(* Properties *)

ReconnectTypeOK ==
  /\ ctxDone \in BOOLEAN
  /\ phase \in {"run", "wait", "stopped"}
  /\ elapsed \in 0 .. Second
  /\ backoff \in Nat \ {0}
  /\ left \in Nat
  /\ failures \in 0 .. MaxFailures
  /\ retries \in 0 .. 2

\* A second doubled n times.
Doubled == [n \in 0 .. MaxFailures |-> initialBackoff * backoffFactor ^ n]

\* d starts at a second and doubles.
IsDoubling(d) ==
  /\ d \in [0 .. MaxFailures -> Nat] /\ d[0] = initialBackoff
  /\ \A n \in 0 .. MaxFailures - 1 : d[n + 1] = backoffFactor * d[n]

\* The wait that follows n short runs in a row, if d[n] is a second doubled n
\* times.  The first is a second even if MaxReconnectBackoff is less.
WaitAfter(n, d) == IF n = 0 THEN initialBackoff ELSE Least(d[n], MaxReconnectBackoff)

\* The wait after n short runs in a row is a second doubled n times, cut to
\* MaxReconnectBackoff; a run of a second or more starts over.
BackoffSchedule ==
  phase = "wait" /\ failures < MaxFailures => backoff = WaitAfter(failures, Doubled)

\* At most one more run starts after a signal.
OneRetryAfterSignal == retries <= 1

\* After a failure the agent connects again, unless it is told to stop.
KeepsReconnecting == phase = "wait" ~> (phase = "run" \/ ctxDone)
=============================================================================
