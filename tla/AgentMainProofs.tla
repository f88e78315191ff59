-------------------------- MODULE AgentMainProofs ---------------------------
(***************************************************************************)
(* Proofs about AgentMain and the two components it is made of, ReaderLoop *)
(* and Reconnect, for any limits and deadlines.                            *)
(***************************************************************************)
EXTENDS AgentMain, TLAPS

\* How readerLoop's counters bound what the wire did: consecutiveTimeouts is at
\* least the silent reads since bytes last arrived and at most the reads that met
\* their deadline since the last directive, consecutiveDecodeErrors is exactly the malformed ones.
Counters ==
  /\ state = "ended" <=> verdict # "none"
  /\ timeouts <= idle
  /\ state # "ended" =>
       /\ quiet <= timeouts /\ timeouts < MaxConsecutiveReadTimeouts
       /\ garbage = decodeErrors
       /\ MaxConsecutiveDecodeErrors > 0 => decodeErrors < MaxConsecutiveDecodeErrors
  /\ state = "select" => timeouts = 0
  /\ DeadSinceDirective

\* readerLoop has not begun while Run is before its loops, and nothing but the
\* metrics server runs once runWithReconnect has returned.
Order ==
  /\ phase = "run" /\ runStage # "stream" => state = "receive" /\ timeouts = 0
  /\ phase # "run" => runStage = "prober"
  /\ stage = "shutdown" => phase = "stopped"

\* Time spent in reads that timed out, and in the current one, is time Run lasted
\* (which is measured up to a second).
Patience ==
  /\ phase = "run" /\ runStage = "stream" /\ state = "receive" =>
       /\ timer <= ReadDeadline
       /\ elapsed >= Second \/ elapsed >= timeouts * ReadDeadline + (ReadDeadline - timer)
  /\ phase = "run" /\ verdict = "timeouts" =>
       elapsed >= Second \/ elapsed >= MaxConsecutiveReadTimeouts * ReadDeadline
  /\ SilentPeerRetriedSoon

\* A run after the signal has begun only from a wait the signal found.
Retries ==
  /\ ~ctxDone \/ phase = "wait" => retries = 0
  /\ OneRetryAfterSignal

\* No wait is longer than MaxReconnectBackoff, except that the first one after a
\* run that lasted is a second in any case.
Longest == IF MaxReconnectBackoff <= initialBackoff THEN initialBackoff ELSE MaxReconnectBackoff
WaitBounded == backoff <= Longest /\ left <= Longest

\* The inductive invariant.
IInv ==
  /\ TypeOK /\ Counters /\ Order /\ Patience /\ Retries /\ WaitBounded

\* The tuples of variables are expanded wherever an UNCHANGED is used.
USE DEF vars, runVars, readerVars, retryVars

-----------------------------------------------------------------------------
(* readerLoop: every step keeps the types and the relations of its counters. *)

ReaderOK == ReaderTypeOK /\ Counters

LEMMA ReaderStart == ReaderInit => ReaderOK
<1> SUFFICES ASSUME ReaderInit PROVE ReaderOK
  OBVIOUS
<1> USE ReaderAssumption DEF ReaderAssumption, ReaderInit
<1>1. DecodeErrorBound \in Nat
  BY DEF DecodeErrorBound
<1>2. 0 \in 0 .. DecodeErrorBound /\ 0 \in 0 .. MaxConsecutiveReadTimeouts
  BY <1>1
<1>3. groupDone \in BOOLEAN
  OBVIOUS
<1>4. ReaderTypeOK
  BY <1>2, <1>3 DEF ReaderTypeOK
<1>5. Counters
  BY DEF Counters, DeadSinceDirective
<1> QED
  BY <1>4, <1>5 DEF ReaderOK

LEMMA ReaderKeeps ==
  ASSUME ReaderOK,
         \/ \E o \in Late \cup {"network", "violation", "malformed"} : ReadCancelled(o)
         \/ \E o \in {"violation", "network"} : ReadFails(o)
         \/ \E o \in Late : ReadTimesOut(o)
         \/ ReadMalformed \/ ReadInvalid \/ ReadDirective
         \/ Queue \/ SelectCancelled \/ CancelGroup
  PROVE  ReaderOK'
<1> USE ReaderAssumption
    DEF ReaderAssumption, ReaderOK, ReaderTypeOK, Counters, DeadSinceDirective,
        DecodeErrorBound, Observe, OneMore, Late, End
<1>1. ASSUME NEW o \in Late \cup {"network", "violation", "malformed"}, ReadCancelled(o)
  PROVE  ReaderOK'
  BY <1>1 DEF ReadCancelled
<1>2. ASSUME NEW o \in {"violation", "network"}, ReadFails(o) PROVE ReaderOK'
  BY <1>2 DEF ReadFails
<1>3. ASSUME NEW o \in Late, ReadTimesOut(o) PROVE ReaderOK'
  BY <1>3 DEF ReadTimesOut
<1>4. CASE ReadMalformed
  BY <1>4 DEF ReadMalformed
<1>5. CASE ReadInvalid
  BY <1>5 DEF ReadInvalid
<1>6. CASE ReadDirective
  BY <1>6 DEF ReadDirective
<1>7. CASE Queue
  BY <1>7 DEF Queue
<1>8. CASE SelectCancelled
  BY <1>8 DEF SelectCancelled
<1>9. CASE CancelGroup
  BY <1>9 DEF CancelGroup
<1> QED
  BY <1>1, <1>2, <1>3, <1>4, <1>5, <1>6, <1>7, <1>8, <1>9

LEMMA ReaderStep == IInv /\ [Next]_vars => ReaderOK'
<1> SUFFICES ASSUME IInv, [Next]_vars PROVE ReaderOK'
  OBVIOUS
<1>1. ReaderOK
  BY DEF IInv, TypeOK, ReaderOK
<1>2. ASSUME UNCHANGED readerVars PROVE ReaderOK'
  BY <1>1, <1>2
  DEF ReaderOK, ReaderTypeOK, Counters, DeadSinceDirective
<1>3. CASE ReadStep
  BY <1>1, <1>3, ReaderKeeps
  DEF ReadStep, StreamFrame, StreamTimeout, StreamCancelled, StreamQueue, Stream
<1>4. CASE OtherLoopFails
  BY <1>1, <1>4, ReaderKeeps DEF OtherLoopFails
\* The context is derived, or cancelled by the signal.
<1>5. ASSUME groupDone' \in BOOLEAN,
             UNCHANGED <<state, timeouts, decodeErrors, verdict, quiet, idle, garbage>>
  PROVE  ReaderOK'
  BY <1>1, <1>5
  DEF ReaderOK, ReaderTypeOK, Counters, DeadSinceDirective
<1>6. CASE Dialed
  BY <1>5, <1>6 DEF Dialed, IInv, TypeOK, ReconnectTypeOK
<1>7. CASE GetSignal
  <2>1. groupDone' \in BOOLEAN
    BY <1>7 DEF GetSignal, IInv, TypeOK, ReaderTypeOK
  <2> QED
    BY <1>5, <1>7, <2>1 DEF GetSignal
\* Another Run will have a readerLoop of its own.
<1>8. CASE EndWait
  <2>1. ReaderInit'
    BY <1>8 DEF EndWait, ReaderInit
  <2>2. (ReaderInit => ReaderOK)'
    BY ReaderStart, PTL
  <2> QED
    BY <2>1, <2>2
<1>9. CASE StartupStep \/ SignalEarly
  BY <1>2, <1>9 DEF StartupStep, ReadEnvironment, ParseFlags, Validate, BindMetrics,
                    SignalEarly, Starting
<1>10. CASE ProberCreated \/ AuthSent \/ Authenticated \/ RunEnds
  BY <1>2, <1>10 DEF ProberCreated, AuthSent, Authenticated, RunEnds
<1>11. CASE CloseConn \/ Scrape \/ BeginShutdown \/ FinishShutdown \/ Tick \/ Exited
  BY <1>2, <1>11 DEF CloseConn, Scrape, BeginShutdown, FinishShutdown, Tick, Exited
<1> QED
  BY <1>2, <1>3, <1>4, <1>6, <1>7, <1>8, <1>9, <1>10, <1>11 DEF Next, RunStep

-----------------------------------------------------------------------------
(* runWithReconnect *)

RetryOK == ReconnectTypeOK /\ Retries /\ WaitBounded

LEMMA RetryStart == ReconnectInit => RetryOK
<1> SUFFICES ASSUME ReconnectInit PROVE RetryOK
  OBVIOUS
<1> USE ReconnectAssumption DEF ReconnectAssumption, ReconnectInit, initialBackoff
<1>1. ctxDone \in BOOLEAN
  OBVIOUS
<1>2. ReconnectTypeOK
  BY <1>1 DEF ReconnectTypeOK
<1>3. Retries /\ WaitBounded
  BY DEF Retries, OneRetryAfterSignal, WaitBounded, Longest
<1> QED
  BY <1>2, <1>3 DEF RetryOK

LEMMA RetryKeeps ==
  ASSUME RetryOK, [ReconnectNext]_retryVars
  PROVE  RetryOK'
<1> USE ReconnectAssumption
    DEF ReconnectAssumption, RetryOK, ReconnectTypeOK, Retries, OneRetryAfterSignal,
        WaitBounded, Longest, initialBackoff, backoffFactor, Least
<1>1. CASE RunFails
  BY <1>1 DEF RunFails
<1>2. CASE RunEndsShutdown
  BY <1>2 DEF RunEndsShutdown
<1>3. CASE TimerFires
  BY <1>3 DEF TimerFires
<1>4. CASE WaitCancelled
  BY <1>4 DEF WaitCancelled
<1>5. CASE Signal
  BY <1>5 DEF Signal
<1>6. CASE RunTick
  BY <1>6 DEF RunTick
<1>7. CASE WaitTick
  BY <1>7 DEF WaitTick
<1>8. CASE UNCHANGED retryVars
  BY <1>8
<1> QED
  BY <1>1, <1>2, <1>3, <1>4, <1>5, <1>6, <1>7, <1>8 DEF ReconnectNext, RunReturns, WaitEnds

\* Every step of the process is a step of runWithReconnect or none of its business.
LEMMA RetryRefines == [Next]_vars => [ReconnectNext]_retryVars
<1> SUFFICES ASSUME [Next]_vars PROVE [ReconnectNext]_retryVars
  OBVIOUS
<1>1. CASE StartupStep \/ SignalEarly
  BY <1>1 DEF StartupStep, ReadEnvironment, ParseFlags, Validate, BindMetrics,
              SignalEarly, Starting
<1>2. CASE ProberCreated \/ Dialed \/ AuthSent \/ Authenticated
  BY <1>2 DEF ProberCreated, Dialed, AuthSent, Authenticated, Advance
<1>3. CASE RunEnds
  BY <1>3 DEF RunEnds, ReconnectNext
<1>4. CASE ReadStep
  BY <1>4 DEF ReadStep, StreamFrame, StreamTimeout, StreamCancelled, StreamQueue, Stream
<1>5. CASE OtherLoopFails \/ CloseConn \/ Scrape \/ BeginShutdown \/ FinishShutdown
  BY <1>5 DEF OtherLoopFails, CloseConn, Scrape, BeginShutdown, FinishShutdown
<1>6. CASE GetSignal
  BY <1>6 DEF GetSignal, ReconnectNext
<1>7. CASE EndWait
  BY <1>7 DEF EndWait, ReconnectNext
<1>8. CASE Tick
  BY <1>8 DEF Tick, ReconnectNext
<1>9. CASE Exited \/ UNCHANGED vars
  BY <1>9 DEF Exited
<1> QED
  BY <1>1, <1>2, <1>3, <1>4, <1>5, <1>6, <1>7, <1>8, <1>9 DEF Next, RunStep

LEMMA RetryStep == IInv /\ [Next]_vars => RetryOK'
  BY RetryRefines, RetryKeeps DEF IInv, TypeOK, RetryOK

-----------------------------------------------------------------------------
(* main *)

LEMMA InitIInv == Init => IInv
<1> SUFFICES ASSUME Init PROVE IInv
  OBVIOUS
<1> USE DEF Init
<1>1. ReaderOK /\ RetryOK
  BY ReaderStart, RetryStart
<1>2. scraping \in BOOLEAN /\ connOpen \in BOOLEAN
  OBVIOUS
<1>3. TypeOK
  BY <1>1, <1>2 DEF TypeOK, ReaderOK, RetryOK
<1>4. Order
  BY DEF Order, ReaderInit, ReconnectInit
<1>5. Patience
  BY DEF Patience, SilentPeerRetriedSoon, ReaderInit, ReconnectInit
<1> QED
  BY <1>1, <1>3, <1>4, <1>5 DEF IInv, ReaderOK, RetryOK

LEMMA TypeStep == IInv /\ [Next]_vars => TypeOK'
<1> SUFFICES ASSUME IInv, [Next]_vars PROVE TypeOK'
  OBVIOUS
<1>1. ReaderTypeOK' /\ ReconnectTypeOK'
  BY ReaderStep, RetryStep DEF ReaderOK, RetryOK
<1> USE MainAssumption, ReconnectAssumption
    DEF MainAssumption, ReconnectAssumption, IInv, TypeOK, HandshakeTimeout, ShutdownTimeout
<1>2. ASSUME UNCHANGED <<stage, scraping, connOpen, runStage>>, timer' \in Nat
  PROVE  TypeOK'
  BY <1>1, <1>2
<1>3. CASE ReadEnvironment
  BY <1>1, <1>3 DEF ReadEnvironment, Exit, Starting
<1>4. CASE ParseFlags
  BY <1>1, <1>4 DEF ParseFlags, Exit, Starting
<1>5. CASE Validate \/ BindMetrics \/ SignalEarly
  BY <1>1, <1>5 DEF Validate, BindMetrics, SignalEarly, Exit, Starting
<1>6. CASE ProberCreated \/ AuthSent \/ Authenticated
  BY <1>1, <1>6 DEF ProberCreated, AuthSent, Authenticated, Advance
<1>7. CASE Dialed
  BY <1>1, <1>7 DEF Dialed, Advance
<1>8. CASE RunEnds
  BY <1>1, <1>8 DEF RunEnds
<1>9. CASE ReadStep
  BY <1>2, <1>9 DEF ReadStep, StreamFrame, StreamTimeout, StreamCancelled, StreamQueue, Stream
<1>10. CASE CloseConn
  BY <1>1, <1>10 DEF CloseConn
<1>11. CASE OtherLoopFails \/ GetSignal \/ EndWait
  BY <1>2, <1>11 DEF OtherLoopFails, GetSignal, EndWait
<1>12. CASE Scrape
  BY <1>1, <1>12 DEF Scrape
<1>13. CASE BeginShutdown
  BY <1>1, <1>13 DEF BeginShutdown
<1>14. CASE FinishShutdown
  BY <1>1, <1>14 DEF FinishShutdown, Exit
<1>15. CASE Tick
  BY <1>2, <1>15 DEF Tick
<1>16. CASE Exited \/ UNCHANGED vars
  BY <1>2, <1>16 DEF Exited
<1> QED
  BY <1>3, <1>4, <1>5, <1>6, <1>7, <1>8, <1>9, <1>10, <1>11, <1>12, <1>13, <1>14, <1>15, <1>16
  DEF Next, StartupStep, RunStep

LEMMA OrderStep == IInv /\ [Next]_vars => Order'
<1> SUFFICES ASSUME IInv, [Next]_vars PROVE Order'
  OBVIOUS
<1> USE DEF IInv, TypeOK, Order
<1>1. ASSUME UNCHANGED <<stage, phase, runStage, state, timeouts>> PROVE Order'
  BY <1>1
<1>2. CASE StartupStep \/ SignalEarly
  BY <1>2 DEF StartupStep, ReadEnvironment, ParseFlags, Validate, BindMetrics,
              SignalEarly, Starting, Exit
<1>3. CASE ProberCreated \/ Dialed \/ AuthSent \/ Authenticated
  BY <1>3 DEF ProberCreated, Dialed, AuthSent, Authenticated, Advance, InRun
<1>4. CASE RunEnds
  BY <1>4 DEF RunEnds, RunReturns, RunFails, RunEndsShutdown
<1>5. CASE ReadStep
  BY <1>5 DEF ReadStep, StreamFrame, StreamTimeout, StreamCancelled, StreamQueue, Stream, InRun
<1>6. CASE OtherLoopFails \/ CloseConn \/ Scrape
  BY <1>1, <1>6 DEF OtherLoopFails, CancelGroup, CloseConn, Scrape
<1>7. CASE GetSignal
  BY <1>1, <1>7 DEF GetSignal, Signal
<1>8. CASE EndWait
  BY <1>8 DEF EndWait, WaitEnds, TimerFires, WaitCancelled
<1>9. CASE BeginShutdown \/ FinishShutdown
  BY <1>9 DEF BeginShutdown, FinishShutdown, Exit
<1>10. CASE Tick
  BY <1>1, <1>10 DEF Tick, RunTick, WaitTick
<1>11. CASE Exited \/ UNCHANGED vars
  BY <1>1, <1>11 DEF Exited
<1> QED
  BY <1>2, <1>3, <1>4, <1>5, <1>6, <1>7, <1>8, <1>9, <1>10, <1>11 DEF Next, RunStep

LEMMA PatienceStep == IInv /\ [Next]_vars => Patience'
<1> SUFFICES ASSUME IInv, [Next]_vars PROVE Patience'
  OBVIOUS
<1>1. /\ timeouts \in Nat /\ elapsed \in Nat /\ timer \in Nat /\ left \in Nat
      /\ ReadDeadline \in Nat \ {0} /\ Second \in Nat \ {0}
      /\ MaxConsecutiveReadTimeouts \in Nat \ {0}
  BY MainAssumption, ReaderAssumption, ReconnectAssumption
  DEF MainAssumption, ReaderAssumption, ReconnectAssumption, IInv, TypeOK, ReaderTypeOK,
      ReconnectTypeOK
<1>2. /\ timeouts * ReadDeadline \in Nat
      /\ (timeouts + 1) * ReadDeadline = timeouts * ReadDeadline + ReadDeadline
      /\ MaxConsecutiveReadTimeouts * ReadDeadline \in Nat
      /\ 0 * ReadDeadline = 0
  BY <1>1
<1>3. ASSUME UNCHANGED <<phase, runStage, state, timer, elapsed, timeouts, verdict, left>>
  PROVE  Patience'
  BY <1>3 DEF IInv, Patience, SilentPeerRetriedSoon
<1> USE <1>1, <1>2 DEF Patience, SilentPeerRetriedSoon
<1>4. CASE StartupStep \/ SignalEarly
  BY <1>3, <1>4 DEF StartupStep, ReadEnvironment, ParseFlags, Validate, BindMetrics,
                    SignalEarly, Starting
<1>5. CASE ProberCreated \/ Dialed \/ AuthSent
  BY <1>5 DEF ProberCreated, Dialed, AuthSent, Advance, InRun, IInv, Order, Counters
<1>6. CASE Authenticated
  BY <1>6 DEF Authenticated, Advance, InRun, IInv, Order, Counters
<1>7. CASE RunEnds
  BY <1>7 DEF RunEnds, RunReturns, RunFails, RunEndsShutdown, initialBackoff, IInv
\* A read that timed out has lasted ReadDeadline.
<1>8. ASSUME NEW o \in Late, timer = 0, Stream(ReadTimesOut(o)) PROVE Patience'
  <2>1. /\ phase = "run" /\ phase' = "run" /\ runStage = "stream" /\ state = "receive"
        /\ timer = 0 /\ elapsed' = elapsed /\ timeouts' = timeouts + 1
        /\ timer' = (IF state' = "receive" THEN ReadDeadline ELSE 0)
    BY <1>8 DEF Stream, ReadTimesOut, InRun
  <2>2. elapsed >= Second \/ elapsed >= (timeouts + 1) * ReadDeadline
    BY <2>1 DEF IInv
  <2>3. verdict' = "timeouts" => timeouts + 1 = MaxConsecutiveReadTimeouts
    BY <1>8, <2>1 DEF Stream, ReadTimesOut, End, IInv, Counters
  <2> QED
    BY <2>1, <2>2, <2>3
<1>9. CASE Stream(ReadDirective) \/ Stream(Queue)
  BY <1>9 DEF Stream, ReadDirective, Queue, InRun, IInv, Counters
<1>10. CASE Stream(ReadInvalid)
  BY <1>10 DEF Stream, ReadInvalid, InRun, IInv, Counters
<1>11. CASE Stream(ReadMalformed)
  BY <1>11 DEF Stream, ReadMalformed, End, InRun, IInv, Counters
<1>12. CASE \E o \in {"violation", "network"} : Stream(ReadFails(o))
  BY <1>12 DEF Stream, ReadFails, End, InRun
<1>13. CASE \E o \in Late \cup {"network", "violation", "malformed"} :
              Stream(ReadCancelled(o))
  BY <1>13 DEF Stream, ReadCancelled, End, InRun
<1>14. CASE Stream(SelectCancelled)
  BY <1>14 DEF Stream, SelectCancelled, End, InRun
<1>15. CASE OtherLoopFails \/ CloseConn \/ Scrape
  BY <1>3, <1>15 DEF OtherLoopFails, CancelGroup, CloseConn, Scrape
<1>16. CASE GetSignal
  BY <1>3, <1>16 DEF GetSignal, Signal
<1>17. CASE EndWait
  BY <1>17 DEF EndWait, WaitEnds, TimerFires, WaitCancelled, IInv, Order
<1>18. CASE BeginShutdown \/ FinishShutdown
  BY <1>18 DEF BeginShutdown, FinishShutdown, IInv
<1>19. CASE Tick
  <2>1. CASE stage = "serve" /\ RunTick
    BY <1>19, <2>1 DEF Tick, RunTick, WaitTick, Least, initialBackoff, IInv, Order
  <2>2. CASE stage = "serve" /\ WaitTick
    BY <1>19, <2>2 DEF Tick, RunTick, WaitTick, IInv
  <2>3. CASE stage = "shutdown"
    BY <1>19, <2>3 DEF Tick, IInv, Order
  <2> QED
    BY <1>19, <2>1, <2>2, <2>3 DEF Tick
<1>20. CASE Exited \/ UNCHANGED vars
  BY <1>3, <1>20 DEF Exited
<1> QED
  BY <1>4, <1>5, <1>6, <1>7, <1>8, <1>9, <1>10, <1>11, <1>12, <1>13, <1>14, <1>15, <1>16,
     <1>17, <1>18, <1>19, <1>20
  DEF Next, RunStep, ReadStep, StreamFrame, StreamTimeout, StreamCancelled, StreamQueue

-----------------------------------------------------------------------------
(* The backoff *)

\* The backoff follows the schedule in every phase, not only while it is waited for.
OnSchedule(d) == failures < MaxFailures => backoff = WaitAfter(failures, d)

LEMMA ScheduleKept ==
  ASSUME NEW d, IsDoubling(d), ReconnectTypeOK, OnSchedule(d), [ReconnectNext]_retryVars
  PROVE  OnSchedule(d)'
<1> USE ReconnectAssumption
    DEF ReconnectAssumption, IsDoubling, OnSchedule, WaitAfter, ReconnectTypeOK,
        initialBackoff, backoffFactor, Least
<1>1. CASE RunFails
  BY <1>1 DEF RunFails
<1>2. CASE TimerFires
  <2> SUFFICES ASSUME failures' < MaxFailures PROVE backoff' = WaitAfter(failures', d)
    OBVIOUS
  <2>1. failures' = failures + 1 /\ failures < MaxFailures
    BY <1>2 DEF TimerFires
  <2>2. failures \in 0 .. MaxFailures - 1 /\ d[failures] \in Nat /\ d[failures + 1] = 2 * d[failures]
    BY <2>1
  <2>3. backoff' = (IF 2 * backoff <= MaxReconnectBackoff THEN 2 * backoff ELSE MaxReconnectBackoff)
    BY <1>2 DEF TimerFires
  <2>4. CASE failures = 0
    BY <2>1, <2>2, <2>3, <2>4
  <2>5. CASE failures # 0
    <3>1. backoff = Least(d[failures], MaxReconnectBackoff)
      BY <2>1, <2>5
    <3>2. backoff' = Least(d[failures + 1], MaxReconnectBackoff)
      BY <2>2, <2>3, <3>1
    <3> QED
      BY <2>1, <2>2, <3>2
  <2> QED
    BY <2>4, <2>5
<1>3. CASE RunEndsShutdown \/ WaitCancelled \/ Signal \/ RunTick \/ WaitTick
  BY <1>3 DEF RunEndsShutdown, WaitCancelled, Signal, RunTick, WaitTick
<1>4. CASE UNCHANGED retryVars
  BY <1>4
<1> QED
  BY <1>1, <1>2, <1>3, <1>4 DEF ReconnectNext, RunReturns, WaitEnds

-----------------------------------------------------------------------------

\* The inductive invariant holds in every state of the process.
THEOREM Invariance == Spec => []IInv
<1>1. IInv /\ [Next]_vars => IInv'
  BY TypeStep, ReaderStep, RetryStep, OrderStep, PatienceStep
  DEF IInv, ReaderOK, RetryOK
<1> QED
  BY InitIInv, <1>1, PTL DEF Spec

\* The process uses runWithReconnect as it is: whatever main, Run and readerLoop do
\* around it, each of their steps is one of its steps or leaves its state alone.
THEOREM RunsReconnect == Spec => ReconnectSpec
<1>1. Init => ReconnectInit
  BY DEF Init
<1> QED
  BY <1>1, RetryRefines, PTL DEF Spec, ReconnectSpec

\* readerLoop leaves a hopeless peer: while it goes on, fewer than
\* maxConsecutiveReadTimeouts reads in a row brought nothing and fewer than
\* MaxConsecutiveDecodeErrors were malformed since the last valid directive.
THEOREM LeavesHopelessPeer == Spec => []HopelessPeerLeft
<1>1. IInv => HopelessPeerLeft
  BY ReaderAssumption
  DEF ReaderAssumption, IInv, TypeOK, ReaderTypeOK, Counters, HopelessPeerLeft
<1> QED
  BY Invariance, <1>1, PTL

\* readerLoop gives up for timeouts only after that many reads met their deadline
\* since the last directive, before a frame or inside one.
THEOREM NoHastyTimeout == Spec => []DeadSinceDirective
<1>1. IInv => DeadSinceDirective
  BY DEF IInv, Counters
<1> QED
  BY Invariance, <1>1, PTL

\* At most one Run starts after the signal, although select may prefer a timer
\* that fired to the context that is done.
THEOREM OneRetry == Spec => []OneRetryAfterSignal
<1>1. IInv => OneRetryAfterSignal
  BY DEF IInv, Retries
<1> QED
  BY Invariance, <1>1, PTL

\* A peer that went silent is tried again within a second if the timeouts take at
\* least a second together: the time readerLoop waited counts for runWithReconnect.
THEOREM SilentPeerSoon == Spec => []SilentPeerRetriedSoon
<1>1. IInv => SilentPeerRetriedSoon
  BY DEF IInv, Patience
<1> QED
  BY Invariance, <1>1, PTL

\* No wait is longer than the larger of a second and MaxReconnectBackoff.
THEOREM BoundedWait == Spec => []WaitBounded
<1>1. IInv => WaitBounded
  BY DEF IInv
<1> QED
  BY Invariance, <1>1, PTL

\* The wait after n short runs is the n-th element of any sequence that starts at a
\* second and doubles, cut to MaxReconnectBackoff.
THEOREM DoublingSchedule ==
  ASSUME NEW d, IsDoubling(d)
  PROVE  Spec => [](phase = "wait" /\ failures < MaxFailures => backoff = WaitAfter(failures, d))
<1>1. Init => OnSchedule(d)
  BY DEF Init, ReconnectInit, OnSchedule, WaitAfter
<1>2. IInv /\ OnSchedule(d) /\ [Next]_vars => OnSchedule(d)'
  BY ScheduleKept, RetryRefines DEF IInv, TypeOK
<1>3. OnSchedule(d) => (phase = "wait" /\ failures < MaxFailures => backoff = WaitAfter(failures, d))
  BY DEF OnSchedule
<1> QED
  BY <1>1, <1>2, <1>3, Invariance, PTL DEF Spec

\* The powers of two are such a sequence, which the provers cannot tell from the
\* definition of ^: given that, the schedule is the one of BackoffSchedule.
THEOREM BackoffFollowsSchedule ==
  ASSUME IsDoubling(Doubled)
  PROVE  Spec => []BackoffSchedule
<1>1. Init => OnSchedule(Doubled)
  BY DEF Init, ReconnectInit, OnSchedule, WaitAfter
<1>2. IInv /\ OnSchedule(Doubled) /\ [Next]_vars => OnSchedule(Doubled)'
  BY ScheduleKept, RetryRefines DEF IInv, TypeOK
<1>3. OnSchedule(Doubled) => BackoffSchedule
  BY DEF OnSchedule, BackoffSchedule
<1> QED
  BY <1>1, <1>2, <1>3, Invariance, PTL DEF Spec

=============================================================================
