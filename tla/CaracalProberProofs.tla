------------------------ MODULE CaracalProberProofs -------------------------
(***************************************************************************)
(* Proofs about CaracalProber, for any number of calls and flows, any      *)
(* queue and pipe size, timeout, clock skew and number of replies.         *)
(***************************************************************************)
EXTENDS CaracalProber, FiniteSetTheorems, TLAPS

\* Where a call may be after it entered the map and before it deletes its key.
Registered == {"queueing", "waiting", "deferred"}

\* What a call may not be while its request or its packet is under way.
Unqueued == {"idle", "keyed", "queueing"}

\* A request is in one place on its way to caracal, was not sent before, and
\* comes from a call that passed its first select.
Provenance ==
  /\ \A c \in Calls : pc[c] # "idle" => flow[c] \in Flows
  /\ \A i \in 1 .. Len(writeQueue) :
       pc[writeQueue[i]] \notin Unqueued /\ sentSec[writeQueue[i]] = None
  /\ writing # None => pc[writing] \notin Unqueued /\ sentSec[writing] = None
  /\ \A i \in 1 .. Len(stdin) :
       pc[stdin[i]] \notin Unqueued /\ sentSec[stdin[i]] = None
  /\ \A c \in Calls : sentSec[c] # None => pc[c] \notin Unqueued
  /\ record # None => sentSec[record] # None

\* No request is twice on its way.
Distinct ==
  /\ \A i, j \in 1 .. Len(writeQueue) : writeQueue[i] = writeQueue[j] => i = j
  /\ \A i, j \in 1 .. Len(stdin) : stdin[i] = stdin[j] => i = j
  /\ \A i \in 1 .. Len(writeQueue), j \in 1 .. Len(stdin) : writeQueue[i] # stdin[j]
  /\ \A i \in 1 .. Len(writeQueue) : writeQueue[i] # writing
  /\ \A i \in 1 .. Len(stdin) : stdin[i] # writing

\* Who an entry of the map belongs to, and when a registered call may be
\* without its entry: only after cleanup's cutoff passed it.
Ownership ==
  /\ \A k \in Keys : inFlight[k] # None =>
       Key(inFlight[k]) = k /\ pc[inFlight[k]] \in Registered
  /\ \A c \in Calls : pc[c] = "keyed" => now <= queued[c] + RegisterStall
  /\ \A c \in Calls : pc[c] \in Registered =>
       \/ inFlight[Key(c)] = c
       \/ inFlight[Key(c)] = None /\ now >= queued[c] + ProbeTimeout + StaleGrace

\* A channel holds, and readerLoop is about to send, only replies that
\* correlate with the call; a call that has not begun has received nothing.
Correlation ==
  /\ CorrelationSound
  /\ target # None => Correlated(record, target) /\ pc[target] # "idle"
  /\ \A c \in Calls : pc[c] = "idle" => resultCh[c] = None /\ got[c] = None

\* The inductive invariant.
IInv == TypeOK /\ Provenance /\ Distinct /\ Ownership /\ Correlation

\* The tuples of variables are expanded wherever an UNCHANGED is used.
USE DEF vars, clock, callState, loopState, callVars, writerVars, netVars,
        readerVars, otherVars

-----------------------------------------------------------------------------

LEMMA KeysFinite == IsFiniteSet(Keys)
<1>1. IsFiniteSet(Flows)
  BY ProberAssumption DEF ProberAssumption
<1>2. IsFiniteSet(Seconds)
  BY FS_Interval, ProberAssumption DEF ProberAssumption, Seconds
<1> QED
  BY <1>1, <1>2, FS_Product DEF Keys

LEMMA InitIInv == Init => IInv
<1> SUFFICES ASSUME Init PROVE IInv
  OBVIOUS
<1> USE ProberAssumption DEF ProberAssumption, Init
<1>1. CallsOK
  BY DEF CallsOK, Seconds
<1>2. MapOK
  BY DEF MapOK
<1>3. WriterOK
  BY DEF WriterOK
<1>4. NetOK
  BY DEF NetOK
<1>5. ReaderOK
  BY DEF ReaderOK, Offsets
<1>6. LoopsOK
  BY DEF LoopsOK
<1>7. Provenance
  BY DEF Provenance
<1>8. Ownership
  BY DEF Ownership, Registered, Keys, Key
<1>9. FlagsOK
  BY DEF FlagsOK
<1>10. Distinct
  BY DEF Distinct
<1>11. Correlation
  BY DEF Correlation, CorrelationSound
<1> QED
  BY <1>1, <1>2, <1>3, <1>4, <1>5, <1>6, <1>7, <1>8, <1>9, <1>10, <1>11
  DEF IInv, TypeOK

-----------------------------------------------------------------------------
(* Facts about the queues. *)

LEMMA AppendIndex ==
  ASSUME NEW S, NEW s \in Seq(S), NEW e \in S
  PROVE  /\ Len(s) \in Nat /\ Len(Append(s, e)) = Len(s) + 1
         /\ \A i \in 1 .. Len(Append(s, e)) :
              Append(s, e)[i] = IF i = Len(s) + 1 THEN e ELSE s[i]
  OBVIOUS

LEMMA TailIndex ==
  ASSUME NEW S, NEW s \in Seq(S), s # <<>>
  PROVE  /\ Len(s) \in Nat \ {0} /\ Len(Tail(s)) = Len(s) - 1
         /\ 1 \in 1 .. Len(s) /\ Head(s) = s[1] /\ Head(s) \in S
         /\ \A i \in 1 .. Len(Tail(s)) : Tail(s)[i] = s[i + 1]
  OBVIOUS

-----------------------------------------------------------------------------
(* Each part of the invariant is preserved by every step. *)

LEMMA CallsStep == IInv /\ [Next]_vars => CallsOK'
<1> SUFFICES ASSUME IInv, [Next]_vars PROVE CallsOK'
  OBVIOUS
<1> USE ProberAssumption DEF ProberAssumption, IInv, TypeOK
<1>1. ASSUME UNCHANGED <<now, pc, flow, queued, deadline, resultCh, got, outcome>>
  PROVE CallsOK'
  BY <1>1 DEF CallsOK
<1>2. ASSUME NEW c \in Calls, NEW f \in Flows, CallProbe(c, f) PROVE CallsOK'
  BY <1>2 DEF CallProbe, CallsOK
<1>3. ASSUME NEW c \in Calls, Register(c) PROVE CallsOK'
  BY <1>3 DEF Register, CallsOK
<1>4. ASSUME NEW c \in Calls, Enqueue(c) PROVE CallsOK'
  BY <1>4 DEF Enqueue, CallsOK, Earlier, Seconds
<1>5. ASSUME NEW c \in Calls, ReceiveResult(c) PROVE CallsOK'
  BY <1>5 DEF ReceiveResult, Leave, CallsOK, Seconds
<1>6. ASSUME NEW c \in Calls, TimerFires(c) PROVE CallsOK'
  BY <1>6 DEF TimerFires, Leave, CallsOK, Seconds
<1>7. ASSUME NEW c \in Calls, CtxDone(c) PROVE CallsOK'
  BY <1>7 DEF CtxDone, Leave, CallsOK, Seconds
<1>8. ASSUME NEW c \in Calls, DeferredDelete(c) PROVE CallsOK'
  BY <1>8 DEF DeferredDelete, CallsOK
<1>9. ASSUME NEW c \in Calls, DeferredDecrement(c) PROVE CallsOK'
  BY <1>9 DEF DeferredDecrement, CallsOK
<1>10. CASE ReaderDeliver
  BY <1>10 DEF ReaderDeliver, CallsOK, ReaderOK
<1>11. CASE Tick
  BY <1>11 DEF Tick, CallsOK, Seconds
<1>12. ASSUME NEW c \in Calls, ReaderRead(c) PROVE CallsOK'
  BY <1>12, <1>1 DEF ReaderRead
<1>13. CASE CaracalSends \/ CaracalExits \/ StderrEnds \/ CancelCtx \/ Closed \/
  WriterTake \/ WriterSend \/ WriterFails \/ WriterStops \/ ReaderMatch \/
  ReaderFails \/ CleanupTick \/ CleanupAccount \/ CleanupStops \/ CloseCancels \/
  CloseKills \/ CloseReturns
  BY <1>13, <1>1 DEF CaracalSends, CaracalExits, StderrEnds, CancelCtx, Closed,
    WriterTake, WriterSend, WriterFails, WriterStops, ReaderMatch, ReaderFails,
    CleanupTick, CleanupAccount, CleanupStops, CloseCancels, CloseKills,
    CloseReturns
<1>14. CASE UNCHANGED vars
  BY <1>14, <1>1
<1> QED
  BY <1>2, <1>3, <1>4, <1>5, <1>6, <1>7, <1>8, <1>9, <1>10, <1>11, <1>12, <1>13,
    <1>14 DEF Next, ProbeStep, WriterStep, ReaderStep, CleanupStep, CloseStep

LEMMA MapStep == IInv /\ [Next]_vars => MapOK'
<1> SUFFICES ASSUME IInv, [Next]_vars PROVE MapOK'
  OBVIOUS
<1> USE ProberAssumption DEF ProberAssumption, IInv, TypeOK
<1>1. ASSUME UNCHANGED <<inFlight, gauge, cleaned>> PROVE MapOK'
  BY <1>1 DEF MapOK
<1>2. ASSUME NEW c \in Calls, Register(c) PROVE MapOK'
  BY <1>2 DEF Register, MapOK
<1>3. ASSUME NEW c \in Calls, DeferredDelete(c) PROVE MapOK'
  BY <1>3 DEF DeferredDelete, MapOK
<1>4. ASSUME NEW c \in Calls, DeferredDecrement(c) PROVE MapOK'
  BY <1>4 DEF DeferredDecrement, MapOK
<1>5. CASE CleanupTick
  <2>1. PICK S \in SUBSET Keys :
          /\ inFlight' = [k \in Keys |-> IF k \in S THEN None ELSE inFlight[k]]
          /\ cleaned' = Cardinality(S)
    BY <1>5 DEF CleanupTick, Stale
  <2>2. Cardinality(S) \in Nat
    BY KeysFinite, FS_Subset, FS_CardinalityType
  <2> QED
    BY <1>5, <2>1, <2>2 DEF CleanupTick, MapOK
<1>6. CASE CleanupAccount
  BY <1>6 DEF CleanupAccount, MapOK
<1>7. ASSUME NEW c \in Calls, NEW f \in Flows, CallProbe(c, f) PROVE MapOK'
  BY <1>7, <1>1 DEF CallProbe
<1>8. ASSUME NEW c \in Calls, ReaderRead(c) \/ Enqueue(c) \/ ReceiveResult(c) \/
  TimerFires(c) \/ CtxDone(c) PROVE MapOK'
  BY <1>8, <1>1 DEF ReaderRead, Enqueue, ReceiveResult, TimerFires, CtxDone, Leave
<1>9. CASE CaracalSends \/ CaracalExits \/ StderrEnds \/ CancelCtx \/ Tick \/ Closed
  \/ WriterTake \/ WriterSend \/ WriterFails \/ WriterStops \/ ReaderMatch \/
  ReaderDeliver \/ ReaderFails \/ CleanupStops \/ CloseCancels \/ CloseKills \/
  CloseReturns
  BY <1>9, <1>1 DEF CaracalSends, CaracalExits, StderrEnds, CancelCtx, Tick, Closed,
    WriterTake, WriterSend, WriterFails, WriterStops, ReaderMatch, ReaderDeliver,
    ReaderFails, CleanupStops, CloseCancels, CloseKills, CloseReturns
<1>10. CASE UNCHANGED vars
  BY <1>10, <1>1
<1> QED
  BY <1>2, <1>3, <1>4, <1>5, <1>6, <1>7, <1>8, <1>9, <1>10 DEF Next, ProbeStep,
    WriterStep, ReaderStep, CleanupStep, CloseStep

LEMMA WriterStepOK == IInv /\ [Next]_vars => WriterOK'
<1> SUFFICES ASSUME IInv, [Next]_vars PROVE WriterOK'
  OBVIOUS
<1> USE ProberAssumption DEF ProberAssumption, IInv, TypeOK
<1>1. ASSUME UNCHANGED <<writerVars>> PROVE WriterOK'
  BY <1>1 DEF WriterOK
<1>2. ASSUME NEW c \in Calls, Enqueue(c) PROVE WriterOK'
  BY <1>2 DEF Enqueue, WriterOK
<1>3. CASE WriterTake
  BY <1>3 DEF WriterTake, WriterOK
<1>4. CASE WriterSend
  BY <1>4 DEF WriterSend, WriterOK
<1>5. CASE WriterFails
  BY <1>5 DEF WriterFails, WriterOK
<1>6. CASE WriterStops
  BY <1>6 DEF WriterStops, WriterOK
<1>7. CASE CaracalSends
  BY <1>7 DEF CaracalSends, WriterOK
<1>8. ASSUME NEW c \in Calls, NEW f \in Flows, CallProbe(c, f) PROVE WriterOK'
  BY <1>8, <1>1 DEF CallProbe
<1>9. ASSUME NEW c \in Calls, ReaderRead(c) \/ Register(c) \/ ReceiveResult(c) \/
  TimerFires(c) \/ CtxDone(c) \/ DeferredDelete(c) \/ DeferredDecrement(c) PROVE
  WriterOK'
  BY <1>9, <1>1 DEF ReaderRead, Register, ReceiveResult, TimerFires, CtxDone,
    DeferredDelete, DeferredDecrement, Leave
<1>10. CASE CaracalExits \/ StderrEnds \/ CancelCtx \/ Tick \/ Closed \/ ReaderMatch
  \/ ReaderDeliver \/ ReaderFails \/ CleanupTick \/ CleanupAccount \/ CleanupStops
  \/ CloseCancels \/ CloseKills \/ CloseReturns
  BY <1>10, <1>1 DEF CaracalExits, StderrEnds, CancelCtx, Tick, Closed, ReaderMatch,
    ReaderDeliver, ReaderFails, CleanupTick, CleanupAccount, CleanupStops,
    CloseCancels, CloseKills, CloseReturns
<1>11. CASE UNCHANGED vars
  BY <1>11, <1>1
<1> QED
  BY <1>2, <1>3, <1>4, <1>5, <1>6, <1>7, <1>8, <1>9, <1>10, <1>11 DEF Next,
    ProbeStep, WriterStep, ReaderStep, CleanupStep, CloseStep

LEMMA NetStep == IInv /\ [Next]_vars => NetOK'
<1> SUFFICES ASSUME IInv, [Next]_vars PROVE NetOK'
  OBVIOUS
<1> USE ProberAssumption DEF ProberAssumption, IInv, TypeOK
<1>1. ASSUME UNCHANGED <<sentSec, replies>> PROVE NetOK'
  BY <1>1 DEF NetOK
<1>2. CASE CaracalSends
  BY <1>2 DEF CaracalSends, NetOK, WriterOK, CallsOK, Seconds
<1>3. ASSUME NEW c \in Calls, ReaderRead(c) PROVE NetOK'
  BY <1>3 DEF ReaderRead, NetOK
<1>4. ASSUME NEW c \in Calls, NEW f \in Flows, CallProbe(c, f) PROVE NetOK'
  BY <1>4, <1>1 DEF CallProbe
<1>5. ASSUME NEW c \in Calls, Register(c) \/ Enqueue(c) \/ ReceiveResult(c) \/
  TimerFires(c) \/ CtxDone(c) \/ DeferredDelete(c) \/ DeferredDecrement(c) PROVE
  NetOK'
  BY <1>5, <1>1 DEF Register, Enqueue, ReceiveResult, TimerFires, CtxDone,
    DeferredDelete, DeferredDecrement, Leave
<1>6. CASE CaracalExits \/ StderrEnds \/ CancelCtx \/ Tick \/ Closed \/ WriterTake
  \/ WriterSend \/ WriterFails \/ WriterStops \/ ReaderMatch \/ ReaderDeliver \/
  ReaderFails \/ CleanupTick \/ CleanupAccount \/ CleanupStops \/ CloseCancels \/
  CloseKills \/ CloseReturns
  BY <1>6, <1>1 DEF CaracalExits, StderrEnds, CancelCtx, Tick, Closed, WriterTake,
    WriterSend, WriterFails, WriterStops, ReaderMatch, ReaderDeliver, ReaderFails,
    CleanupTick, CleanupAccount, CleanupStops, CloseCancels, CloseKills,
    CloseReturns
<1>7. CASE UNCHANGED vars
  BY <1>7, <1>1
<1> QED
  BY <1>2, <1>3, <1>4, <1>5, <1>6, <1>7 DEF Next, ProbeStep, WriterStep, ReaderStep,
    CleanupStep, CloseStep

LEMMA ReaderStepOK == IInv /\ [Next]_vars => ReaderOK'
<1> SUFFICES ASSUME IInv, [Next]_vars PROVE ReaderOK'
  OBVIOUS
<1> USE ProberAssumption DEF ProberAssumption, IInv, TypeOK
<1>1. ASSUME UNCHANGED <<readerVars>> PROVE ReaderOK'
  BY <1>1 DEF ReaderOK
<1>2. ASSUME NEW c \in Calls, ReaderRead(c) PROVE ReaderOK'
  BY <1>2 DEF ReaderRead, ReaderOK, Offsets
<1>3. CASE ReaderMatch
  <2> DEFINE found == Lookup(flow[record], sentSec[record] + Offsets[offset])
  <2>1. record \in Calls /\ flow[record] \in Flows
    BY <1>3 DEF ReaderMatch, ReaderOK, Provenance, Unqueued, CallsOK
  <2>2. found \in Calls \cup {None}
    BY <2>1 DEF Lookup, Keys, MapOK
  <2> QED
    BY <1>3, <2>1, <2>2 DEF ReaderMatch, ReaderOK, Offsets
<1>4. CASE ReaderDeliver
  BY <1>4 DEF ReaderDeliver, ReaderOK
<1>5. CASE ReaderFails
  BY <1>5 DEF ReaderFails, ReaderOK
<1>6. ASSUME NEW c \in Calls, NEW f \in Flows, CallProbe(c, f) PROVE ReaderOK'
  BY <1>6, <1>1 DEF CallProbe
<1>7. ASSUME NEW c \in Calls, Register(c) \/ Enqueue(c) \/ ReceiveResult(c) \/
  TimerFires(c) \/ CtxDone(c) \/ DeferredDelete(c) \/ DeferredDecrement(c) PROVE
  ReaderOK'
  BY <1>7, <1>1 DEF Register, Enqueue, ReceiveResult, TimerFires, CtxDone,
    DeferredDelete, DeferredDecrement, Leave
<1>8. CASE CaracalSends \/ CaracalExits \/ StderrEnds \/ CancelCtx \/ Tick \/ Closed
  \/ WriterTake \/ WriterSend \/ WriterFails \/ WriterStops \/ CleanupTick \/
  CleanupAccount \/ CleanupStops \/ CloseCancels \/ CloseKills \/ CloseReturns
  BY <1>8, <1>1 DEF CaracalSends, CaracalExits, StderrEnds, CancelCtx, Tick, Closed,
    WriterTake, WriterSend, WriterFails, WriterStops, CleanupTick, CleanupAccount,
    CleanupStops, CloseCancels, CloseKills, CloseReturns
<1>9. CASE UNCHANGED vars
  BY <1>9, <1>1
<1> QED
  BY <1>2, <1>3, <1>4, <1>5, <1>6, <1>7, <1>8, <1>9 DEF Next, ProbeStep, WriterStep,
    ReaderStep, CleanupStep, CloseStep

LEMMA LoopsStep == IInv /\ [Next]_vars => LoopsOK'
<1> SUFFICES ASSUME IInv, [Next]_vars PROVE LoopsOK'
  OBVIOUS
<1> USE ProberAssumption DEF ProberAssumption, IInv, TypeOK
<1>1. ASSUME UNCHANGED <<stderr, cleanup, closing>> PROVE LoopsOK'
  BY <1>1 DEF LoopsOK
<1>2. CASE StderrEnds
  BY <1>2 DEF StderrEnds, LoopsOK
<1>3. CASE CleanupTick
  BY <1>3 DEF CleanupTick, LoopsOK
<1>4. CASE CleanupAccount
  BY <1>4 DEF CleanupAccount, LoopsOK
<1>5. CASE CleanupStops
  BY <1>5 DEF CleanupStops, LoopsOK
<1>6. CASE CloseCancels
  BY <1>6 DEF CloseCancels, LoopsOK
<1>7. CASE CloseKills
  BY <1>7 DEF CloseKills, LoopsOK
<1>8. CASE CloseReturns
  BY <1>8 DEF CloseReturns, LoopsOK
<1>9. ASSUME NEW c \in Calls, NEW f \in Flows, CallProbe(c, f) PROVE LoopsOK'
  BY <1>9, <1>1 DEF CallProbe
<1>10. ASSUME NEW c \in Calls, ReaderRead(c) \/ Register(c) \/ Enqueue(c) \/
  ReceiveResult(c) \/ TimerFires(c) \/ CtxDone(c) \/ DeferredDelete(c) \/
  DeferredDecrement(c) PROVE LoopsOK'
  BY <1>10, <1>1 DEF ReaderRead, Register, Enqueue, ReceiveResult, TimerFires,
    CtxDone, DeferredDelete, DeferredDecrement, Leave
<1>11. CASE CaracalSends \/ CaracalExits \/ CancelCtx \/ Tick \/ Closed \/
  WriterTake \/ WriterSend \/ WriterFails \/ WriterStops \/ ReaderMatch \/
  ReaderDeliver \/ ReaderFails
  BY <1>11, <1>1 DEF CaracalSends, CaracalExits, CancelCtx, Tick, Closed,
    WriterTake, WriterSend, WriterFails, WriterStops, ReaderMatch, ReaderDeliver,
    ReaderFails
<1>12. CASE UNCHANGED vars
  BY <1>12, <1>1
<1> QED
  BY <1>2, <1>3, <1>4, <1>5, <1>6, <1>7, <1>8, <1>9, <1>10, <1>11, <1>12 DEF Next,
    ProbeStep, WriterStep, ReaderStep, CleanupStep, CloseStep

LEMMA FlagsStep == IInv /\ [Next]_vars => FlagsOK'
<1> SUFFICES ASSUME IInv, [Next]_vars PROVE FlagsOK'
  OBVIOUS
<1> USE ProberAssumption DEF ProberAssumption, IInv, TypeOK
<1>1. ASSUME UNCHANGED <<ctxDone, alive, proberDone>> PROVE FlagsOK'
  BY <1>1 DEF FlagsOK
<1>2. CASE WriterFails
  BY <1>2 DEF WriterFails, FlagsOK
<1>3. CASE CaracalExits
  BY <1>3 DEF CaracalExits, FlagsOK
<1>4. CASE ReaderFails
  BY <1>4 DEF ReaderFails, FlagsOK
<1>5. CASE StderrEnds
  BY <1>5 DEF StderrEnds, FlagsOK
<1>6. CASE CloseCancels
  BY <1>6 DEF CloseCancels, FlagsOK
<1>7. CASE CloseKills
  BY <1>7 DEF CloseKills, FlagsOK
<1>8. CASE CancelCtx
  BY <1>8 DEF CancelCtx, FlagsOK
<1>9. ASSUME NEW c \in Calls, NEW f \in Flows, CallProbe(c, f) PROVE FlagsOK'
  BY <1>9, <1>1 DEF CallProbe
<1>10. ASSUME NEW c \in Calls, ReaderRead(c) \/ Register(c) \/ Enqueue(c) \/
  ReceiveResult(c) \/ TimerFires(c) \/ CtxDone(c) \/ DeferredDelete(c) \/
  DeferredDecrement(c) PROVE FlagsOK'
  BY <1>10, <1>1 DEF ReaderRead, Register, Enqueue, ReceiveResult, TimerFires,
    CtxDone, DeferredDelete, DeferredDecrement, Leave
<1>11. CASE CaracalSends \/ Tick \/ Closed \/ WriterTake \/ WriterSend \/
  WriterStops \/ ReaderMatch \/ ReaderDeliver \/ CleanupTick \/ CleanupAccount \/
  CleanupStops \/ CloseReturns
  BY <1>11, <1>1 DEF CaracalSends, Tick, Closed, WriterTake, WriterSend,
    WriterStops, ReaderMatch, ReaderDeliver, CleanupTick, CleanupAccount,
    CleanupStops, CloseReturns
<1>12. CASE UNCHANGED vars
  BY <1>12, <1>1
<1> QED
  BY <1>2, <1>3, <1>4, <1>5, <1>6, <1>7, <1>8, <1>9, <1>10, <1>11, <1>12 DEF Next,
    ProbeStep, WriterStep, ReaderStep, CleanupStep, CloseStep

LEMMA ProvenanceStep == IInv /\ [Next]_vars => Provenance'
<1> SUFFICES ASSUME IInv, [Next]_vars PROVE Provenance'
  OBVIOUS
<1> USE ProberAssumption DEF ProberAssumption, IInv, TypeOK
<1>1. ASSUME UNCHANGED <<pc, flow, writeQueue, writing, stdin, sentSec, record>>
  PROVE Provenance'
  BY <1>1 DEF Provenance, Unqueued
<1>2. ASSUME NEW c \in Calls, NEW f \in Flows, CallProbe(c, f) PROVE Provenance'
  BY <1>2 DEF CallProbe, Provenance, Unqueued, CallsOK, WriterOK, NetOK, ReaderOK
<1>3. ASSUME NEW c \in Calls, Register(c) PROVE Provenance'
  BY <1>3 DEF Register, Provenance, Unqueued, CallsOK, WriterOK, NetOK, ReaderOK
<1>4. ASSUME NEW c \in Calls, Enqueue(c) PROVE Provenance'
  <2>1. \A d \in Calls : pc'[d] = IF d = c THEN "waiting" ELSE pc[d]
    BY <1>4 DEF Enqueue, CallsOK
  <2>2. sentSec[c] = None
    BY <1>4 DEF Enqueue, Provenance, Unqueued
  <2>3. UNCHANGED <<flow, sentSec, writing, stdin, record>>
    BY <1>4 DEF Enqueue
  <2>4. /\ Len(writeQueue) \in Nat /\ Len(writeQueue') = Len(writeQueue) + 1
        /\ \A i \in 1 .. Len(writeQueue') :
             writeQueue'[i] = IF i = Len(writeQueue) + 1 THEN c ELSE writeQueue[i]
    BY <1>4, AppendIndex DEF Enqueue, WriterOK
  <2>5. ASSUME NEW i \in 1 .. Len(writeQueue')
        PROVE  pc'[writeQueue'[i]] \notin Unqueued /\ sentSec'[writeQueue'[i]] = None
    <3>1. CASE i = Len(writeQueue) + 1
      BY <2>1, <2>2, <2>3, <2>4, <3>1 DEF Unqueued
    <3>2. CASE i \in 1 .. Len(writeQueue)
      <4>1. writeQueue[i] \in Calls /\ writeQueue'[i] = writeQueue[i]
        BY <2>4, <3>2 DEF WriterOK
      <4> QED
        BY <2>1, <2>3, <3>2, <4>1 DEF Provenance, Unqueued
    <3> QED
      BY <2>4, <3>1, <3>2
  <2>6. \A i \in 1 .. Len(stdin) : stdin[i] \in Calls
    BY DEF WriterOK
  <2>7. \A i \in 1 .. Len(stdin') :
          pc'[stdin'[i]] \notin Unqueued /\ sentSec'[stdin'[i]] = None
    BY <2>1, <2>3, <2>6 DEF Provenance, Unqueued
  <2>8. writing' # None => pc'[writing'] \notin Unqueued /\ sentSec'[writing'] = None
    BY <2>1, <2>3 DEF Provenance, Unqueued, WriterOK
  <2>9. \A d \in Calls : /\ pc'[d] # "idle" => flow'[d] \in Flows
                         /\ sentSec'[d] # None => pc'[d] \notin Unqueued
    BY <1>4, <2>1, <2>2, <2>3 DEF Provenance, Enqueue, Unqueued
  <2>10. record' # None => sentSec'[record'] # None
    BY <2>3 DEF Provenance
  <2> QED
    BY <2>5, <2>7, <2>8, <2>9, <2>10 DEF Provenance
<1>5. ASSUME NEW c \in Calls, ReceiveResult(c) PROVE Provenance'
  BY <1>5 DEF ReceiveResult, Leave, Provenance, Unqueued, CallsOK, WriterOK, NetOK,
    ReaderOK
<1>6. ASSUME NEW c \in Calls, TimerFires(c) PROVE Provenance'
  BY <1>6 DEF TimerFires, Leave, Provenance, Unqueued, CallsOK, WriterOK, NetOK,
    ReaderOK
<1>7. ASSUME NEW c \in Calls, CtxDone(c) PROVE Provenance'
  BY <1>7 DEF CtxDone, Leave, Provenance, Unqueued, CallsOK, WriterOK, NetOK,
    ReaderOK
<1>8. ASSUME NEW c \in Calls, DeferredDelete(c) PROVE Provenance'
  BY <1>8 DEF DeferredDelete, Provenance, Unqueued, CallsOK, WriterOK, NetOK,
    ReaderOK
<1>9. ASSUME NEW c \in Calls, DeferredDecrement(c) PROVE Provenance'
  BY <1>9 DEF DeferredDecrement, Provenance, Unqueued, CallsOK, WriterOK, NetOK,
    ReaderOK
<1>10. CASE WriterTake
  BY <1>10 DEF WriterTake, Provenance, Unqueued, CallsOK, WriterOK, NetOK, ReaderOK
<1>11. CASE WriterSend
  BY <1>11 DEF WriterSend, Provenance, Unqueued, CallsOK, WriterOK, NetOK, ReaderOK
<1>12. CASE WriterFails
  BY <1>12 DEF WriterFails, Provenance, Unqueued, CallsOK, WriterOK, NetOK, ReaderOK
<1>13. CASE CaracalSends
  <2> DEFINE h == Head(stdin)
  <2>1. /\ Len(stdin) \in Nat \ {0} /\ Len(stdin') = Len(stdin) - 1
        /\ h = stdin[1] /\ h \in Calls
        /\ \A i \in 1 .. Len(stdin') : stdin'[i] = stdin[i + 1]
    BY <1>13, TailIndex DEF CaracalSends, WriterOK
  <2>2. \A i \in 1 .. Len(stdin') : i + 1 \in 1 .. Len(stdin) /\ i + 1 # 1 /\ 1 \in 1 .. Len(stdin)
    BY <2>1
  <2>3. 1 \in 1 .. Len(stdin) /\ pc[h] \notin Unqueued
    BY <2>1 DEF Provenance
  <2>4. /\ \A i \in 1 .. Len(stdin') : stdin'[i] # h
        /\ \A i \in 1 .. Len(writeQueue) : writeQueue[i] # h
        /\ writing # h
    BY <2>1, <2>2, <2>3 DEF Distinct
  <2>5. /\ \A c \in Calls : c # h => sentSec'[c] = sentSec[c]
        /\ sentSec'[h] \in Int
        /\ UNCHANGED <<pc, flow, writeQueue, writing, record>>
    <3>1. UNCHANGED <<pc, flow, writeQueue, writing, record>>
      BY <1>13 DEF CaracalSends
    <3>2. PICK skew \in ClockSkew : sentSec' = [sentSec EXCEPT ![h] = now + skew]
      BY <1>13 DEF CaracalSends
    <3>3. now + skew \in Int
      BY DEF CallsOK, Seconds
    <3> QED
      BY <2>1, <3>1, <3>2, <3>3 DEF NetOK
  <2>6. ASSUME NEW i \in 1 .. Len(stdin')
        PROVE  /\ stdin'[i] \in Calls /\ pc[stdin'[i]] \notin Unqueued
               /\ sentSec[stdin'[i]] = None
    <3>1. stdin[i + 1] \in Calls
      BY <2>2 DEF WriterOK
    <3>2. pc[stdin[i + 1]] \notin Unqueued /\ sentSec[stdin[i + 1]] = None
      BY <2>2 DEF Provenance
    <3> QED
      BY <2>1, <3>1, <3>2
  <2>7. \A i \in 1 .. Len(writeQueue) : writeQueue[i] \in Calls
    BY DEF WriterOK
  <2> HIDE DEF h
  <2>8. \A i \in 1 .. Len(stdin') :
          pc'[stdin'[i]] \notin Unqueued /\ sentSec'[stdin'[i]] = None
    BY <2>4, <2>5, <2>6
  <2>9. \A i \in 1 .. Len(writeQueue') :
          pc'[writeQueue'[i]] \notin Unqueued /\ sentSec'[writeQueue'[i]] = None
    BY <2>4, <2>5, <2>7 DEF Provenance
  <2>10. writing' # None => pc'[writing'] \notin Unqueued /\ sentSec'[writing'] = None
    BY <2>4, <2>5 DEF Provenance, WriterOK
  <2>11. \A c \in Calls : sentSec'[c] # None => pc'[c] \notin Unqueued
    BY <2>3, <2>5 DEF Provenance
  <2>12. record' # None => sentSec'[record'] # None
    BY <2>5 DEF Provenance, ReaderOK
  <2> QED
    BY <2>5, <2>8, <2>9, <2>10, <2>11, <2>12 DEF Provenance
<1>14. ASSUME NEW c \in Calls, ReaderRead(c) PROVE Provenance'
  BY <1>14 DEF ReaderRead, Provenance, Unqueued, CallsOK, WriterOK, NetOK, ReaderOK
<1>15. CASE ReaderMatch
  BY <1>15 DEF ReaderMatch, Provenance, Unqueued, CallsOK, WriterOK, NetOK, ReaderOK
<1>16. CASE ReaderDeliver
  BY <1>16 DEF ReaderDeliver, Provenance, Unqueued, CallsOK, WriterOK, NetOK,
    ReaderOK
<1>17. CASE CaracalExits \/ StderrEnds \/ CancelCtx \/ Tick \/ Closed \/ WriterStops
  \/ ReaderFails \/ CleanupTick \/ CleanupAccount \/ CleanupStops \/ CloseCancels \/
  CloseKills \/ CloseReturns
  BY <1>17, <1>1 DEF CaracalExits, StderrEnds, CancelCtx, Tick, Closed, WriterStops,
    ReaderFails, CleanupTick, CleanupAccount, CleanupStops, CloseCancels,
    CloseKills, CloseReturns
<1>18. CASE UNCHANGED vars
  BY <1>18, <1>1
<1> QED
  BY <1>2, <1>3, <1>4, <1>5, <1>6, <1>7, <1>8, <1>9, <1>10, <1>11, <1>12, <1>13,
    <1>14, <1>15, <1>16, <1>17, <1>18 DEF Next, ProbeStep, WriterStep, ReaderStep,
    CleanupStep, CloseStep

LEMMA DistinctStep == IInv /\ [Next]_vars => Distinct'
<1> SUFFICES ASSUME IInv, [Next]_vars PROVE Distinct'
  OBVIOUS
<1> USE ProberAssumption DEF ProberAssumption, IInv, TypeOK
<1>1. ASSUME UNCHANGED <<writeQueue, writing, stdin>> PROVE Distinct'
  BY <1>1 DEF Distinct
<1>2. ASSUME NEW c \in Calls, Enqueue(c) PROVE Distinct'
  <2>1. \A i \in 1 .. Len(writeQueue) : writeQueue[i] # c
    BY <1>2 DEF Enqueue, Provenance, Unqueued
  <2>2. \A i \in 1 .. Len(stdin) : stdin[i] # c
    BY <1>2 DEF Enqueue, Provenance, Unqueued
  <2>3. writing # c
    BY <1>2 DEF Enqueue, Provenance, Unqueued
  <2> DEFINE q == Append(writeQueue, c)
  <2>4. /\ Len(q) = Len(writeQueue) + 1 /\ Len(writeQueue) \in Nat
        /\ \A i \in 1 .. Len(q) :
             q[i] = IF i = Len(writeQueue) + 1 THEN c ELSE writeQueue[i]
    BY AppendIndex DEF WriterOK
  <2>5. \A i, j \in 1 .. Len(q) : q[i] = q[j] => i = j
    <3> SUFFICES ASSUME NEW i \in 1 .. Len(q), NEW j \in 1 .. Len(q), q[i] = q[j]
                 PROVE  i = j
      OBVIOUS
    <3> QED
      BY <2>1, <2>4 DEF Distinct
  <2>6. \A i \in 1 .. Len(q) : q[i] # writing /\ \A j \in 1 .. Len(stdin) : q[i] # stdin[j]
    BY <2>2, <2>3, <2>4 DEF Distinct
  <2>7. writeQueue' = q /\ UNCHANGED <<writing, stdin>>
    BY <1>2 DEF Enqueue
  <2> HIDE DEF q
  <2> QED
    BY <2>5, <2>6, <2>7 DEF Distinct
<1>3. CASE WriterTake
  <2> DEFINE q == Tail(writeQueue)
  <2>1. /\ Len(writeQueue) \in Nat \ {0} /\ Len(q) = Len(writeQueue) - 1
        /\ Head(writeQueue) = writeQueue[1]
        /\ \A i \in 1 .. Len(q) : q[i] = writeQueue[i + 1]
    BY <1>3, TailIndex DEF WriterTake, WriterOK
  <2>2. \A i \in 1 .. Len(q) : i + 1 \in 1 .. Len(writeQueue) /\ i + 1 # 1
    BY <2>1
  <2>3. writeQueue' = q /\ writing' = Head(writeQueue) /\ stdin' = stdin
    BY <1>3 DEF WriterTake
  <2>4. \A i, j \in 1 .. Len(q) : q[i] = q[j] => i = j
    <3> SUFFICES ASSUME NEW i \in 1 .. Len(q), NEW j \in 1 .. Len(q), q[i] = q[j]
                 PROVE  i = j
      OBVIOUS
    <3>1. i + 1 = j + 1
      BY <2>1, <2>2 DEF Distinct
    <3> QED
      BY <2>1, <3>1
  <2>5. \A i \in 1 .. Len(q) : q[i] # Head(writeQueue)
    BY <2>1, <2>2 DEF Distinct
  <2>6. /\ \A i \in 1 .. Len(q), j \in 1 .. Len(stdin) : q[i] # stdin[j]
        /\ \A j \in 1 .. Len(stdin) : stdin[j] # Head(writeQueue)
    BY <2>1, <2>2 DEF Distinct
  <2> HIDE DEF q
  <2> QED
    BY <2>3, <2>4, <2>5, <2>6 DEF Distinct
<1>4. CASE WriterSend
  <2> DEFINE q == Append(stdin, writing)
  <2>1. writing \in Calls
    BY <1>4 DEF WriterSend, WriterOK
  <2>2. /\ Len(q) = Len(stdin) + 1 /\ Len(stdin) \in Nat
        /\ \A i \in 1 .. Len(q) : q[i] = IF i = Len(stdin) + 1 THEN writing ELSE stdin[i]
    BY <2>1, AppendIndex DEF WriterOK
  <2>3. \A i, j \in 1 .. Len(q) : q[i] = q[j] => i = j
    <3> SUFFICES ASSUME NEW i \in 1 .. Len(q), NEW j \in 1 .. Len(q), q[i] = q[j]
                 PROVE  i = j
      OBVIOUS
    <3> QED
      BY <2>2 DEF Distinct
  <2>4. \A i \in 1 .. Len(writeQueue), j \in 1 .. Len(q) : writeQueue[i] # q[j]
    BY <2>2 DEF Distinct
  <2>5. stdin' = q /\ writing' = None /\ writeQueue' = writeQueue
    BY <1>4 DEF WriterSend
  <2>6. /\ \A i \in 1 .. Len(writeQueue) : writeQueue[i] # None
        /\ \A j \in 1 .. Len(q) : q[j] # None
    BY <2>1, <2>2 DEF WriterOK
  <2> HIDE DEF q
  <2> QED
    BY <2>3, <2>4, <2>5, <2>6 DEF Distinct
<1>5. CASE WriterFails
  BY <1>5 DEF WriterFails, Distinct, CallsOK, WriterOK, NetOK, ReaderOK
<1>6. CASE CaracalSends
  <2> DEFINE q == Tail(stdin)
  <2>1. /\ Len(stdin) \in Nat \ {0} /\ Len(q) = Len(stdin) - 1
        /\ \A i \in 1 .. Len(q) : q[i] = stdin[i + 1]
    BY <1>6, TailIndex DEF CaracalSends, WriterOK
  <2>2. \A i \in 1 .. Len(q) : i + 1 \in 1 .. Len(stdin)
    BY <2>1
  <2>3. stdin' = q /\ UNCHANGED <<writeQueue, writing>>
    BY <1>6 DEF CaracalSends
  <2>4. \A i, j \in 1 .. Len(q) : q[i] = q[j] => i = j
    <3> SUFFICES ASSUME NEW i \in 1 .. Len(q), NEW j \in 1 .. Len(q), q[i] = q[j]
                 PROVE  i = j
      OBVIOUS
    <3>1. i + 1 = j + 1
      BY <2>1, <2>2 DEF Distinct
    <3> QED
      BY <2>1, <3>1
  <2>5. \A j \in 1 .. Len(q) : q[j] # writing /\ \A i \in 1 .. Len(writeQueue) : writeQueue[i] # q[j]
    BY <2>1, <2>2 DEF Distinct
  <2> HIDE DEF q
  <2> QED
    BY <2>3, <2>4, <2>5 DEF Distinct
<1>7. ASSUME NEW c \in Calls, NEW f \in Flows, CallProbe(c, f) PROVE Distinct'
  BY <1>7, <1>1 DEF CallProbe
<1>8. ASSUME NEW c \in Calls, ReaderRead(c) \/ Register(c) \/ ReceiveResult(c) \/
  TimerFires(c) \/ CtxDone(c) \/ DeferredDelete(c) \/ DeferredDecrement(c) PROVE
  Distinct'
  BY <1>8, <1>1 DEF ReaderRead, Register, ReceiveResult, TimerFires, CtxDone,
    DeferredDelete, DeferredDecrement, Leave
<1>9. CASE CaracalExits \/ StderrEnds \/ CancelCtx \/ Tick \/ Closed \/ WriterStops
  \/ ReaderMatch \/ ReaderDeliver \/ ReaderFails \/ CleanupTick \/ CleanupAccount \/
  CleanupStops \/ CloseCancels \/ CloseKills \/ CloseReturns
  BY <1>9, <1>1 DEF CaracalExits, StderrEnds, CancelCtx, Tick, Closed, WriterStops,
    ReaderMatch, ReaderDeliver, ReaderFails, CleanupTick, CleanupAccount,
    CleanupStops, CloseCancels, CloseKills, CloseReturns
<1>10. CASE UNCHANGED vars
  BY <1>10, <1>1
<1> QED
  BY <1>2, <1>3, <1>4, <1>5, <1>6, <1>7, <1>8, <1>9, <1>10 DEF Next, ProbeStep,
    WriterStep, ReaderStep, CleanupStep, CloseStep

LEMMA OwnershipStep == IInv /\ [Next]_vars => Ownership'
<1> SUFFICES ASSUME IInv, [Next]_vars PROVE Ownership'
  OBVIOUS
<1> USE ProberAssumption DEF ProberAssumption, IInv, TypeOK
<1>1. ASSUME UNCHANGED <<now, pc, flow, queued, inFlight>> PROVE Ownership'
  BY <1>1 DEF Ownership, Key
<1>2. ASSUME NEW c \in Calls, NEW f \in Flows, CallProbe(c, f) PROVE Ownership'
  BY <1>2 DEF CallProbe, Ownership, Key, Registered, CallsOK, MapOK, Keys, Seconds
<1>3. ASSUME NEW c \in Calls, Register(c) PROVE Ownership'
  <2> USE DEF Registered
  <2>1. c \in Calls /\ Key(c) \in Keys /\ Key(c) = <<flow[c], queued[c]>>
    BY <1>3 DEF Register, Key, Keys, CallsOK, Provenance
  <2>2. CASE inFlight[Key(c)] # None
    <3>1. UNCHANGED <<now, flow, queued, inFlight>>
      BY <1>3, <2>2 DEF Register
    <3>2. \A d \in Calls : pc'[d] = IF d = c THEN "returned" ELSE pc[d]
      BY <1>3, <2>2 DEF Register, CallsOK
    <3> QED
      BY <1>3, <3>1, <3>2 DEF Register, Ownership, Key, MapOK
  <2>3. CASE inFlight[Key(c)] = None
    <3>1. UNCHANGED <<now, flow, queued>>
      BY <1>3 DEF Register
    <3>2. \A d \in Calls : pc'[d] = IF d = c THEN "queueing" ELSE pc[d]
      BY <1>3, <2>3 DEF Register, CallsOK
    <3>3. \A k \in Keys : inFlight'[k] = IF k = Key(c) THEN c ELSE inFlight[k]
      BY <1>3, <2>3 DEF Register, MapOK
    <3>4. now < queued[c] + ProbeTimeout + StaleGrace
      BY <1>3, StallAssumption
      DEF Register, Ownership, StallAssumption, StaleGrace, CallsOK, Seconds
    <3>5. ASSUME NEW d \in Calls, pc[d] \in Registered PROVE Key(d) # Key(c)
      <4> SUFFICES ASSUME Key(d) = Key(c) PROVE FALSE
        OBVIOUS
      <4>1. queued[d] = queued[c]
        BY DEF Key
      <4>2. now >= queued[d] + ProbeTimeout + StaleGrace
        BY <2>3, <3>5 DEF Ownership
      <4> QED
        BY <3>4, <4>1, <4>2 DEF CallsOK, Seconds, StaleGrace
    <3>6. \A d \in Calls : pc[d] \in Registered => Key(d) \in Keys
      BY DEF Key, Keys, CallsOK, Provenance
    <3>7. ASSUME NEW k \in Keys, inFlight'[k] # None
          PROVE  /\ <<flow'[inFlight'[k]], queued'[inFlight'[k]]>> = k
                 /\ pc'[inFlight'[k]] \in Registered
      <4>1. CASE k = Key(c)
        BY <2>1, <3>1, <3>2, <3>3, <4>1
      <4>2. CASE k # Key(c)
        <5>1. inFlight'[k] = inFlight[k] /\ inFlight[k] \in Calls
          BY <3>3, <3>7, <4>2 DEF MapOK
        <5>2. Key(inFlight[k]) = k /\ pc[inFlight[k]] \in Registered
          BY <3>7, <5>1 DEF Ownership
        <5>3. inFlight[k] # c
          BY <1>3, <5>2 DEF Register
        <5> QED
          BY <3>1, <3>2, <5>1, <5>2, <5>3 DEF Key
      <4> QED
        BY <4>1, <4>2
    <3>8. ASSUME NEW d \in Calls, pc'[d] = "keyed" PROVE now' <= queued'[d] + RegisterStall
      BY <3>1, <3>2, <3>8 DEF Ownership
    <3>9. ASSUME NEW d \in Calls, pc'[d] \in Registered
          PROVE  \/ inFlight'[Key(d)'] = d
                 \/ inFlight'[Key(d)'] = None /\ now' >= queued'[d] + ProbeTimeout + StaleGrace
      <4>1. Key(d)' = Key(d)
        BY <3>1 DEF Key
      <4>2. CASE d = c
        BY <2>1, <3>3, <4>1, <4>2
      <4>3. CASE d # c
        BY <3>1, <3>2, <3>3, <3>5, <3>6, <3>9, <4>1, <4>3 DEF Ownership
      <4> QED
        BY <4>2, <4>3
    <3> QED
      BY <3>7, <3>8, <3>9 DEF Ownership, Key
  <2> QED
    BY <2>2, <2>3
<1>4. ASSUME NEW c \in Calls, Enqueue(c) PROVE Ownership'
  BY <1>4 DEF Enqueue, Ownership, Key, Registered, CallsOK, MapOK, Keys, Seconds
<1>5. ASSUME NEW c \in Calls, ReceiveResult(c) PROVE Ownership'
  BY <1>5 DEF ReceiveResult, Leave, Ownership, Key, Registered, CallsOK, MapOK,
    Keys, Seconds
<1>6. ASSUME NEW c \in Calls, TimerFires(c) PROVE Ownership'
  BY <1>6 DEF TimerFires, Leave, Ownership, Key, Registered, CallsOK, MapOK, Keys,
    Seconds
<1>7. ASSUME NEW c \in Calls, CtxDone(c) PROVE Ownership'
  BY <1>7 DEF CtxDone, Leave, Ownership, Key, Registered, CallsOK, MapOK, Keys,
    Seconds
<1>8. ASSUME NEW c \in Calls, DeferredDelete(c) PROVE Ownership'
  BY <1>8 DEF DeferredDelete, Ownership, Key, Registered, CallsOK, MapOK, Keys,
    Seconds
<1>9. ASSUME NEW c \in Calls, DeferredDecrement(c) PROVE Ownership'
  BY <1>9 DEF DeferredDecrement, Ownership, Key, Registered, CallsOK, MapOK, Keys,
    Seconds
<1>10. CASE CleanupTick
  <2>1. PICK S \in SUBSET Stale(ProbeTimeout + StaleGrace) :
          inFlight' = [k \in Keys |-> IF k \in S THEN None ELSE inFlight[k]]
    <3>1. PICK lag \in 0 .. RegisterStall :
            \E S \in SUBSET Stale(ProbeTimeout + StaleGrace + lag) :
              inFlight' = [k \in Keys |-> IF k \in S THEN None ELSE inFlight[k]]
      BY <1>10 DEF CleanupTick
    <3>2. Stale(ProbeTimeout + StaleGrace + lag) \subseteq Stale(ProbeTimeout + StaleGrace)
      BY DEF Stale, StaleGrace, Keys, Seconds, CallsOK
    <3> QED
      BY <3>1, <3>2
  <2>2. UNCHANGED <<now, pc, flow, queued>>
    BY <1>10 DEF CleanupTick
  <2>3. \A k \in S : k \in Keys /\ now - k[2] >= ProbeTimeout + StaleGrace
    BY DEF Stale
  <2>4. ASSUME NEW c \in Calls, pc[c] \in Registered
        PROVE  \/ inFlight'[Key(c)] = c
               \/ inFlight'[Key(c)] = None /\ now >= queued[c] + ProbeTimeout + StaleGrace
    <3>1. Key(c) \in Keys /\ Key(c)[2] = queued[c]
      BY <2>4 DEF Key, Keys, CallsOK, Provenance, Registered
    <3>2. Key(c) \in S => now >= queued[c] + ProbeTimeout + StaleGrace
      BY <2>3, <3>1 DEF CallsOK, Seconds, StaleGrace
    <3> QED
      BY <2>1, <2>4, <3>1, <3>2 DEF Ownership
  <2> QED
    BY <2>1, <2>2, <2>4 DEF Ownership, Key, MapOK
<1>11. CASE Tick
  BY <1>11 DEF Tick, Ownership, Key, StaleGrace, Registered, CallsOK, MapOK, Keys,
    Seconds
<1>12. ASSUME NEW c \in Calls, ReaderRead(c) PROVE Ownership'
  BY <1>12, <1>1 DEF ReaderRead
<1>13. CASE CaracalSends \/ CaracalExits \/ StderrEnds \/ CancelCtx \/ Closed \/
  WriterTake \/ WriterSend \/ WriterFails \/ WriterStops \/ ReaderMatch \/
  ReaderDeliver \/ ReaderFails \/ CleanupAccount \/ CleanupStops \/ CloseCancels \/
  CloseKills \/ CloseReturns
  BY <1>13, <1>1 DEF CaracalSends, CaracalExits, StderrEnds, CancelCtx, Closed,
    WriterTake, WriterSend, WriterFails, WriterStops, ReaderMatch, ReaderDeliver,
    ReaderFails, CleanupAccount, CleanupStops, CloseCancels, CloseKills,
    CloseReturns
<1>14. CASE UNCHANGED vars
  BY <1>14, <1>1
<1> QED
  BY <1>2, <1>3, <1>4, <1>5, <1>6, <1>7, <1>8, <1>9, <1>10, <1>11, <1>12, <1>13,
    <1>14 DEF Next, ProbeStep, WriterStep, ReaderStep, CleanupStep, CloseStep

LEMMA CorrelationStep == IInv /\ [Next]_vars => Correlation'
<1> SUFFICES ASSUME IInv, [Next]_vars PROVE Correlation'
  OBVIOUS
<1> USE ProberAssumption DEF ProberAssumption, IInv, TypeOK
<1>1. ASSUME UNCHANGED <<pc, flow, queued, resultCh, got, sentSec, record, target>>
  PROVE Correlation'
  BY <1>1 DEF Correlation, CorrelationSound, Correlated
<1>2. ASSUME NEW c \in Calls, NEW f \in Flows, CallProbe(c, f) PROVE Correlation'
  BY <1>2 DEF CallProbe, Correlation, CorrelationSound, Correlated, Provenance,
    Unqueued, CallsOK, ReaderOK, NetOK
<1>3. ASSUME NEW c \in Calls, Register(c) PROVE Correlation'
  BY <1>3 DEF Register, Correlation, CorrelationSound, Correlated, CallsOK,
    ReaderOK, NetOK
<1>4. ASSUME NEW c \in Calls, Enqueue(c) PROVE Correlation'
  BY <1>4 DEF Enqueue, Correlation, CorrelationSound, Correlated, CallsOK, ReaderOK,
    NetOK
<1>5. ASSUME NEW c \in Calls, ReceiveResult(c) PROVE Correlation'
  BY <1>5 DEF ReceiveResult, Leave, Correlation, CorrelationSound, Correlated,
    CallsOK, ReaderOK, NetOK
<1>6. ASSUME NEW c \in Calls, TimerFires(c) PROVE Correlation'
  BY <1>6 DEF TimerFires, Leave, Correlation, CorrelationSound, Correlated, CallsOK,
    ReaderOK, NetOK
<1>7. ASSUME NEW c \in Calls, CtxDone(c) PROVE Correlation'
  BY <1>7 DEF CtxDone, Leave, Correlation, CorrelationSound, Correlated, CallsOK,
    ReaderOK, NetOK
<1>8. ASSUME NEW c \in Calls, DeferredDelete(c) PROVE Correlation'
  BY <1>8 DEF DeferredDelete, Correlation, CorrelationSound, Correlated, CallsOK,
    ReaderOK, NetOK
<1>9. ASSUME NEW c \in Calls, DeferredDecrement(c) PROVE Correlation'
  BY <1>9 DEF DeferredDecrement, Correlation, CorrelationSound, Correlated, CallsOK,
    ReaderOK, NetOK
<1>10. CASE CaracalSends
  <2> DEFINE h == Head(stdin)
  <2>1. h \in Calls /\ sentSec[h] = None
    BY <1>10, TailIndex DEF CaracalSends, WriterOK, Provenance
  <2>2. \A c \in Calls : c # h => sentSec'[c] = sentSec[c]
    BY <1>10, <2>1 DEF CaracalSends, NetOK
  <2>3. UNCHANGED <<pc, flow, queued, resultCh, got, record, target>>
    BY <1>10 DEF CaracalSends
  <2>4. \A r, c \in Calls : Correlated(r, c) => Correlated(r, c)'
    BY <2>1, <2>2, <2>3 DEF Correlated
  <2> QED
    BY <2>3, <2>4 DEF Correlation, CorrelationSound, CallsOK, ReaderOK
<1>11. ASSUME NEW c \in Calls, ReaderRead(c) PROVE Correlation'
  BY <1>11 DEF ReaderRead, Correlation, CorrelationSound, Correlated, CallsOK,
    ReaderOK, NetOK
<1>12. CASE ReaderMatch
  <2> DEFINE found == Lookup(flow[record], sentSec[record] + Offsets[offset])
  <2>1. /\ record \in Calls /\ sentSec[record] \in Int
        /\ pc[record] # "idle" /\ flow[record] \in Flows
    BY <1>12 DEF ReaderMatch, ReaderOK, Provenance, Unqueued, NetOK
  <2>2. Offsets[offset] \in -2 .. 2
    BY DEF Offsets, ReaderOK
  <2>3. CASE found # None
    <3>1. /\ found \in Calls /\ pc[found] # "idle"
          /\ Key(found) = <<flow[record], sentSec[record] + Offsets[offset]>>
      BY <2>1, <2>3 DEF Lookup, Keys, MapOK, Ownership, Registered
    <3>2. Correlated(record, found)
      BY <2>1, <2>2, <3>1 DEF Key, Correlated, CallsOK, Seconds
    <3> QED
      BY <1>12, <2>3, <3>1, <3>2
      DEF ReaderMatch, Correlation, CorrelationSound, Correlated
  <2>4. CASE found = None
    BY <1>12, <2>4
    DEF ReaderMatch, Correlation, CorrelationSound, Correlated, ReaderOK
  <2> QED
    BY <2>3, <2>4
<1>13. CASE ReaderDeliver
  BY <1>13 DEF ReaderDeliver, Correlation, CorrelationSound, Correlated, CallsOK,
    ReaderOK, NetOK
<1>14. CASE CaracalExits \/ StderrEnds \/ CancelCtx \/ Tick \/ Closed \/ WriterTake
  \/ WriterSend \/ WriterFails \/ WriterStops \/ ReaderFails \/ CleanupTick \/
  CleanupAccount \/ CleanupStops \/ CloseCancels \/ CloseKills \/ CloseReturns
  BY <1>14, <1>1 DEF CaracalExits, StderrEnds, CancelCtx, Tick, Closed, WriterTake,
    WriterSend, WriterFails, WriterStops, ReaderFails, CleanupTick, CleanupAccount,
    CleanupStops, CloseCancels, CloseKills, CloseReturns
<1>15. CASE UNCHANGED vars
  BY <1>15, <1>1
<1> QED
  BY <1>2, <1>3, <1>4, <1>5, <1>6, <1>7, <1>8, <1>9, <1>10, <1>11, <1>12, <1>13,
    <1>14, <1>15 DEF Next, ProbeStep, WriterStep, ReaderStep, CleanupStep, CloseStep

-----------------------------------------------------------------------------
(* Theorems *)

\* The inductive invariant holds in every reachable state of the prober.
THEOREM Invariance == Spec => []IInv
<1>1. IInv /\ [Next]_vars => IInv'
  BY CallsStep, MapStep, WriterStepOK, NetStep, ReaderStepOK, LoopsStep, FlagsStep,
    ProvenanceStep, DistinctStep, OwnershipStep, CorrelationStep
  DEF IInv, TypeOK
<1> QED
  BY InitIInv, <1>1, PTL DEF Spec

\* The prober's state stays well formed: no channel exceeds its capacity, and
\* each loop holds a request or a record exactly where its code says so.
THEOREM TypeCorrectness == Spec => []TypeOK
<1>1. IInv => TypeOK
  BY DEF IInv
<1> QED
  BY Invariance, <1>1, PTL

\* The deferred delete of Probe never removes another call's entry, provided no
\* call stalls between its clock read and the lock for as long as an entry lives.
THEOREM OwnDelete == Spec => []DeleteIsOwn
<1>1. IInv => DeleteIsOwn
  BY DEF IInv, Ownership, DeleteIsOwn, Registered
<1> QED
  BY Invariance, <1>1, PTL

\* A call that waits for its reply and is younger than ProbeTimeout + 5s is in
\* the map, so that readerLoop finds it.
THEOREM Findable == Spec => []FindableWhileFresh
<1>1. IInv => FindableWhileFresh
  <2> SUFFICES ASSUME IInv, NEW c \in Calls, pc[c] \in {"queueing", "waiting"},
                      now < queued[c] + ProbeTimeout + StaleGrace
               PROVE  inFlight[Key(c)] = c
    BY DEF FindableWhileFresh
  <2>1. \/ inFlight[Key(c)] = c
        \/ now >= queued[c] + ProbeTimeout + StaleGrace
    BY DEF IInv, Ownership, Registered
  <2> QED
    BY <2>1, ProberAssumption
    DEF ProberAssumption, IInv, TypeOK, CallsOK, Seconds, StaleGrace
<1> QED
  BY Invariance, <1>1, PTL

\* Probe only ever receives or returns a reply for its own flow, sent within two
\* seconds of its key, whatever order replies, removals and deliveries take.
THEOREM Correlates == Spec => []CorrelationSound
<1>1. IInv => CorrelationSound
  BY DEF IInv, Correlation
<1> QED
  BY Invariance, <1>1, PTL

\* A call at least five seconds away from every other call for its flow returns
\* only the reply to its own packet, if packets leave within two seconds of
\* their request.  Five is least: the windows of matchAndDeliverResult around
\* two calls four seconds apart share a second.
THEOREM Attribution == Spec => []SpacedAttribution
<1>1. IInv => SpacedAttribution
  <2> SUFFICES ASSUME IInv, NEW c \in Calls, got[c] # None, InTime(got[c]), Alone(c),
                      got[c] # c
               PROVE  FALSE
    BY DEF SpacedAttribution
  <2> USE ProberAssumption DEF ProberAssumption, IInv, TypeOK
  <2> DEFINE r == got[c]
  <2>1. r \in Calls /\ Correlated(r, c)
    BY DEF CallsOK, Correlation, CorrelationSound
  <2>2. sentSec[r] # None /\ sentSec[r] \in Int /\ flow[r] = flow[c]
    BY <2>1 DEF Correlated, NetOK
  <2>3. pc[r] # "idle"
    BY <2>1, <2>2 DEF Provenance, Unqueued
  <2>4. queued[r] \in Int /\ queued[c] \in Int
    BY <2>1 DEF CallsOK, Seconds
  <2>5. sentSec[r] - queued[c] \in -2 .. 2 /\ sentSec[r] - queued[r] \in -2 .. 2
    BY <2>1 DEF Correlated, InTime
  <2>6. queued[c] - queued[r] >= 5 \/ queued[r] - queued[c] >= 5
    BY <2>1, <2>2, <2>3 DEF Alone
  <2> HIDE DEF r
  <2> QED
    BY <2>2, <2>4, <2>5, <2>6
<1> QED
  BY Invariance, <1>1, PTL
=============================================================================
