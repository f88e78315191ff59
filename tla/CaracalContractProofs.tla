----------------------- MODULE CaracalContractProofs ------------------------
(***************************************************************************)
(* More about CaracalProber, on top of the invariant of                    *)
(* CaracalProberProofs: the InFlightProbes gauge, what Close leaves        *)
(* behind, and that the prober implements ProberContract.                  *)
(***************************************************************************)
EXTENDS CaracalProberProofs

\* Close begins once no call is running and none begins after it; only cleanup
\* between its two statements owes the gauge a subtraction.
Closing ==
  /\ closing # "open" => \A c \in Calls : ~Running(c)
  /\ closing = "closed" => cleanup = "done"
  /\ cleanup # "account" => cleaned = 0

\* A call decides what it returns when it leaves a select, and reports its context
\* only if that is done.
Outcomes ==
  /\ \A c \in Calls : pc[c] \in {"idle", "keyed", "queueing", "waiting"} => outcome[c] = "none"
  /\ \A c \in Calls : pc[c] \in {"deferred", "decrement", "returned"} => outcome[c] # "none"
  /\ \A c \in Calls : pc[c] \in {"deferred", "decrement"} => outcome[c] # "duplicate"
  /\ \A c \in Calls : outcome[c] = "cancelled" => ctxDone

\* The inductive invariant, relative to IInv.
JInv == GaugeConserved /\ Closing /\ Outcomes

USE DEF vars, clock, callState, loopState, callVars, writerVars, netVars,
        readerVars, otherVars

-----------------------------------------------------------------------------
(* Counting entries and decrements. *)

Entries(m)    == {k \in Keys : m[k] # None}
Decrements(p) == {c \in Calls : p[c] = "decrement"}

LEMMA FiniteCounts ==
  ASSUME NEW m, NEW p
  PROVE  /\ IsFiniteSet(Entries(m)) /\ Cardinality(Entries(m)) \in Nat
         /\ IsFiniteSet(Decrements(p)) /\ Cardinality(Decrements(p)) \in Nat
<1>1. IsFiniteSet(Calls)
  BY ProberAssumption DEF ProberAssumption
<1>2. IsFiniteSet(Entries(m))
  BY KeysFinite, FS_Subset DEF Entries
<1>3. IsFiniteSet(Decrements(p))
  BY <1>1, FS_Subset DEF Decrements
<1> QED
  BY <1>2, <1>3, FS_CardinalityType

\* The map gains, loses or keeps the entry under k.
LEMMA EntryStep ==
  ASSUME NEW m, NEW n, NEW k \in Keys, \A x \in Keys : x # k => n[x] = m[x]
  PROVE  /\ m[k] = None /\ n[k] # None => Cardinality(Entries(n)) = Cardinality(Entries(m)) + 1
         /\ m[k] # None /\ n[k] = None => Cardinality(Entries(n)) = Cardinality(Entries(m)) - 1
         /\ (m[k] = None <=> n[k] = None) => Cardinality(Entries(n)) = Cardinality(Entries(m))
<1>1. m[k] = None /\ n[k] # None => Entries(n) = Entries(m) \cup {k} /\ k \notin Entries(m)
  BY DEF Entries
<1>2. m[k] # None /\ n[k] = None => Entries(n) = Entries(m) \ {k} /\ k \in Entries(m)
  BY DEF Entries
<1>3. (m[k] = None <=> n[k] = None) => Entries(n) = Entries(m)
  BY DEF Entries
<1>4. m[k] = None /\ n[k] # None => Cardinality(Entries(n)) = Cardinality(Entries(m)) + 1
  BY <1>1, FiniteCounts, FS_AddElement
<1>5. m[k] # None /\ n[k] = None => Cardinality(Entries(n)) = Cardinality(Entries(m)) - 1
  BY <1>2, FiniteCounts, FS_RemoveElement
<1> QED
  BY <1>3, <1>4, <1>5

\* A call begins, ends or keeps out of its decrement.
LEMMA DecrementStep ==
  ASSUME NEW p, NEW q, NEW c \in Calls, \A x \in Calls : x # c => q[x] = p[x]
  PROVE  /\ p[c] # "decrement" /\ q[c] = "decrement" =>
              Cardinality(Decrements(q)) = Cardinality(Decrements(p)) + 1
         /\ p[c] = "decrement" /\ q[c] # "decrement" =>
              Cardinality(Decrements(q)) = Cardinality(Decrements(p)) - 1
         /\ (p[c] = "decrement" <=> q[c] = "decrement") =>
              Cardinality(Decrements(q)) = Cardinality(Decrements(p))
<1>1. p[c] # "decrement" /\ q[c] = "decrement" =>
        Decrements(q) = Decrements(p) \cup {c} /\ c \notin Decrements(p)
  BY DEF Decrements
<1>2. p[c] = "decrement" /\ q[c] # "decrement" =>
        Decrements(q) = Decrements(p) \ {c} /\ c \in Decrements(p)
  BY DEF Decrements
<1>3. (p[c] = "decrement" <=> q[c] = "decrement") => Decrements(q) = Decrements(p)
  BY DEF Decrements
<1>4. p[c] # "decrement" /\ q[c] = "decrement" =>
        Cardinality(Decrements(q)) = Cardinality(Decrements(p)) + 1
  BY <1>1, FiniteCounts, FS_AddElement
<1>5. p[c] = "decrement" /\ q[c] # "decrement" =>
        Cardinality(Decrements(q)) = Cardinality(Decrements(p)) - 1
  BY <1>2, FiniteCounts, FS_RemoveElement
<1> QED
  BY <1>3, <1>4, <1>5

\* Cleanup removes the entries under S at once.
LEMMA CleanStep ==
  ASSUME NEW m, NEW n, NEW S \in SUBSET Entries(m),
         \A k \in Keys : n[k] = IF k \in S THEN None ELSE m[k]
  PROVE  Cardinality(Entries(n)) + Cardinality(S) = Cardinality(Entries(m))
<1>1. Entries(n) = Entries(m) \ S
  BY DEF Entries
<1>2. Entries(m) \cap S = S
  OBVIOUS
<1>3. IsFiniteSet(Entries(m)) /\ IsFiniteSet(S)
  BY FiniteCounts, FS_Subset
<1>4. Cardinality(Entries(m) \ S) = Cardinality(Entries(m)) - Cardinality(S)
  BY <1>2, <1>3, FS_Difference
<1>5. Cardinality(Entries(m)) \in Nat /\ Cardinality(S) \in Nat
  BY <1>3, FS_CardinalityType
<1> QED
  BY <1>1, <1>4, <1>5

Total == Cardinality(Entries(inFlight)) + Cardinality(Decrements(pc)) + cleaned

LEMMA GaugeIsTotal ==
  /\ GaugeConserved <=> gauge = Total
  /\ GaugeConserved' <=> gauge' = Total'
<1>1. GaugeConserved <=> gauge = Total
  BY DEF GaugeConserved, Total, Entries, Decrements
<1>2. GaugeConserved' <=> gauge' = Total'
  BY DEF GaugeConserved, Total, Entries, Decrements
<1> QED
  BY <1>1, <1>2

LEMMA TotalPrime ==
  Total' = Cardinality(Entries(inFlight')) + Cardinality(Decrements(pc')) + cleaned'
  BY DEF Total, Entries, Decrements

LEMMA KeyInKeys ==
  ASSUME IInv, NEW c \in Calls, pc[c] # "idle"
  PROVE  Key(c) \in Keys
  BY DEF IInv, TypeOK, CallsOK, Provenance, Key, Keys

\* A call moves from p to v, neither of them its decrement.
LEMMA PlainMove ==
  ASSUME IInv, GaugeConserved, NEW c \in Calls, NEW v, pc' = [pc EXCEPT ![c] = v],
         pc[c] # "decrement", v # "decrement", UNCHANGED <<inFlight, gauge, cleaned>>
  PROVE  GaugeConserved'
<1>1. pc'[c] = v /\ \A x \in Calls : x # c => pc'[x] = pc[x]
  BY DEF IInv, TypeOK, CallsOK
<1>2. Decrements(pc') = Decrements(pc)
  BY <1>1 DEF Decrements
<1>3. Total' = Total
  BY <1>2, TotalPrime DEF Total
<1> QED
  BY <1>3, GaugeIsTotal

-----------------------------------------------------------------------------
(* Each part of the invariant is preserved by every step. *)

LEMMA GaugeStep == IInv /\ JInv /\ [Next]_vars => GaugeConserved'
<1> SUFFICES ASSUME IInv, JInv, [Next]_vars PROVE GaugeConserved'
  OBVIOUS
<1>0. gauge = Total /\ GaugeConserved
  BY GaugeIsTotal DEF JInv
<1>a. pc \in [Calls -> {"idle", "keyed", "queueing", "waiting", "deferred", "decrement", "returned"}]
  BY DEF IInv, TypeOK, CallsOK
<1>b. inFlight \in [Keys -> Calls \cup {None}] /\ gauge \in Int /\ cleaned \in Nat
  BY DEF IInv, TypeOK, MapOK
<1>c. /\ Cardinality(Entries(inFlight)) \in Nat /\ Cardinality(Decrements(pc)) \in Nat
      /\ Cardinality(Entries(inFlight')) \in Nat /\ Cardinality(Decrements(pc')) \in Nat
  BY FiniteCounts
<1>1. ASSUME UNCHANGED <<pc, inFlight, gauge, cleaned>> PROVE GaugeConserved'
  BY <1>1, <1>0 DEF GaugeConserved
<1>2. ASSUME NEW c \in Calls, NEW f \in Flows, CallProbe(c, f) PROVE GaugeConserved'
  <2>1. pc[c] = "idle" /\ pc' = [pc EXCEPT ![c] = "keyed"] /\ UNCHANGED <<inFlight, gauge, cleaned>>
    BY <1>2 DEF CallProbe
  <2> QED
    BY <1>0, <2>1, PlainMove
<1>3. ASSUME NEW c \in Calls, Register(c) PROVE GaugeConserved'
  <2>1. CASE inFlight[Key(c)] # None
    <3>1. pc[c] = "keyed" /\ pc' = [pc EXCEPT ![c] = "returned"] /\ UNCHANGED <<inFlight, gauge, cleaned>>
      BY <1>3, <2>1 DEF Register
    <3> QED
      BY <1>0, <3>1, PlainMove
  <2>2. CASE inFlight[Key(c)] = None
    <3>1. /\ pc[c] = "keyed" /\ pc' = [pc EXCEPT ![c] = "queueing"]
          /\ inFlight' = [inFlight EXCEPT ![Key(c)] = c] /\ gauge' = gauge + 1 /\ cleaned' = cleaned
      BY <1>3, <2>2 DEF Register
    <3>2. Key(c) \in Keys
      BY <3>1, KeyInKeys
    <3>3. inFlight'[Key(c)] = c /\ c # None /\ \A x \in Keys : x # Key(c) => inFlight'[x] = inFlight[x]
      BY <1>b, <3>1, <3>2, ProberAssumption DEF ProberAssumption
    <3>4. Cardinality(Entries(inFlight')) = Cardinality(Entries(inFlight)) + 1
      BY <2>2, <3>2, <3>3, EntryStep
    <3>5. pc'[c] = "queueing" /\ \A x \in Calls : x # c => pc'[x] = pc[x]
      BY <1>a, <3>1
    <3>6. Cardinality(Decrements(pc')) = Cardinality(Decrements(pc))
      BY <3>1, <3>5, DecrementStep
    <3>7. gauge' = Total'
      BY <1>0, <1>b, <1>c, <3>1, <3>4, <3>6, TotalPrime DEF Total
    <3> QED
      BY <3>7, GaugeIsTotal
  <2> QED
    BY <2>1, <2>2
<1>4. ASSUME NEW c \in Calls, Enqueue(c) PROVE GaugeConserved'
  <2>1. pc[c] = "queueing" /\ pc' = [pc EXCEPT ![c] = "waiting"] /\ UNCHANGED <<inFlight, gauge, cleaned>>
    BY <1>4 DEF Enqueue
  <2> QED
    BY <1>0, <2>1, PlainMove
<1>5. ASSUME NEW c \in Calls, ReceiveResult(c) \/ TimerFires(c) \/ CtxDone(c) PROVE GaugeConserved'
  <2>1. /\ pc[c] \in {"queueing", "waiting"} /\ pc' = [pc EXCEPT ![c] = "deferred"]
        /\ UNCHANGED <<inFlight, gauge, cleaned>>
    BY <1>5 DEF ReceiveResult, TimerFires, CtxDone, Leave
  <2>2. pc[c] # "decrement"
    BY <2>1
  <2> QED
    BY <1>0, <2>1, <2>2, PlainMove
<1>6. ASSUME NEW c \in Calls, DeferredDelete(c) PROVE GaugeConserved'
  <2>1. /\ pc[c] = "deferred" /\ inFlight' = [inFlight EXCEPT ![Key(c)] = None]
        /\ pc' = [pc EXCEPT ![c] = IF inFlight[Key(c)] # None THEN "decrement" ELSE "returned"]
        /\ gauge' = gauge /\ cleaned' = cleaned
    BY <1>6 DEF DeferredDelete
  <2>2. Key(c) \in Keys
    BY <2>1, KeyInKeys
  <2>3. inFlight'[Key(c)] = None /\ \A x \in Keys : x # Key(c) => inFlight'[x] = inFlight[x]
    BY <1>b, <2>1, <2>2
  <2>4. pc'[c] = IF inFlight[Key(c)] # None THEN "decrement" ELSE "returned"
    BY <1>a, <2>1
  <2>m. pc[c] = "deferred" /\ \A x \in Calls : x # c => pc'[x] = pc[x]
    BY <1>a, <2>1
  <2>5. Cardinality(Entries(inFlight')) + Cardinality(Decrements(pc'))
          = Cardinality(Entries(inFlight)) + Cardinality(Decrements(pc))
    <3>1. CASE inFlight[Key(c)] # None
      <4>1. Cardinality(Entries(inFlight')) = Cardinality(Entries(inFlight)) - 1
        BY <2>2, <2>3, <3>1, EntryStep
      <4>2. pc'[c] = "decrement"
        BY <2>4, <3>1
      <4>3. Cardinality(Decrements(pc')) = Cardinality(Decrements(pc)) + 1
        BY <2>m, <4>2, DecrementStep
      <4> QED
        BY <1>c, <4>1, <4>3
    <3>2. CASE inFlight[Key(c)] = None
      <4>1. Cardinality(Entries(inFlight')) = Cardinality(Entries(inFlight))
        BY <2>2, <2>3, <3>2, EntryStep
      <4>2. pc'[c] = "returned"
        BY <2>4, <3>2
      <4>3. Cardinality(Decrements(pc')) = Cardinality(Decrements(pc))
        BY <2>m, <4>2, DecrementStep
      <4> QED
        BY <4>1, <4>3
    <3> QED
      BY <3>1, <3>2
  <2>6. gauge' = Total'
    BY <1>0, <1>b, <1>c, <2>1, <2>5, TotalPrime DEF Total
  <2> QED
    BY <2>6, GaugeIsTotal
<1>7. ASSUME NEW c \in Calls, DeferredDecrement(c) PROVE GaugeConserved'
  <2>1. /\ pc[c] = "decrement" /\ pc' = [pc EXCEPT ![c] = "returned"]
        /\ gauge' = gauge - 1 /\ inFlight' = inFlight /\ cleaned' = cleaned
    BY <1>7 DEF DeferredDecrement
  <2>2. pc'[c] = "returned" /\ \A x \in Calls : x # c => pc'[x] = pc[x]
    BY <1>a, <2>1
  <2>3. Cardinality(Decrements(pc')) = Cardinality(Decrements(pc)) - 1
    BY <2>1, <2>2, DecrementStep
  <2>4. gauge' = Total'
    BY <1>0, <1>b, <1>c, <2>1, <2>3, TotalPrime DEF Total
  <2> QED
    BY <2>4, GaugeIsTotal
<1>8. CASE CleanupTick
  <2>1. PICK S \in SUBSET Keys :
          /\ \A k \in S : inFlight[k] # None
          /\ inFlight' = [k \in Keys |-> IF k \in S THEN None ELSE inFlight[k]]
          /\ cleaned' = Cardinality(S)
    BY <1>8 DEF CleanupTick, Stale
  <2>2. cleanup = "select" /\ gauge' = gauge /\ pc' = pc
    BY <1>8 DEF CleanupTick
  <2>3. cleaned = 0
    BY <2>2 DEF JInv, Closing
  <2>4. S \in SUBSET Entries(inFlight) /\ \A k \in Keys : inFlight'[k] = IF k \in S THEN None ELSE inFlight[k]
    BY <2>1 DEF Entries
  <2>5. Cardinality(Entries(inFlight')) + Cardinality(S) = Cardinality(Entries(inFlight))
    BY <2>4, CleanStep
  <2>6. Cardinality(S) \in Nat
    BY KeysFinite, FS_Subset, FS_CardinalityType
  <2>7. gauge' = Total'
    BY <1>0, <1>b, <1>c, <2>1, <2>2, <2>3, <2>5, <2>6, TotalPrime DEF Total
  <2> QED
    BY <2>7, GaugeIsTotal
<1>9. CASE CleanupAccount
  <2>1. gauge' = gauge - cleaned /\ cleaned' = 0 /\ pc' = pc /\ inFlight' = inFlight
    BY <1>9 DEF CleanupAccount
  <2>2. gauge' = Total'
    BY <1>0, <1>b, <1>c, <2>1, TotalPrime DEF Total
  <2> QED
    BY <2>2, GaugeIsTotal
<1>10. ASSUME NEW c \in Calls, ReaderRead(c) PROVE GaugeConserved'
  BY <1>10, <1>1 DEF ReaderRead
<1>11. CASE CaracalSends \/ CaracalExits \/ StderrEnds \/ CancelCtx \/ Tick \/ Closed \/
  WriterTake \/ WriterSend \/ WriterFails \/ WriterStops \/ ReaderMatch \/ ReaderDeliver \/
  ReaderFails \/ CleanupStops \/ CloseCancels \/ CloseKills \/ CloseReturns
  BY <1>11, <1>1 DEF CaracalSends, CaracalExits, StderrEnds, CancelCtx, Tick, Closed,
    WriterTake, WriterSend, WriterFails, WriterStops, ReaderMatch, ReaderDeliver,
    ReaderFails, CleanupStops, CloseCancels, CloseKills, CloseReturns
<1>12. CASE UNCHANGED vars
  BY <1>12, <1>1
<1> QED
  BY <1>2, <1>3, <1>4, <1>5, <1>6, <1>7, <1>8, <1>9, <1>10, <1>11, <1>12
  DEF Next, ProbeStep, WriterStep, ReaderStep, CleanupStep, CloseStep

LEMMA ClosingStep == IInv /\ JInv /\ [Next]_vars => Closing'
<1> SUFFICES ASSUME IInv, JInv, [Next]_vars PROVE Closing'
  OBVIOUS
<1> USE DEF JInv, Closing
<1>a. pc \in [Calls -> {"idle", "keyed", "queueing", "waiting", "deferred", "decrement", "returned"}]
  BY DEF IInv, TypeOK, CallsOK
<1>1. ASSUME UNCHANGED <<pc, closing, cleanup, cleaned>> PROVE Closing'
  BY <1>1 DEF Running
<1>2. ASSUME NEW c \in Calls, NEW f \in Flows, CallProbe(c, f) PROVE Closing'
  BY <1>2 DEF CallProbe
<1>3. ASSUME NEW c \in Calls, ProbeStep(c) PROVE Closing'
  <2>1. Running(c) /\ UNCHANGED <<closing, cleanup, cleaned>>
    BY <1>3 DEF ProbeStep, Running, Register, Enqueue, ReceiveResult, TimerFires, CtxDone,
      Leave, DeferredDelete, DeferredDecrement
  <2> QED
    BY <2>1
<1>4. CASE CleanupTick \/ CleanupAccount \/ CleanupStops
  <2>1. closing' = closing /\ pc' = pc /\ cleanup # "done"
    BY <1>4 DEF CleanupTick, CleanupAccount, CleanupStops
  <2>2. cleanup' # "account" => cleaned' = 0
    BY <1>4 DEF CleanupTick, CleanupAccount, CleanupStops
  <2> QED
    BY <2>1, <2>2 DEF Running
<1>5. CASE CloseStep
  BY <1>5 DEF CloseStep, CloseCancels, CloseKills, CloseReturns, Running
<1>6. ASSUME NEW c \in Calls, ReaderRead(c) PROVE Closing'
  BY <1>6, <1>1 DEF ReaderRead
<1>7. CASE CaracalSends \/ CaracalExits \/ StderrEnds \/ CancelCtx \/ Tick \/ Closed \/
  WriterTake \/ WriterSend \/ WriterFails \/ WriterStops \/ ReaderMatch \/ ReaderDeliver \/
  ReaderFails
  BY <1>7, <1>1 DEF CaracalSends, CaracalExits, StderrEnds, CancelCtx, Tick, Closed,
    WriterTake, WriterSend, WriterFails, WriterStops, ReaderMatch, ReaderDeliver, ReaderFails
<1>8. CASE UNCHANGED vars
  BY <1>8, <1>1
<1> QED
  BY <1>2, <1>3, <1>4, <1>5, <1>6, <1>7, <1>8
  DEF Next, WriterStep, ReaderStep, CleanupStep

LEMMA OutcomesStep == IInv /\ JInv /\ [Next]_vars => Outcomes'
<1> SUFFICES ASSUME IInv, JInv, [Next]_vars PROVE Outcomes'
  OBVIOUS
<1> USE DEF JInv, Outcomes
<1>a. /\ pc \in [Calls -> {"idle", "keyed", "queueing", "waiting", "deferred", "decrement", "returned"}]
      /\ outcome \in [Calls -> {"none", "reply", "timeout", "duplicate", "cancelled"}]
  BY DEF IInv, TypeOK, CallsOK
<1>1. ASSUME UNCHANGED <<pc, outcome>>, ctxDone => ctxDone' PROVE Outcomes'
  BY <1>1
<1>2. ASSUME NEW c \in Calls, NEW f \in Flows, CallProbe(c, f) PROVE Outcomes'
  BY <1>2, <1>a DEF CallProbe
<1>3. ASSUME NEW c \in Calls, Register(c) PROVE Outcomes'
  BY <1>3, <1>a DEF Register
<1>4. ASSUME NEW c \in Calls, Enqueue(c) PROVE Outcomes'
  BY <1>4, <1>a DEF Enqueue
<1>5. ASSUME NEW c \in Calls, ReceiveResult(c) PROVE Outcomes'
  BY <1>5, <1>a DEF ReceiveResult, Leave
<1>6. ASSUME NEW c \in Calls, TimerFires(c) PROVE Outcomes'
  BY <1>6, <1>a DEF TimerFires, Leave
<1>7. ASSUME NEW c \in Calls, CtxDone(c) PROVE Outcomes'
  BY <1>7, <1>a DEF CtxDone, Leave
<1>8. ASSUME NEW c \in Calls, DeferredDelete(c) PROVE Outcomes'
  BY <1>8, <1>a DEF DeferredDelete
<1>9. ASSUME NEW c \in Calls, DeferredDecrement(c) PROVE Outcomes'
  BY <1>9, <1>a DEF DeferredDecrement
<1>10. ASSUME NEW c \in Calls, ReaderRead(c) PROVE Outcomes'
  BY <1>10, <1>1 DEF ReaderRead
<1>11. CASE CancelCtx
  BY <1>11, <1>1 DEF CancelCtx
<1>12. CASE CaracalSends \/ CaracalExits \/ StderrEnds \/ Tick \/ Closed \/
  WriterTake \/ WriterSend \/ WriterFails \/ WriterStops \/ ReaderMatch \/ ReaderDeliver \/
  ReaderFails \/ CleanupTick \/ CleanupAccount \/ CleanupStops \/ CloseCancels \/
  CloseKills \/ CloseReturns
  BY <1>12, <1>1 DEF CaracalSends, CaracalExits, StderrEnds, Tick, Closed,
    WriterTake, WriterSend, WriterFails, WriterStops, ReaderMatch, ReaderDeliver, ReaderFails,
    CleanupTick, CleanupAccount, CleanupStops, CloseCancels, CloseKills, CloseReturns
<1>13. CASE UNCHANGED vars
  BY <1>13, <1>1
<1> QED
  BY <1>2, <1>3, <1>4, <1>5, <1>6, <1>7, <1>8, <1>9, <1>10, <1>11, <1>12, <1>13
  DEF Next, ProbeStep, WriterStep, ReaderStep, CleanupStep, CloseStep

LEMMA InitJInv == Init => JInv
<1> SUFFICES ASSUME Init PROVE JInv
  OBVIOUS
<1>1. Entries(inFlight) = {} /\ Decrements(pc) = {} /\ cleaned = 0 /\ gauge = 0
  BY DEF Init, Entries, Decrements
<1>2. gauge = Total
  BY <1>1, FS_EmptySet DEF Total
<1>3. Closing /\ Outcomes
  BY DEF Init, Closing, Outcomes, Running
<1> QED
  BY <1>2, <1>3, GaugeIsTotal DEF JInv

\* The gauge, Close and the outcomes of the calls, in every reachable state.
THEOREM ContractInvariance == Spec => [](IInv /\ JInv)
<1>1. IInv /\ JInv /\ [Next]_vars => JInv'
  BY GaugeStep, ClosingStep, OutcomesStep DEF JInv
<1>2. Spec => []IInv
  BY Invariance
<1> QED
  BY <1>1, <1>2, InitJInv, PTL DEF Spec

-----------------------------------------------------------------------------
(* The properties of the runs. *)

\* The InFlightProbes gauge counts every entry once: for any number of calls, the
\* deferred delete of Probe and cleanupStaleProbes, which both remove under the lock
\* and subtract after it, never subtract the same entry or miss one.
THEOREM GaugeExact == Spec => []GaugeConserved
<1>1. JInv => GaugeConserved
  BY DEF JInv
<1> QED
  BY <1>1, ContractInvariance, PTL

\* Once Close has returned no call runs, the map is empty and the gauge is zero.
THEOREM CleanClose == Spec => []ClosedClean
<1>1. IInv /\ JInv => ClosedClean
  <2> SUFFICES ASSUME IInv, JInv, closing = "closed"
               PROVE  /\ gauge = 0
                      /\ \A k \in Keys : inFlight[k] = None
                      /\ \A c \in Calls : ~Running(c)
    BY DEF ClosedClean
  <2>1. (\A c \in Calls : ~Running(c)) /\ cleaned = 0
    BY DEF JInv, Closing
  <2>2. \A k \in Keys : inFlight[k] = None
    BY <2>1 DEF IInv, TypeOK, MapOK, Ownership, Registered, Running
  <2>3. Entries(inFlight) = {} /\ Decrements(pc) = {}
    BY <2>1, <2>2 DEF Entries, Decrements, Running
  <2>4. gauge = Total
    BY GaugeIsTotal DEF JInv
  <2>5. gauge = 0
    BY <2>1, <2>3, <2>4, FS_EmptySet DEF Total
  <2> QED
    BY <2>1, <2>2, <2>5
<1> QED
  BY <1>1, ContractInvariance, PTL

-----------------------------------------------------------------------------
(* The contract. *)

\* The refinement mapping.
Status(c) == IF Running(c) THEN "pending" ELSE pc[c]
Answer(c) == IF pc[c] = "returned" THEN outcome[c] ELSE "none"

LEMMA InitContract == Init => Contract!Init
  BY DEF Init, Contract!Init, Running

\* A step that neither starts nor ends a call is a stutter of the contract.
LEMMA ContractStutter ==
  ASSUME IInv, UNCHANGED <<flow, ctxDone>>,
         \A c \in Calls : Status(c)' = Status(c) /\ Answer(c)' = Answer(c)
  PROVE  UNCHANGED Contract!vars
  BY DEF Contract!vars, Status, Answer

\* A call moves inside Probe.
LEMMA InsideProbe ==
  ASSUME IInv, NEW c \in Calls, NEW v, Running(c), v \notin {"idle", "returned"},
         pc' = [pc EXCEPT ![c] = v],
         \A d \in Calls : d # c => outcome'[d] = outcome[d], UNCHANGED <<flow, ctxDone>>
  PROVE  UNCHANGED Contract!vars
<1>1. pc'[c] = v /\ \A d \in Calls : d # c => pc'[d] = pc[d]
  BY DEF IInv, TypeOK, CallsOK
<1>2. \A d \in Calls : Status(d)' = Status(d) /\ Answer(d)' = Answer(d)
  BY <1>1 DEF Status, Answer, Running
<1> QED
  BY <1>2, ContractStutter

\* A call returns with the outcome it has.
LEMMA LeavesProbe ==
  ASSUME IInv, NEW c \in Calls, Running(c), pc' = [pc EXCEPT ![c] = "returned"],
         NEW a \in {"reply", "timeout", "duplicate", "cancelled"}, outcome'[c] = a,
         \A d \in Calls : d # c => outcome'[d] = outcome[d], UNCHANGED <<flow, ctxDone>>,
         a = "cancelled" => ctxDone,
         a = "duplicate" => \E d \in Calls \ {c} : Running(d) /\ flow[d] = flow[c]
  PROVE  Contract!Next
<1>1. pc'[c] = "returned" /\ \A d \in Calls : d # c => pc'[d] = pc[d]
  BY DEF IInv, TypeOK, CallsOK
<1>2. /\ Status(c)' = "returned" /\ Answer(c)' = a /\ Status(c) = "pending"
      /\ \A d \in Calls : d # c => Status(d)' = Status(d) /\ Answer(d)' = Answer(d)
  BY <1>1 DEF Status, Answer, Running
<1>3. \A d \in Calls : Running(d) => Status(d) = "pending"
  BY DEF Status
<1>4. Contract!Return(c, a)
  BY <1>2, <1>3 DEF Contract!Return, Status, Answer
<1> QED
  BY <1>4 DEF Contract!Next, Contract!Answers

LEMMA StepContract == IInv /\ JInv /\ [Next]_vars => [Contract!Next]_(Contract!vars)
<1> SUFFICES ASSUME IInv, JInv, [Next]_vars PROVE Contract!Next \/ UNCHANGED Contract!vars
  OBVIOUS
<1>a. /\ pc \in [Calls -> {"idle", "keyed", "queueing", "waiting", "deferred", "decrement", "returned"}]
      /\ flow \in [Calls -> Flows \cup {None}]
      /\ outcome \in [Calls -> {"none", "reply", "timeout", "duplicate", "cancelled"}]
  BY DEF IInv, TypeOK, CallsOK
<1>1. ASSUME UNCHANGED <<pc, flow, outcome, ctxDone>> PROVE UNCHANGED Contract!vars
  <2>1. \A c \in Calls : Status(c)' = Status(c) /\ Answer(c)' = Answer(c)
    BY <1>1 DEF Status, Answer, Running
  <2> QED
    BY <1>1, <2>1, ContractStutter
<1>2. ASSUME NEW c \in Calls, NEW f \in Flows, CallProbe(c, f) PROVE Contract!Next
  <2>1. /\ pc[c] = "idle" /\ pc' = [pc EXCEPT ![c] = "keyed"] /\ flow' = [flow EXCEPT ![c] = f]
        /\ outcome' = outcome /\ ctxDone' = ctxDone
    BY <1>2 DEF CallProbe
  <2>2. pc'[c] = "keyed" /\ \A d \in Calls : d # c => pc'[d] = pc[d]
    BY <1>a, <2>1
  <2>3. /\ Status(c)' = "pending" /\ Status(c) = "idle" /\ \A d \in Calls : Answer(d)' = Answer(d)
        /\ \A d \in Calls : d # c => Status(d)' = Status(d)
    BY <2>1, <2>2 DEF Status, Answer, Running
  <2>4. Contract!Start(c, f)
    BY <2>1, <2>3 DEF Contract!Start, Status, Answer
  <2> QED
    BY <2>4 DEF Contract!Next
<1>3. ASSUME NEW c \in Calls, Register(c) PROVE Contract!Next \/ UNCHANGED Contract!vars
  <2>1. pc[c] = "keyed" /\ Running(c) /\ UNCHANGED <<flow, ctxDone>>
    BY <1>3 DEF Register, Running
  <2>2. CASE inFlight[Key(c)] # None
    <3>1. pc' = [pc EXCEPT ![c] = "returned"] /\ outcome' = [outcome EXCEPT ![c] = "duplicate"]
      BY <1>3, <2>2 DEF Register
    <3>2. Key(c) \in Keys
      BY <2>1, KeyInKeys
    <3> DEFINE d == inFlight[Key(c)]
    <3>3. d \in Calls /\ Key(d) = Key(c) /\ pc[d] \in Registered
      BY <2>2, <3>2 DEF IInv, TypeOK, MapOK, Ownership
    <3>4. d \in Calls \ {c} /\ Running(d) /\ flow[d] = flow[c]
      BY <2>1, <3>3 DEF Registered, Running, Key
    <3>5. outcome'[c] = "duplicate" /\ \A e \in Calls : e # c => outcome'[e] = outcome[e]
      BY <1>a, <3>1
    <3> HIDE DEF d
    <3>6. \E e \in Calls \ {c} : Running(e) /\ flow[e] = flow[c]
      BY <3>4
    <3> QED
      BY <2>1, <3>1, <3>5, <3>6, LeavesProbe
  <2>3. CASE inFlight[Key(c)] = None
    <3>1. pc' = [pc EXCEPT ![c] = "queueing"] /\ outcome' = outcome
      BY <1>3, <2>3 DEF Register
    <3> QED
      BY <2>1, <3>1, InsideProbe
  <2> QED
    BY <2>2, <2>3
<1>4. ASSUME NEW c \in Calls, Enqueue(c) PROVE UNCHANGED Contract!vars
  <2>1. /\ Running(c) /\ pc' = [pc EXCEPT ![c] = "waiting"]
        /\ outcome' = outcome /\ UNCHANGED <<flow, ctxDone>>
    BY <1>4 DEF Enqueue, Running
  <2> QED
    BY <2>1, InsideProbe
<1>5. ASSUME NEW c \in Calls, ReceiveResult(c) \/ TimerFires(c) \/ CtxDone(c)
      PROVE UNCHANGED Contract!vars
  <2>1. /\ Running(c) /\ pc' = [pc EXCEPT ![c] = "deferred"] /\ UNCHANGED <<flow, ctxDone>>
        /\ \E o \in {"reply", "timeout", "cancelled"} : outcome' = [outcome EXCEPT ![c] = o]
    BY <1>5 DEF ReceiveResult, TimerFires, CtxDone, Leave, Running
  <2>2. \A d \in Calls : d # c => outcome'[d] = outcome[d]
    BY <1>a, <2>1
  <2> QED
    BY <2>1, <2>2, InsideProbe
<1>6. ASSUME NEW c \in Calls, DeferredDelete(c) \/ DeferredDecrement(c)
      PROVE Contract!Next \/ UNCHANGED Contract!vars
  <2>1. /\ pc[c] \in {"deferred", "decrement"} /\ Running(c)
        /\ outcome' = outcome /\ UNCHANGED <<flow, ctxDone>>
        /\ \/ pc' = [pc EXCEPT ![c] = "decrement"]
           \/ pc' = [pc EXCEPT ![c] = "returned"]
    BY <1>6 DEF DeferredDelete, DeferredDecrement, Running
  <2>2. CASE pc' = [pc EXCEPT ![c] = "decrement"]
    BY <2>1, <2>2, InsideProbe
  <2>3. CASE pc' = [pc EXCEPT ![c] = "returned"]
    <3>1. outcome[c] \in {"reply", "timeout", "cancelled"} /\ (outcome[c] = "cancelled" => ctxDone)
      BY <1>a, <2>1 DEF JInv, Outcomes
    <3>2. outcome'[c] = outcome[c] /\ \A d \in Calls : d # c => outcome'[d] = outcome[d]
      BY <2>1
    <3> QED
      BY <2>1, <2>3, <3>1, <3>2, LeavesProbe
  <2> QED
    BY <2>1, <2>2, <2>3
<1>7. CASE CancelCtx
  <2>1. ctxDone' = TRUE /\ UNCHANGED <<pc, flow, outcome>>
    BY <1>7 DEF CancelCtx
  <2>2. Contract!Cancel
    BY <2>1 DEF Contract!Cancel, Running
  <2> QED
    BY <2>2 DEF Contract!Next
<1>8. ASSUME NEW c \in Calls, ReaderRead(c) PROVE UNCHANGED Contract!vars
  BY <1>8, <1>1 DEF ReaderRead
<1>9. CASE CaracalSends \/ CaracalExits \/ StderrEnds \/ Tick \/ Closed \/
  WriterTake \/ WriterSend \/ WriterFails \/ WriterStops \/ ReaderMatch \/ ReaderDeliver \/
  ReaderFails \/ CleanupTick \/ CleanupAccount \/ CleanupStops \/ CloseCancels \/
  CloseKills \/ CloseReturns
  BY <1>9, <1>1 DEF CaracalSends, CaracalExits, StderrEnds, Tick, Closed,
    WriterTake, WriterSend, WriterFails, WriterStops, ReaderMatch, ReaderDeliver, ReaderFails,
    CleanupTick, CleanupAccount, CleanupStops, CloseCancels, CloseKills, CloseReturns
<1>10. CASE UNCHANGED vars
  BY <1>10, <1>1
<1> QED
  BY <1>2, <1>3, <1>4, <1>5, <1>6, <1>7, <1>8, <1>9, <1>10
  DEF Next, ProbeStep, WriterStep, ReaderStep, CleanupStep, CloseStep

\* CaracalProber implements the Prober interface (the safety half of ProberContract):
\* a call returns at most once, with one result; ErrDuplicatePD only while another
\* call for the same probe is running; ctx.Err() only once the context is done.
THEOREM Implements == Spec => ImplementsContract
<1>1. Init => Contract!Init
  BY InitContract
<1>2. IInv /\ JInv /\ [Next]_vars => [Contract!Next]_(Contract!vars)
  BY StepContract
<1> QED
  BY <1>1, <1>2, ContractInvariance, PTL DEF Spec, Contract!Spec, ImplementsContract

-----------------------------------------------------------------------------
(* The result channels *)

LEMMA ChannelStep ==
  ASSUME IInv, [Next]_vars, NEW c \in Calls, resultCh[c] # None
  PROVE  resultCh'[c] = resultCh[c] \/ (resultCh'[c] = None /\ got'[c] = resultCh[c])
<1>a. CallsOK /\ ReaderOK
  BY DEF IInv, TypeOK
<1>1. ASSUME NEW d \in Calls, ReceiveResult(d)
  PROVE  resultCh'[c] = resultCh[c] \/ (resultCh'[c] = None /\ got'[c] = resultCh[c])
  BY <1>a, <1>1 DEF ReceiveResult, CallsOK
<1>2. CASE ReaderDeliver
  BY <1>a, <1>2 DEF ReaderDeliver, CallsOK, ReaderOK
<1>3. ASSUME NEW d \in Calls, NEW f \in Flows, CallProbe(d, f) PROVE resultCh' = resultCh
  BY <1>3 DEF CallProbe
<1>4. ASSUME NEW d \in Calls, Register(d) \/ Enqueue(d) \/ TimerFires(d) \/ CtxDone(d)
                              \/ DeferredDelete(d) \/ DeferredDecrement(d) \/ ReaderRead(d)
  PROVE  resultCh' = resultCh
  BY <1>4 DEF Register, Enqueue, TimerFires, CtxDone, DeferredDelete, DeferredDecrement,
              ReaderRead
<1>5. CASE CaracalSends \/ CaracalExits \/ StderrEnds \/ CancelCtx \/ Tick \/ Closed
           \/ WriterTake \/ WriterSend \/ WriterFails \/ WriterStops \/ ReaderMatch
           \/ ReaderFails \/ CleanupTick \/ CleanupAccount \/ CleanupStops \/ CloseCancels
           \/ CloseKills \/ CloseReturns \/ UNCHANGED vars
  BY <1>5 DEF CaracalSends, CaracalExits, StderrEnds, CancelCtx, Tick, Closed, WriterTake,
    WriterSend, WriterFails, WriterStops, ReaderMatch, ReaderFails, CleanupTick,
    CleanupAccount, CleanupStops, CloseCancels, CloseKills, CloseReturns
<1> QED
  BY <1>1, <1>2, <1>3, <1>4, <1>5
  DEF Next, ProbeStep, WriterStep, ReaderStep, CleanupStep, CloseStep

\* matchAndDeliverResult's non-blocking send never replaces a result that waits, for
\* any number of calls and of replies to each: a call returns the first it was sent.
THEOREM FirstReply == Spec => FirstReplyKept
<1>1. IInv /\ [Next]_vars =>
        [\A c \in Calls : resultCh[c] # None =>
           resultCh'[c] = resultCh[c] \/ (resultCh'[c] = None /\ got'[c] = resultCh[c])]_vars
  BY ChannelStep
<1> QED
  BY <1>1, Invariance, PTL DEF Spec, FirstReplyKept
=============================================================================
