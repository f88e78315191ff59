------------------------ MODULE ProberProcessProofs -------------------------
(***************************************************************************)
(* Proofs about ProberProcess, for any startup log, pipe size and number   *)
(* of Runs.                                                                *)
(***************************************************************************)
EXTENDS ProberProcess, TLAPS

\* What exists at each stage of the prober's life: no process before Start, no
\* loop before the header was read, a process that has ended once it was killed
\* or given up; and writerLoop does not end without closing stdin.
Lifetimes ==
  /\ stage \in {"stdin", "stdout", "stderr", "start"} => proc = "none"
  /\ stage \notin {"open", "kill", "wait"} => loops = {}
  /\ stage = "failed" => proc # "running"
  /\ stage \in {"wait", "closed"} => proc = "zombie"
  /\ stage \in {"open", "kill", "wait", "closed"} /\ "writer" \notin loops
       => pipe["stdin"] = "closed"

\* The inductive invariant.
IInv == TypeOK /\ Lifetimes

USE DEF vars

LEMMA InitIInv == Init => IInv
<1> SUFFICES ASSUME Init PROVE IInv
  OBVIOUS
<1> USE ProcessAssumption DEF ProcessAssumption, Init, Fresh
<1>1. pipe \in [Pipes -> {"none", "open", "closed"}] /\ loops \subseteq Loops /\ done \in BOOLEAN
  OBVIOUS
<1>2. toLog \in 0 .. StartupLog /\ unread \in 0 .. StderrPipe /\ runs \in 1 .. MaxRuns
  OBVIOUS
<1>3. TypeOK
  BY <1>1, <1>2 DEF TypeOK
<1>4. Lifetimes
  BY DEF Lifetimes
<1> QED
  BY <1>3, <1>4 DEF IInv

LEMMA StepIInv == IInv /\ [Next]_vars => IInv'
<1> SUFFICES ASSUME IInv, [Next]_vars PROVE IInv'
  OBVIOUS
<1> USE ProcessAssumption DEF ProcessAssumption, IInv, TypeOK, Lifetimes, Pipes, Loops
\* setupCaracalProcess
<1>1. ASSUME NEW p \in Pipes, GetPipe(p) PROVE IInv'
  BY <1>1 DEF GetPipe, After
<1>2. ASSUME NEW p \in Pipes, GetPipeFails(p) PROVE IInv'
  BY <1>2 DEF GetPipeFails
<1>3. CASE StartCaracal
  BY <1>3 DEF StartCaracal
<1>4. CASE StartFails
  BY <1>4 DEF StartFails
\* NewCaracalProber
<1>5. CASE ReadHeader
  BY <1>5 DEF ReadHeader
<1>6. CASE ReadHeaderFails
  BY <1>6 DEF ReadHeaderFails
\* caracal
<1>7. CASE CaracalLogs
  BY <1>7 DEF CaracalLogs
<1>8. CASE CaracalPrintsHeader
  BY <1>8 DEF CaracalPrintsHeader
<1>9. CASE CaracalExits
  BY <1>9 DEF CaracalExits
\* The loops
<1>10. CASE WriterEnds
  BY <1>10 DEF WriterEnds
<1>11. CASE ReaderEnds
  BY <1>11 DEF ReaderEnds
<1>12. CASE LogLine
  BY <1>12 DEF LogLine
<1>13. CASE StderrEnds
  BY <1>13 DEF StderrEnds
<1>14. CASE CleanupEnds
  BY <1>14 DEF CleanupEnds
\* Close
<1>15. CASE CloseCancels
  BY <1>15 DEF CloseCancels
<1>16. CASE CloseKills
  BY <1>16 DEF CloseKills
<1>17. CASE CloseReturns
  BY <1>17 DEF CloseReturns
<1>18. CASE NextRun
  <2>1. runs' \in 1 .. MaxRuns /\ toLog' \in 0 .. StartupLog /\ unread' \in 0 .. StderrPipe
    BY <1>18 DEF NextRun
  <2>2. pipe' \in [Pipes -> {"none", "open", "closed"}] /\ done' \in BOOLEAN
    BY <1>18 DEF NextRun
  <2> QED
    BY <1>18, <2>1, <2>2 DEF NextRun
<1>19. CASE UNCHANGED vars
  BY <1>19
<1> QED
  BY <1>1, <1>2, <1>3, <1>4, <1>5, <1>6, <1>7, <1>8, <1>9, <1>10, <1>11, <1>12, <1>13,
     <1>14, <1>15, <1>16, <1>17, <1>18, <1>19
  DEF Next, SetupStep, HeaderStep, CaracalStep, LoopStep, CloseStep, Stopped

\* The inductive invariant holds at every stage of every Run's prober.
THEOREM Invariance == Spec => []IInv
  BY InitIInv, StepIInv, PTL DEF Spec

\* When NewCaracalProber has failed or Close has returned, no caracal and no loop is
\* running, whichever step failed, and after Close caracal's stdin is closed.
THEOREM NothingOrphaned == Spec => []NoOrphan
<1>1. IInv => NoOrphan
  BY DEF IInv, TypeOK, Lifetimes, NoOrphan, Loops
<1> QED
  BY Invariance, <1>1, PTL
=============================================================================
