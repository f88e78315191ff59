------------------------ MODULE AgentPipelineProofs -------------------------
(***************************************************************************)
(* Proofs about AgentPipeline, for any set of directives and flows, any    *)
(* buffer sizes and any order of cancellation, read and write failures.    *)
(***************************************************************************)
EXTENDS AgentPipeline, FiniteSetTheorems, TLAPS

\* Where each loop can be, and how the loops follow Run: they start together
\* after authentication and Run leaves them only when all are done.
Positions ==
  /\ loop["reader"] \in {"off", "receive", "select", "close", "report", "done"}
  /\ loop["processor"] \in {"off", "select", "wait", "report", "done"}
  /\ loop["writer"] \in {"off", "select", "send", "report", "done"}
  /\ run \in {"create", "dial", "auth"} => \A l \in Loops : loop[l] = "off"
  /\ run = "loops" => \A l \in Loops : loop[l] # "off"
  /\ run \in {"close", "returned"} =>
       (\A l \in Loops : loop[l] = "off") \/ (\A l \in Loops : loop[l] = "done")

\* Before the loops start nothing has happened.
Quiet ==
  loop["reader"] = "off" =>
    /\ groupErr = "none" /\ \A l \in Loops : err[l] = "none"
    /\ received = {}
    /\ \A p \in PDs : worker[p] = "none"
    /\ \A c \in Calls : status[c] = "idle" /\ answer[c] = "none"

\* Who closed which channel, and why the stage behind it stopped reading.
Channels ==
  /\ pdsClosed <=> loop["reader"] \in {"report", "done"}
  /\ fiesClosed <=> loop["processor"] \in {"report", "done"}
  /\ loop["processor"] \in {"wait", "report", "done"} =>
       ctxDone \/ (pdsClosed /\ pds = <<>>)
  /\ loop["writer"] \in {"report", "done"} =>
       ctxDone \/ err["writer"] = "failure" \/ (fiesClosed /\ fies = <<>>)

\* A Probe call runs inside its processPD goroutine, and that one inside
\* processorLoop's wait.
Probes ==
  /\ \A c \in Calls : status[c] = "pending" => worker[c[1]] = "probing"
  /\ \A c \in Calls : answer[c] # "none" <=> status[c] = "returned"
  /\ \A c \in Calls : answer[c] = "cancelled" => ctxDone
  /\ fiesClosed => \A p \in PDs : worker[p] \in {"none", "done"}

\* Where the errors come from: ctx.Err() is returned only once the context is
\* done, and the group's context is done without the caller's only after a loop
\* reported an error of its own.
Errors ==
  /\ \A l \in Loops : err[l] = "cancelled" => ctxDone
  /\ \A l \in Loops : loop[l] = "report" => err[l] # "none"
  /\ loop["reader"] \in {"close", "report", "done"} =>
       err["reader"] \in {"cancelled", "failure"}
  /\ loop["reader"] = "done" => groupErr # "none"
  /\ loop["processor"] = "wait" => err["processor"] # "none"
  /\ err["writer"] = "failure" => loop["writer"] \in {"report", "done"}
  /\ groupErr = "none" /\ ctxDone => parentDone
  /\ groupErr = "cancelled" => parentDone

\* The inductive invariant.
IInv ==
  /\ TypeOK /\ Positions /\ Quiet /\ Channels /\ Probes /\ Errors
  /\ NilMeansShutdown /\ NothingLost

\* The tuples of variables are expanded wherever an UNCHANGED is used.
USE DEF vars, runVars, probeVars, chanVars, loopVars, Sent

-----------------------------------------------------------------------------
(* Facts about the channels and the FIEs. *)

LEMMA AppendFacts ==
  ASSUME NEW S, NEW s \in Seq(S), NEW e \in S
  PROVE  /\ Append(s, e) \in Seq(S)
         /\ Len(s) \in Nat /\ Len(Append(s, e)) = Len(s) + 1
         /\ \A i \in 1 .. Len(s) : Append(s, e)[i] = s[i]
         /\ Append(s, e)[Len(s) + 1] = e
  OBVIOUS

LEMMA TailFacts ==
  ASSUME NEW S, NEW s \in Seq(S), s # <<>>
  PROVE  /\ Head(s) \in S /\ Tail(s) \in Seq(S)
         /\ Len(s) \in Nat \ {0} /\ Len(Tail(s)) = Len(s) - 1
         /\ Head(s) = s[1]
         /\ \A i \in 1 .. Len(Tail(s)) : Tail(s)[i] = s[i + 1]
  OBVIOUS

\* p's FIE is in the channel, with writerLoop or delivered.
HasFIE(p) ==
  \/ Sent(p)
  \/ \E i \in 1 .. Len(fies) : fies[i] = p
  \/ writing = p

\* The count of p's FIEs is positive exactly if there is one.
LEMMA FIEsOfPositive ==
  ASSUME TypeOK, NEW p \in PDs
  PROVE  FIEsOf(p) > 0 <=> HasFIE(p)
<1> DEFINE D == {i \in 1 .. Len(delivered) : delivered[i] = p}
           F == {i \in 1 .. Len(fies) : fies[i] = p}
<1>1. Len(delivered) \in Nat /\ Len(fies) \in Nat
  BY DEF TypeOK
<1>2. IsFiniteSet(1 .. Len(delivered)) /\ IsFiniteSet(1 .. Len(fies))
  BY <1>1, FS_Interval
<1>3. IsFiniteSet(D) /\ IsFiniteSet(F)
  BY <1>2, FS_Subset
<1>4. Cardinality(D) \in Nat /\ Cardinality(F) \in Nat
  BY <1>3, FS_CardinalityType
<1>5. (Cardinality(D) = 0 <=> D = {}) /\ (Cardinality(F) = 0 <=> F = {})
  BY <1>3, FS_EmptySet
<1>6. FIEsOf(p) = Cardinality(D) + Cardinality(F)
                  + (IF writing = p THEN 1 ELSE 0)
  BY DEF FIEsOf
<1> HIDE DEF D, F
<1>7. FIEsOf(p) > 0 <=> D # {} \/ F # {} \/ writing = p
  BY <1>4, <1>5, <1>6
<1> QED
  BY <1>7 DEF D, F, HasFIE

\* Carried without the count.
OnItsWay(p) ==
  \/ holding = p
  \/ loop["processor"] = "select" /\ \E i \in 1 .. Len(pds) : pds[i] = p
  \/ worker[p] \in {"probing", "sending"}
  \/ loop["writer"] \in {"select", "send"} /\ HasFIE(p)
  \/ Sent(p)

LEMMA CarriedCases == TypeOK => \A p \in PDs : Carried(p) <=> OnItsWay(p)
  BY FIEsOfPositive DEF Carried, OnItsWay

-----------------------------------------------------------------------------
(* Each part of the invariant is preserved by every step. *)

LEMMA InitIInv == Init => IInv
<1> SUFFICES ASSUME Init PROVE IInv
  OBVIOUS
<1> USE PipelineAssumption DEF PipelineAssumption, Init, Prober!Init
<1>1. TypeOK
  <2>1. /\ loop \in [Loops -> {"off"}] /\ err \in [Loops -> {"none"}]
        /\ loop["reader"] = "off" /\ loop["writer"] = "off"
    BY DEF Loops
  <2>2. /\ worker \in [PDs -> {"none"}] /\ status \in [Calls -> {"idle"}]
        /\ probing \in [Calls -> {None}] /\ answer \in [Calls -> {"none"}]
    OBVIOUS
  <2>3. /\ pds \in Seq(PDs) /\ Len(pds) <= PDsBufferSize
        /\ fies \in Seq(PDs) /\ Len(fies) <= FIEsBufferSize /\ delivered \in Seq(PDs)
    OBVIOUS
  <2> QED
    BY <2>1, <2>2, <2>3 DEF TypeOK
<1>2. Positions /\ Quiet /\ Channels /\ Probes
  BY DEF Positions, Quiet, Channels, Probes, Loops
<1>3. Errors /\ NilMeansShutdown /\ NothingLost
  BY DEF Errors, NilMeansShutdown, NothingLost, Loops
<1> QED
  BY <1>1, <1>2, <1>3 DEF IInv

LEMMA TypeStep == IInv /\ [Next]_vars => TypeOK'
<1> SUFFICES ASSUME IInv, [Next]_vars PROVE TypeOK'
  OBVIOUS
<1> USE PipelineAssumption DEF PipelineAssumption, IInv, TypeOK, Loops, Exit
<1>1. CASE ProberCreated \/ CreateFails \/ DialFails
  BY <1>1 DEF ProberCreated, CreateFails, DialFails
<1>2. CASE DialSucceeds
  BY <1>2 DEF DialSucceeds
<1>3. CASE AuthFails
  BY <1>3 DEF AuthFails
<1>4. CASE AuthSucceeds
  <2>1. /\ loop' \in [Loops -> {"receive", "select"}]
        /\ loop'["reader"] = "receive" /\ loop'["writer"] = "select"
    BY <1>4 DEF AuthSucceeds
  <2>2. holding = None /\ writing = None
    BY <1>4 DEF AuthSucceeds, Positions
  <2> QED
    BY <1>4, <2>1, <2>2 DEF AuthSucceeds
<1>5. CASE GroupWaitReturns
  BY <1>5 DEF GroupWaitReturns
<1>6. CASE RunReturns
  BY <1>6 DEF RunReturns
<1>7. CASE AfterFuncCloses
  BY <1>7 DEF AfterFuncCloses
<1>8. ASSUME NEW p \in PDs, ReaderReceives(p) PROVE TypeOK'
  BY <1>8 DEF ReaderReceives
<1>9. CASE ReaderGivesUp
  BY <1>9 DEF ReaderGivesUp
<1>10. CASE ReaderQueues
  BY <1>10 DEF ReaderQueues
<1>11. CASE ReaderCancelled
  BY <1>11 DEF ReaderCancelled
<1>12. CASE ReaderCloses
  BY <1>12 DEF ReaderCloses
<1>13. ASSUME NEW l \in Loops, Report(l) PROVE TypeOK'
  <2>1. /\ loop' \in [Loops -> {"off", "receive", "select", "send", "wait", "close",
                                "report", "done"}]
        /\ loop'["reader"] = "select" <=> loop["reader"] = "select"
        /\ loop'["writer"] = "send" <=> loop["writer"] = "send"
    BY <1>13 DEF Report
  <2>2. groupErr' \in {"none", "cancelled", "failure"} /\ ctxDone' \in BOOLEAN
    BY <1>13 DEF Report
  <2> QED
    BY <1>13, <2>1, <2>2 DEF Report
<1>14. CASE ProcessorDispatches
  BY <1>14 DEF ProcessorDispatches
<1>15. CASE ProcessorLeaves
  BY <1>15 DEF ProcessorLeaves
<1>16. CASE ProcessorCloses
  BY <1>16 DEF ProcessorCloses
<1>17. ASSUME NEW c \in Calls, ProbeStarts(c) PROVE TypeOK'
  BY <1>17 DEF ProbeStarts, Prober!Start, FlowOf, Calls
<1>18. ASSUME NEW c \in Calls, NEW a \in Prober!Answers, ProbeReturns(c,
     a) PROVE TypeOK'
  BY <1>18 DEF ProbeReturns, Prober!Return
<1>19. ASSUME NEW p \in PDs, WorkerDecides(p) PROVE TypeOK'
  BY <1>19 DEF WorkerDecides
<1>20. ASSUME NEW p \in PDs, WorkerSends(p) PROVE TypeOK'
  BY <1>20, AppendFacts DEF WorkerSends
<1>21. ASSUME NEW p \in PDs, WorkerCancelled(p) PROVE TypeOK'
  BY <1>21 DEF WorkerCancelled
<1>22. CASE WriterTakes
  BY <1>22 DEF WriterTakes
<1>23. CASE WriterLeaves
  BY <1>23 DEF WriterLeaves
<1>24. CASE WriterSent
  BY <1>24 DEF WriterSent
<1>25. CASE WriterFails
  BY <1>25 DEF WriterFails
<1>26. CASE ParentCancels
  BY <1>26 DEF ParentCancels
<1>27. CASE PeerFails
  <2>1. readable' \in BOOLEAN
    BY <1>27 DEF PeerFails
  <2> QED
    BY <1>27, <2>1 DEF PeerFails
<1>28. CASE UNCHANGED vars
  BY <1>28
<1> QED
  BY <1>1, <1>2, <1>3, <1>4, <1>5, <1>6, <1>7, <1>8, <1>9, <1>10, <1>11, <1>12, <1>13,
     <1>14, <1>15, <1>16, <1>17, <1>18, <1>19, <1>20, <1>21, <1>22, <1>23, <1>24,
     <1>25, <1>26, <1>27, <1>28
  DEF Next, CreateStep, RunStep, ReaderStep, ProcessorStep, ProbeEnds, WorkerStep,
     WriterStep, Terminated

LEMMA PositionsStep == IInv /\ [Next]_vars => Positions'
<1> SUFFICES ASSUME IInv, [Next]_vars PROVE Positions'
  OBVIOUS
<1> USE DEF IInv, TypeOK, Positions, Loops, Exit
<1>1. ASSUME UNCHANGED <<run, loop>> PROVE Positions'
  BY <1>1
<1>2. CASE ProberCreated \/ CreateFails \/ DialFails
  BY <1>2 DEF ProberCreated, CreateFails, DialFails
<1>3. CASE DialSucceeds
  BY <1>3 DEF DialSucceeds
<1>4. CASE AuthFails
  BY <1>4 DEF AuthFails
<1>5. CASE AuthSucceeds
  BY <1>5 DEF AuthSucceeds
<1>6. CASE GroupWaitReturns
  BY <1>6 DEF GroupWaitReturns
<1>7. CASE RunReturns
  BY <1>7 DEF RunReturns
<1>8. ASSUME NEW p \in PDs, ReaderReceives(p) PROVE Positions'
  BY <1>8 DEF ReaderReceives
<1>9. CASE ReaderGivesUp
  BY <1>9 DEF ReaderGivesUp
<1>10. CASE ReaderQueues
  BY <1>10 DEF ReaderQueues
<1>11. CASE ReaderCancelled
  BY <1>11 DEF ReaderCancelled
<1>12. CASE ReaderCloses
  BY <1>12 DEF ReaderCloses
<1>13. ASSUME NEW l \in Loops, Report(l) PROVE Positions'
  BY <1>13 DEF Report
<1>14. CASE ProcessorLeaves
  BY <1>14 DEF ProcessorLeaves
<1>15. CASE ProcessorCloses
  BY <1>15 DEF ProcessorCloses
<1>16. CASE WriterTakes
  BY <1>16 DEF WriterTakes
<1>17. CASE WriterLeaves
  BY <1>17 DEF WriterLeaves
<1>18. CASE WriterSent
  BY <1>18 DEF WriterSent
<1>19. CASE WriterFails
  BY <1>19 DEF WriterFails
<1>20. CASE AfterFuncCloses \/ ProcessorDispatches \/ ParentCancels \/ PeerFails
  BY <1>1, <1>20 DEF AfterFuncCloses, ProcessorDispatches, ParentCancels, PeerFails
<1>21. CASE \E c \in Calls : ProbeStarts(c) \/ ProbeEnds(c)
  BY <1>1, <1>21 DEF ProbeEnds, ProbeStarts, ProbeReturns
<1>22. CASE \E p \in PDs : WorkerStep(p)
  BY <1>1, <1>22 DEF WorkerStep, WorkerDecides, WorkerSends, WorkerCancelled
<1>23. CASE UNCHANGED vars
  BY <1>1, <1>23
<1> QED
  BY <1>2, <1>3, <1>4, <1>5, <1>6, <1>7, <1>8, <1>9, <1>10, <1>11, <1>12, <1>13,
     <1>14, <1>15, <1>16, <1>17, <1>18, <1>19, <1>20, <1>21, <1>22, <1>23
  DEF Next, CreateStep, RunStep, ReaderStep, ProcessorStep, WriterStep, Terminated

LEMMA QuietStep == IInv /\ [Next]_vars => Quiet'
<1> SUFFICES ASSUME IInv, [Next]_vars PROVE Quiet'
  OBVIOUS
<1> USE DEF IInv, TypeOK, Positions, Quiet, Loops, Exit
<1>1. ASSUME UNCHANGED <<loop, err, groupErr, received, worker, probeVars>> PROVE Quiet'
  BY <1>1
<1>2. CASE AuthSucceeds
  BY <1>2 DEF AuthSucceeds
<1>3. ASSUME NEW p \in PDs, ReaderReceives(p) PROVE Quiet'
  BY <1>3 DEF ReaderReceives
<1>4. CASE ReaderGivesUp
  BY <1>4 DEF ReaderGivesUp
<1>5. CASE ReaderQueues
  BY <1>5 DEF ReaderQueues
<1>6. CASE ReaderCancelled
  BY <1>6 DEF ReaderCancelled
<1>7. CASE ReaderCloses
  BY <1>7 DEF ReaderCloses
<1>8. ASSUME NEW l \in Loops, Report(l) PROVE Quiet'
  BY <1>8 DEF Report
<1>9. CASE ProcessorDispatches
  BY <1>9 DEF ProcessorDispatches
<1>10. CASE ProcessorLeaves
  BY <1>10 DEF ProcessorLeaves
<1>11. CASE ProcessorCloses
  BY <1>11 DEF ProcessorCloses
<1>12. ASSUME NEW c \in Calls, ProbeStarts(c) PROVE Quiet'
  BY <1>12 DEF ProbeStarts, Prober!Start, Calls
<1>13. ASSUME NEW c \in Calls, NEW a \in Prober!Answers, ProbeReturns(c, a)
  PROVE  Quiet'
  BY <1>13 DEF ProbeReturns, Prober!Return
<1>14. ASSUME NEW p \in PDs, WorkerDecides(p) PROVE Quiet'
  BY <1>14 DEF WorkerDecides, Sides
<1>15. ASSUME NEW p \in PDs, WorkerSends(p) PROVE Quiet'
  BY <1>15 DEF WorkerSends
<1>16. ASSUME NEW p \in PDs, WorkerCancelled(p) PROVE Quiet'
  BY <1>16 DEF WorkerCancelled
<1>17. CASE WriterTakes
  BY <1>17 DEF WriterTakes
<1>18. CASE WriterLeaves
  BY <1>18 DEF WriterLeaves
<1>19. CASE WriterSent
  BY <1>19 DEF WriterSent
<1>20. CASE WriterFails
  BY <1>20 DEF WriterFails
<1>21. CASE ProberCreated \/ CreateFails \/ DialFails \/ DialSucceeds \/ AuthFails
          \/ GroupWaitReturns
          \/ RunReturns \/ AfterFuncCloses \/ ParentCancels \/ PeerFails
  BY <1>1, <1>21 DEF ProberCreated, CreateFails, DialFails, DialSucceeds, AuthFails,
     GroupWaitReturns,
     RunReturns, AfterFuncCloses, ParentCancels, PeerFails
<1>22. CASE UNCHANGED vars
  BY <1>1, <1>22
<1> QED
  BY <1>2, <1>3, <1>4, <1>5, <1>6, <1>7, <1>8, <1>9, <1>10, <1>11, <1>12,
     <1>13, <1>14, <1>15, <1>16, <1>17, <1>18, <1>19, <1>20, <1>21, <1>22
  DEF Next, CreateStep, RunStep, ReaderStep, ProcessorStep, ProbeEnds, WorkerStep,
     WriterStep, Terminated

LEMMA ChannelsStep == IInv /\ [Next]_vars => Channels'
<1> SUFFICES ASSUME IInv, [Next]_vars PROVE Channels'
  OBVIOUS
<1> USE DEF IInv, TypeOK, Positions, Channels, Loops, Exit
<1>1. ASSUME UNCHANGED <<ctxDone, loop, err, chanVars>> PROVE Channels'
  BY <1>1
<1>2. CASE DialSucceeds
  BY <1>2 DEF DialSucceeds, Quiet
<1>3. CASE AuthSucceeds
  BY <1>3 DEF AuthSucceeds
<1>4. CASE GroupWaitReturns
  BY <1>4 DEF GroupWaitReturns
<1>5. ASSUME NEW p \in PDs, ReaderReceives(p) PROVE Channels'
  BY <1>5 DEF ReaderReceives
<1>6. CASE ReaderGivesUp
  BY <1>6 DEF ReaderGivesUp
<1>7. CASE ReaderQueues
  BY <1>7 DEF ReaderQueues
<1>8. CASE ReaderCancelled
  BY <1>8 DEF ReaderCancelled
<1>9. CASE ReaderCloses
  BY <1>9 DEF ReaderCloses
<1>10. ASSUME NEW l \in Loops, Report(l) PROVE Channels'
  BY <1>10 DEF Report
<1>11. CASE ProcessorDispatches
  BY <1>11 DEF ProcessorDispatches
<1>12. CASE ProcessorLeaves
  BY <1>12 DEF ProcessorLeaves
<1>13. CASE ProcessorCloses
  BY <1>13 DEF ProcessorCloses
<1>14. ASSUME NEW p \in PDs, WorkerSends(p) PROVE Channels'
  BY <1>14 DEF WorkerSends, Probes
<1>15. CASE WriterTakes
  BY <1>15 DEF WriterTakes
<1>16. CASE WriterLeaves
  BY <1>16 DEF WriterLeaves
<1>17. CASE WriterSent
  BY <1>17 DEF WriterSent
<1>18. CASE WriterFails
  BY <1>18 DEF WriterFails
<1>19. CASE ParentCancels
  BY <1>19 DEF ParentCancels
<1>20. CASE ProberCreated \/ CreateFails \/ DialFails \/ AuthFails \/ RunReturns
          \/ AfterFuncCloses \/ PeerFails
  BY <1>1, <1>20 DEF ProberCreated, CreateFails, DialFails, AuthFails, RunReturns,
     AfterFuncCloses, PeerFails
<1>21. CASE \E c \in Calls : ProbeStarts(c) \/ ProbeEnds(c)
  BY <1>1, <1>21 DEF ProbeEnds, ProbeStarts, ProbeReturns, Prober!Start, Prober!Return
<1>22. CASE \E p \in PDs : WorkerDecides(p) \/ WorkerCancelled(p)
  BY <1>1, <1>22 DEF WorkerDecides, WorkerCancelled
<1>23. CASE UNCHANGED vars
  BY <1>1, <1>23
<1> QED
  BY <1>2, <1>3, <1>4, <1>5, <1>6, <1>7, <1>8, <1>9, <1>10, <1>11, <1>12,
     <1>13, <1>14, <1>15, <1>16, <1>17, <1>18, <1>19, <1>20, <1>21, <1>22, <1>23
  DEF Next, CreateStep, RunStep, ReaderStep, ProcessorStep, WorkerStep, WriterStep,
     Terminated

LEMMA ProbesStep == IInv /\ [Next]_vars => Probes'
<1> SUFFICES ASSUME IInv, [Next]_vars PROVE Probes'
  OBVIOUS
<1> USE DEF IInv, TypeOK, Positions, Probes, Loops, Exit
<1>1. ASSUME UNCHANGED <<ctxDone, fiesClosed, worker, probeVars>> PROVE Probes'
  BY <1>1
<1>2. CASE DialSucceeds
  BY <1>2 DEF DialSucceeds, Quiet
<1>3. CASE GroupWaitReturns
  BY <1>3 DEF GroupWaitReturns
<1>4. ASSUME NEW l \in Loops, Report(l) PROVE Probes'
  BY <1>4 DEF Report
<1>5. CASE ProcessorDispatches
  BY <1>5 DEF ProcessorDispatches, Channels
<1>6. CASE ProcessorCloses
  BY <1>6 DEF ProcessorCloses
<1>7. ASSUME NEW c \in Calls, ProbeStarts(c) PROVE Probes'
  BY <1>7 DEF ProbeStarts, Prober!Start, Calls
<1>8. ASSUME NEW c \in Calls, NEW a \in Prober!Answers, ProbeReturns(c, a)
  PROVE  Probes'
  BY <1>8 DEF ProbeReturns, Prober!Return, Prober!Answers, Calls
<1>9. ASSUME NEW p \in PDs, WorkerDecides(p) PROVE Probes'
  <2>1. \A c \in Calls : c[1] = p => status[c] = "returned"
    <3>1. \A c \in Calls : c = <<c[1], c[2]>> /\ c[2] \in Sides
      BY DEF Calls
    <3> QED
      BY <1>9, <3>1 DEF WorkerDecides
  <2>2. \A q \in PDs : q # p => worker'[q] = worker[q]
    BY <1>9 DEF WorkerDecides
  <2>3. \A c \in Calls : c[1] \in PDs
    BY DEF Calls
  <2>4. ~fiesClosed
    BY <1>9 DEF WorkerDecides
  <2> QED
    BY <1>9, <2>1, <2>2, <2>3, <2>4 DEF WorkerDecides
<1>10. ASSUME NEW p \in PDs, WorkerSends(p) PROVE Probes'
  BY <1>10 DEF WorkerSends
<1>11. ASSUME NEW p \in PDs, WorkerCancelled(p) PROVE Probes'
  BY <1>11 DEF WorkerCancelled
<1>12. CASE ParentCancels
  BY <1>12 DEF ParentCancels
<1>13. CASE ProberCreated \/ CreateFails \/ DialFails \/ AuthFails \/ AuthSucceeds
          \/ RunReturns
          \/ AfterFuncCloses \/ ReaderGivesUp \/ ReaderQueues
          \/ ReaderCancelled \/ ReaderCloses \/ ProcessorLeaves \/ WriterTakes
          \/ WriterLeaves \/ WriterSent \/ WriterFails \/ PeerFails
  BY <1>1, <1>13 DEF ProberCreated, CreateFails, DialFails, AuthFails, AuthSucceeds,
     RunReturns,
     AfterFuncCloses, ReaderGivesUp, ReaderQueues, ReaderCancelled, ReaderCloses,
     ProcessorLeaves, WriterTakes, WriterLeaves, WriterSent, WriterFails, PeerFails
<1>14. CASE \E p \in PDs : ReaderReceives(p)
  BY <1>1, <1>14 DEF ReaderReceives
<1>15. CASE UNCHANGED vars
  BY <1>1, <1>15
<1> QED
  BY <1>2, <1>3, <1>4, <1>5, <1>6, <1>7, <1>8, <1>9, <1>10, <1>11, <1>12,
     <1>13, <1>14, <1>15
  DEF Next, CreateStep, RunStep, ReaderStep, ProcessorStep, ProbeEnds, WorkerStep,
     WriterStep, Terminated

LEMMA ErrorsStep == IInv /\ [Next]_vars => Errors'
<1> SUFFICES ASSUME IInv, [Next]_vars PROVE Errors'
  OBVIOUS
<1> USE DEF IInv, TypeOK, Positions, Errors, Loops, Exit
<1>1. ASSUME UNCHANGED <<parentDone, ctxDone, groupErr, loop, err>> PROVE Errors'
  BY <1>1
<1>2. CASE DialSucceeds
  BY <1>2 DEF DialSucceeds, Quiet
<1>3. CASE AuthSucceeds
  BY <1>3 DEF AuthSucceeds
<1>4. CASE GroupWaitReturns
  BY <1>4 DEF GroupWaitReturns
<1>5. ASSUME NEW p \in PDs, ReaderReceives(p) PROVE Errors'
  BY <1>5 DEF ReaderReceives
<1>6. CASE ReaderGivesUp
  BY <1>6 DEF ReaderGivesUp
<1>7. CASE ReaderQueues
  BY <1>7 DEF ReaderQueues
<1>8. CASE ReaderCancelled
  BY <1>8 DEF ReaderCancelled
<1>9. CASE ReaderCloses
  BY <1>9 DEF ReaderCloses
<1>10. ASSUME NEW l \in Loops, Report(l) PROVE Errors'
  BY <1>10 DEF Report
<1>11. CASE ProcessorLeaves
  BY <1>11 DEF ProcessorLeaves
<1>12. CASE ProcessorCloses
  BY <1>12 DEF ProcessorCloses
<1>13. CASE WriterTakes
  BY <1>13 DEF WriterTakes
<1>14. CASE WriterLeaves
  BY <1>14 DEF WriterLeaves
<1>15. CASE WriterSent
  BY <1>15 DEF WriterSent
<1>16. CASE WriterFails
  BY <1>16 DEF WriterFails
<1>17. CASE ParentCancels
  BY <1>17 DEF ParentCancels
<1>18. CASE ProberCreated \/ CreateFails \/ DialFails \/ AuthFails \/ RunReturns
          \/ AfterFuncCloses
          \/ ProcessorDispatches \/ PeerFails
  BY <1>1, <1>18 DEF ProberCreated, CreateFails, DialFails, AuthFails, RunReturns,
     AfterFuncCloses,
     ProcessorDispatches, PeerFails
<1>19. CASE \E c \in Calls : ProbeStarts(c) \/ ProbeEnds(c)
  BY <1>1, <1>19 DEF ProbeEnds, ProbeStarts, ProbeReturns, Prober!Start, Prober!Return
<1>20. CASE \E p \in PDs : WorkerStep(p)
  BY <1>1, <1>20 DEF WorkerStep, WorkerDecides, WorkerSends, WorkerCancelled
<1>21. CASE UNCHANGED vars
  BY <1>1, <1>21
<1> QED
  BY <1>2, <1>3, <1>4, <1>5, <1>6, <1>7, <1>8, <1>9, <1>10, <1>11, <1>12,
     <1>13, <1>14, <1>15, <1>16, <1>17, <1>18, <1>19, <1>20, <1>21
  DEF Next, CreateStep, RunStep, ReaderStep, ProcessorStep, WriterStep, Terminated

LEMMA NilStep == IInv /\ [Next]_vars => NilMeansShutdown'
<1> SUFFICES ASSUME IInv, [Next]_vars PROVE NilMeansShutdown'
  OBVIOUS
<1> USE DEF IInv, TypeOK, NilMeansShutdown
<1>1. ASSUME UNCHANGED <<result, parentDone>> PROVE NilMeansShutdown'
  BY <1>1
<1>2. CASE CreateFails \/ DialFails
  BY <1>2 DEF CreateFails, DialFails
<1>3. CASE AuthFails
  BY <1>3 DEF AuthFails
<1>4. CASE GroupWaitReturns
  BY <1>4 DEF GroupWaitReturns, Loops, Errors
<1>5. CASE ParentCancels
  BY <1>5 DEF ParentCancels
<1>6. CASE ProberCreated \/ DialSucceeds \/ AuthSucceeds \/ RunReturns
          \/ AfterFuncCloses
          \/ ReaderGivesUp \/ ReaderQueues \/ ReaderCancelled \/ ReaderCloses
          \/ ProcessorDispatches \/ ProcessorLeaves \/ ProcessorCloses
          \/ WriterTakes \/ WriterLeaves \/ WriterSent \/ WriterFails
          \/ PeerFails
  BY <1>1, <1>6 DEF ProberCreated, DialSucceeds, AuthSucceeds, RunReturns,
     AfterFuncCloses,
     ReaderGivesUp, ReaderQueues, ReaderCancelled, ReaderCloses,
     ProcessorDispatches, ProcessorLeaves, ProcessorCloses, WriterTakes,
     WriterLeaves, WriterSent, WriterFails, PeerFails
<1>7. CASE \E p \in PDs : ReaderReceives(p)
  BY <1>1, <1>7 DEF ReaderReceives
<1>8. CASE \E l \in Loops : Report(l)
  BY <1>1, <1>8 DEF Report
<1>9. CASE \E c \in Calls : ProbeStarts(c) \/ ProbeEnds(c)
  BY <1>1, <1>9 DEF ProbeEnds, ProbeStarts, ProbeReturns, Prober!Start, Prober!Return
<1>10. CASE \E p \in PDs : WorkerStep(p)
  BY <1>1, <1>10 DEF WorkerStep, WorkerDecides, WorkerSends, WorkerCancelled
<1>11. CASE UNCHANGED vars
  BY <1>1, <1>11
<1> QED
  BY <1>2, <1>3, <1>4, <1>5, <1>6, <1>7, <1>8, <1>9, <1>10, <1>11
  DEF Next, CreateStep, RunStep, ReaderStep, ProcessorStep, WriterStep, Terminated,
     Loops

\* A directive does not get lost in a step that keeps what carries it.
LEMMA KeptIfCarried ==
  ASSUME IInv, TypeOK',
         \A p \in PDs : Refused(p) => Refused(p)',
         ctxDone => ctxDone', err["writer"] = "failure" => err'["writer"] = "failure",
         \A p \in received' \ received : OnItsWay(p)',
         \A p \in PDs : OnItsWay(p) =>
           OnItsWay(p)' \/ Refused(p)' \/ ctxDone' \/ err'["writer"] = "failure"
  PROVE  NothingLost'
<1>1. \A p \in PDs : Carried(p) <=> OnItsWay(p)
  BY CarriedCases DEF IInv
<1>2. (TypeOK => \A p \in PDs : Carried(p) <=> OnItsWay(p))'
  BY CarriedCases, PTL
<1>3. received \subseteq PDs /\ received' \subseteq PDs
  BY DEF IInv, TypeOK
<1> QED
  BY <1>1, <1>2, <1>3 DEF IInv, NothingLost

LEMMA NothingLostStep == IInv /\ [Next]_vars => NothingLost'
<1> SUFFICES ASSUME IInv, [Next]_vars PROVE NothingLost'
  OBVIOUS
<1>0. TypeOK'
  BY TypeStep
<1>1. ASSUME UNCHANGED <<ctxDone, loop, err, received, holding, pds, worker, answer,
                         fies, writing, delivered>>
  PROVE  NothingLost'
  BY <1>0, <1>1, KeptIfCarried DEF OnItsWay, HasFIE, Refused
\* Before the loops start there is no directive to lose.
<1>2. CASE DialSucceeds
  BY <1>2 DEF DialSucceeds, IInv, Quiet, Positions, Loops, NothingLost
<1>3. CASE AuthSucceeds
  BY <1>3 DEF AuthSucceeds, IInv, Quiet, Positions, Loops, NothingLost
\* Once the context is done every directive may be dropped.
<1>4. CASE GroupWaitReturns \/ ParentCancels
  BY <1>4 DEF GroupWaitReturns, ParentCancels, NothingLost
<1>5. CASE ReaderCancelled
  BY <1>5 DEF ReaderCancelled, NothingLost
<1>6. ASSUME NEW p \in PDs, WorkerCancelled(p) PROVE NothingLost'
  BY <1>6 DEF WorkerCancelled, NothingLost
<1>7. CASE WriterFails
  BY <1>0, <1>7, KeptIfCarried
  DEF OnItsWay, HasFIE, Refused, WriterFails, NothingLost, Exit, IInv, TypeOK, Loops
\* readerLoop
<1>8. ASSUME NEW p \in PDs, ReaderReceives(p) PROVE NothingLost'
  <2>1. holding = None /\ holding' = p /\ received' = received \cup {p}
    BY <1>8 DEF ReaderReceives, IInv, TypeOK
  <2>2. loop'["processor"] = loop["processor"] /\ loop'["writer"] = loop["writer"]
    BY <1>8 DEF ReaderReceives, IInv, TypeOK, Loops
  <2>3. OnItsWay(p)'
    BY <2>1 DEF OnItsWay
  <2>4. \A q \in PDs : OnItsWay(q) => OnItsWay(q)'
    BY <1>8, <2>1, <2>2, PipelineAssumption
    DEF ReaderReceives, OnItsWay, HasFIE, PipelineAssumption
  <2>5. \A q \in PDs : Refused(q) => Refused(q)'
    BY <1>8 DEF ReaderReceives, Refused
  <2> QED
    BY <1>0, <1>8, <2>1, <2>3, <2>4, <2>5, KeptIfCarried DEF ReaderReceives
<1>9. CASE ReaderGivesUp
  BY <1>0, <1>9, KeptIfCarried
  DEF OnItsWay, HasFIE, Refused, ReaderGivesUp, Exit, IInv, TypeOK, Loops
<1>10. CASE ReaderQueues
  <2>1. /\ Len(pds) \in Nat /\ Len(pds') = Len(pds) + 1
        /\ \A i \in 1 .. Len(pds) : pds'[i] = pds[i]
        /\ pds'[Len(pds) + 1] = holding
    BY <1>10, AppendFacts DEF ReaderQueues, IInv, TypeOK
  <2>2. loop'["processor"] = loop["processor"] /\ loop'["writer"] = loop["writer"]
    BY <1>10 DEF ReaderQueues, IInv, TypeOK, Loops
  <2>3. loop["processor"] = "select" \/ ctxDone
    BY <1>10 DEF ReaderQueues, IInv, Positions, Channels, Loops, TypeOK
  <2>4. \A q \in PDs : OnItsWay(q) => OnItsWay(q)' \/ ctxDone
    <3> SUFFICES ASSUME NEW q \in PDs, OnItsWay(q), ~ctxDone PROVE OnItsWay(q)'
      OBVIOUS
    <3>1. CASE holding = q
      <4>1. pds'[Len(pds) + 1] = q /\ Len(pds) + 1 \in 1 .. Len(pds')
        BY <2>1, <3>1
      <4> QED
        BY <2>2, <2>3, <4>1 DEF OnItsWay
    <3>2. CASE \E i \in 1 .. Len(pds) : pds[i] = q
      <4>1. \E i \in 1 .. Len(pds') : pds'[i] = q
        BY <2>1, <3>2
      <4> QED
        BY <2>2, <2>3, <4>1 DEF OnItsWay
    <3>3. CASE holding # q /\ ~\E i \in 1 .. Len(pds) : pds[i] = q
      BY <1>10, <2>2, <3>3 DEF ReaderQueues, OnItsWay, HasFIE
    <3> QED
      BY <3>1, <3>2, <3>3
  <2>5. \A q \in PDs : Refused(q) => Refused(q)'
    BY <1>10 DEF ReaderQueues, Refused
  <2> QED
    BY <1>0, <1>10, <2>4, <2>5, KeptIfCarried DEF ReaderQueues
<1>11. CASE ReaderCloses
  BY <1>0, <1>11, KeptIfCarried
  DEF OnItsWay, HasFIE, Refused, ReaderCloses, IInv, TypeOK, Loops
<1>12. ASSUME NEW l \in Loops, Report(l) PROVE NothingLost'
  BY <1>0, <1>12, KeptIfCarried
  DEF OnItsWay, HasFIE, Refused, Report, IInv, TypeOK, Loops
\* processorLoop
<1>13. CASE ProcessorDispatches
  <2>1. /\ Head(pds) \in PDs /\ Len(pds) \in Nat \ {0} /\ Len(pds') = Len(pds) - 1
        /\ pds[1] = Head(pds)
        /\ \A i \in 1 .. Len(pds') : pds'[i] = pds[i + 1]
    BY <1>13, TailFacts DEF ProcessorDispatches, IInv, TypeOK
  <2>2. /\ worker'[Head(pds)] = "probing"
        /\ \A q \in PDs : q # Head(pds) => worker'[q] = worker[q]
    BY <1>13, <2>1 DEF ProcessorDispatches, IInv, TypeOK
  <2>3. \A q \in PDs : OnItsWay(q) => OnItsWay(q)'
    <3> SUFFICES ASSUME NEW q \in PDs, OnItsWay(q) PROVE OnItsWay(q)'
      OBVIOUS
    <3>1. CASE q = Head(pds)
      BY <2>2, <3>1 DEF OnItsWay
    <3>2. CASE q # Head(pds)
      <4>1. (\E i \in 1 .. Len(pds) : pds[i] = q) => \E i \in 1 .. Len(pds') : pds'[i] = q
        <5> SUFFICES ASSUME NEW i \in 1 .. Len(pds), pds[i] = q
                     PROVE  \E j \in 1 .. Len(pds') : pds'[j] = q
          OBVIOUS
        <5>1. i - 1 \in 1 .. Len(pds') /\ pds'[i - 1] = q
          BY <2>1, <3>2
        <5> QED
          BY <5>1
      <4> QED
        BY <1>13, <2>2, <3>2, <4>1 DEF ProcessorDispatches, OnItsWay, HasFIE
    <3> QED
      BY <3>1, <3>2
  <2>4. \A q \in PDs : Refused(q) => Refused(q)'
    BY <1>13 DEF ProcessorDispatches, Refused
  <2> QED
    BY <1>0, <1>13, <2>3, <2>4, KeptIfCarried DEF ProcessorDispatches
<1>14. CASE ProcessorLeaves
  <2>1. loop'["writer"] = loop["writer"] /\ err'["writer"] = err["writer"]
    BY <1>14 DEF ProcessorLeaves, Exit, IInv, TypeOK, Loops
  <2>2. ctxDone \/ pds = <<>>
    BY <1>14 DEF ProcessorLeaves
  <2>3. \A q \in PDs : OnItsWay(q) => OnItsWay(q)' \/ ctxDone
    BY <1>14, <2>1, <2>2 DEF ProcessorLeaves, OnItsWay, HasFIE
  <2>4. \A q \in PDs : Refused(q) => Refused(q)'
    BY <1>14 DEF ProcessorLeaves, Refused
  <2> QED
    BY <1>0, <1>14, <2>1, <2>3, <2>4, KeptIfCarried DEF ProcessorLeaves
<1>15. CASE ProcessorCloses
  BY <1>0, <1>15, KeptIfCarried
  DEF OnItsWay, HasFIE, Refused, ProcessorCloses, IInv, TypeOK, Loops
\* processPD
<1>16. ASSUME NEW c \in Calls, ProbeStarts(c) PROVE NothingLost'
  BY <1>16, <1>1 DEF ProbeStarts, Prober!Start
<1>17. ASSUME NEW c \in Calls, NEW a \in Prober!Answers, ProbeReturns(c, a)
  PROVE  NothingLost'
  <2>1. \A q \in PDs : OnItsWay(q) => OnItsWay(q)'
    BY <1>17 DEF ProbeReturns, Prober!Return, OnItsWay, HasFIE
  <2>2. answer[c] # "duplicate"
    BY <1>17 DEF ProbeReturns, Prober!Return, IInv, Probes
  <2>3. \A d \in Calls : d # c => answer'[d] = answer[d]
    BY <1>17 DEF ProbeReturns, Prober!Return, IInv, TypeOK
  <2>4. \A q \in PDs : Refused(q) => Refused(q)'
    <3>1. \A q \in PDs, s \in Sides : <<q, s>> \in Calls
      BY DEF Calls
    <3> QED
      BY <2>2, <2>3, <3>1 DEF Refused
  <2> QED
    BY <1>0, <1>17, <2>1, <2>4, KeptIfCarried DEF ProbeReturns, Prober!Return
<1>18. ASSUME NEW p \in PDs, WorkerDecides(p) PROVE NothingLost'
  <2>1. \A q \in PDs : q # p => worker'[q] = worker[q]
    BY <1>18 DEF WorkerDecides, IInv, TypeOK
  <2>2. \A q \in PDs : Refused(q) => Refused(q)'
    BY <1>18 DEF WorkerDecides, Refused
  <2>3. worker'[p] = "sending" \/ Refused(p) \/ ctxDone
    <3>1. CASE \A s \in Sides : answer[<<p, s>>] \in {"reply", "timeout"}
      BY <1>18, <3>1 DEF WorkerDecides, IInv, TypeOK
    <3>2. ASSUME NEW s \in Sides, answer[<<p, s>>] \notin {"reply", "timeout"}
      PROVE  Refused(p) \/ ctxDone
      <4>1. <<p, s>> \in Calls
        BY DEF Calls
      <4>2. answer[<<p, s>>] \in {"duplicate", "cancelled"}
        BY <1>18, <3>2, <4>1 DEF WorkerDecides, IInv, TypeOK, Probes, Prober!Answers
      <4> QED
        BY <4>1, <4>2 DEF IInv, Probes, Refused
    <3> QED
      BY <3>1, <3>2
  <2>4. \A q \in PDs : OnItsWay(q) => OnItsWay(q)' \/ Refused(q) \/ ctxDone
    BY <1>18, <2>1, <2>3 DEF WorkerDecides, OnItsWay, HasFIE
  <2> QED
    BY <1>0, <1>18, <2>2, <2>4, KeptIfCarried DEF WorkerDecides
<1>19. ASSUME NEW p \in PDs, WorkerSends(p) PROVE NothingLost'
  <2>1. /\ Len(fies) \in Nat /\ Len(fies') = Len(fies) + 1
        /\ \A i \in 1 .. Len(fies) : fies'[i] = fies[i]
        /\ fies'[Len(fies) + 1] = p
    BY <1>19, AppendFacts DEF WorkerSends, IInv, TypeOK
  <2>2. HasFIE(p)' /\ \A q \in PDs : HasFIE(q) => HasFIE(q)'
    <3>1. Len(fies) + 1 \in 1 .. Len(fies')
      BY <2>1
    <3>2. \A i \in 1 .. Len(fies) : i \in 1 .. Len(fies')
      BY <2>1
    <3> QED
      BY <1>19, <2>1, <3>1, <3>2 DEF WorkerSends, HasFIE
  <2>3. loop["writer"] \in {"select", "send"} \/ ctxDone \/ err["writer"] = "failure"
    <3>1. ~fiesClosed
      BY <1>19 DEF WorkerSends, IInv, Probes
    <3>2. loop["reader"] # "off"
      BY <1>19 DEF WorkerSends, IInv, Quiet
    <3>3. loop["writer"] # "off"
      BY <3>2 DEF IInv, TypeOK, Positions, Loops
    <3> QED
      BY <3>1, <3>3 DEF IInv, Positions, Channels
  <2>4. \A q \in PDs : q # p => worker'[q] = worker[q]
    BY <1>19 DEF WorkerSends, IInv, TypeOK
  <2>5. \A q \in PDs : OnItsWay(q) => OnItsWay(q)' \/ ctxDone
     \/ err["writer"] = "failure"
    BY <1>19, <2>2, <2>3, <2>4 DEF WorkerSends, OnItsWay
  <2>6. \A q \in PDs : Refused(q) => Refused(q)'
    BY <1>19 DEF WorkerSends, Refused
  <2> QED
    BY <1>0, <1>19, <2>5, <2>6, KeptIfCarried DEF WorkerSends
\* writerLoop
<1>20. CASE WriterTakes
  <2>1. /\ Head(fies) \in PDs /\ Len(fies) \in Nat \ {0} /\ Len(fies') = Len(fies) - 1
        /\ fies[1] = Head(fies)
        /\ \A i \in 1 .. Len(fies') : fies'[i] = fies[i + 1]
    BY <1>20, TailFacts DEF WriterTakes, IInv, TypeOK
  <2>2. /\ writing = None /\ writing' = Head(fies) /\ writing' # None
        /\ loop'["writer"] = "send" /\ loop'["processor"] = loop["processor"]
    BY <1>20, <2>1, PipelineAssumption
    DEF WriterTakes, IInv, TypeOK, Loops, PipelineAssumption
  <2>3. \A q \in PDs : HasFIE(q) => HasFIE(q)'
    <3> SUFFICES ASSUME NEW q \in PDs, NEW i \in 1 .. Len(fies), fies[i] = q
                 PROVE  HasFIE(q)'
      BY <1>20, <2>2, PipelineAssumption DEF WriterTakes, HasFIE, PipelineAssumption
    <3>1. CASE i = 1
      BY <2>1, <2>2, <3>1 DEF HasFIE
    <3>2. CASE i # 1
      <4>1. i - 1 \in 1 .. Len(fies') /\ fies'[i - 1] = fies[i]
        BY <2>1, <3>2
      <4> QED
        BY <4>1 DEF HasFIE
    <3> QED
      BY <3>1, <3>2
  <2>4. \A q \in PDs : OnItsWay(q) => OnItsWay(q)'
    BY <1>20, <2>2, <2>3 DEF WriterTakes, OnItsWay
  <2>5. \A q \in PDs : Refused(q) => Refused(q)'
    BY <1>20 DEF WriterTakes, Refused
  <2> QED
    BY <1>0, <1>20, <2>4, <2>5, KeptIfCarried DEF WriterTakes
<1>21. CASE WriterLeaves
  <2>1. /\ loop'["processor"] = loop["processor"]
        /\ err["writer"] = "failure" => err'["writer"] = "failure"
    BY <1>21 DEF WriterLeaves, Exit, IInv, TypeOK, Loops, Errors
  <2>2. ctxDone \/ fies = <<>>
    BY <1>21 DEF WriterLeaves
  <2>3. writing = None
    BY <1>21 DEF WriterLeaves, IInv, TypeOK
  <2>4. \A q \in PDs : OnItsWay(q) => OnItsWay(q)' \/ ctxDone
    BY <1>21, <2>1, <2>2, <2>3, PipelineAssumption
    DEF WriterLeaves, OnItsWay, HasFIE, PipelineAssumption
  <2>5. \A q \in PDs : Refused(q) => Refused(q)'
    BY <1>21 DEF WriterLeaves, Refused
  <2> QED
    BY <1>0, <1>21, <2>1, <2>4, <2>5, KeptIfCarried DEF WriterLeaves
<1>22. CASE WriterSent
  <2>1. writing \in PDs
    BY <1>22 DEF WriterSent, IInv, TypeOK
  <2>2. /\ Len(delivered) \in Nat /\ Len(delivered') = Len(delivered) + 1
        /\ \A i \in 1 .. Len(delivered) : delivered'[i] = delivered[i]
        /\ delivered'[Len(delivered) + 1] = writing
    BY <1>22, <2>1, AppendFacts DEF WriterSent, IInv, TypeOK
  <2>3. loop'["writer"] = "select" /\ loop'["processor"] = loop["processor"]
    BY <1>22 DEF WriterSent, IInv, TypeOK, Loops
  <2>4. Len(delivered) + 1 \in 1 .. Len(delivered')
    BY <2>2
  <2>5. \A i \in 1 .. Len(delivered) : i \in 1 .. Len(delivered')
    BY <2>2
  <2>6. \A q \in PDs : OnItsWay(q) => OnItsWay(q)'
    BY <1>22, <2>2, <2>3, <2>4, <2>5 DEF WriterSent, OnItsWay, HasFIE
  <2>7. \A q \in PDs : Refused(q) => Refused(q)'
    BY <1>22 DEF WriterSent, Refused
  <2> QED
    BY <1>0, <1>22, <2>6, <2>7, KeptIfCarried DEF WriterSent
<1>23. CASE ProberCreated \/ CreateFails \/ DialFails \/ AuthFails \/ RunReturns
          \/ AfterFuncCloses \/ PeerFails
  BY <1>1, <1>23 DEF ProberCreated, CreateFails, DialFails, AuthFails, RunReturns,
     AfterFuncCloses, PeerFails
<1>24. CASE UNCHANGED vars
  BY <1>1, <1>24
<1> QED
  BY <1>2, <1>3, <1>4, <1>5, <1>6, <1>7, <1>8, <1>9, <1>10, <1>11, <1>12, <1>13,
     <1>14, <1>15, <1>16, <1>17, <1>18, <1>19, <1>20, <1>21, <1>22, <1>23, <1>24
  DEF Next, CreateStep, RunStep, ReaderStep, ProcessorStep, ProbeEnds, WorkerStep,
     WriterStep,
      Terminated, Loops

-----------------------------------------------------------------------------

\* The inductive invariant holds in every state Run can reach.
THEOREM Invariance == Spec => []IInv
<1>1. IInv /\ [Next]_vars => IInv'
  BY TypeStep, PositionsStep, QuietStep, ChannelsStep, ProbesStep, ErrorsStep, NilStep,
     NothingLostStep
  DEF IInv
<1> QED
  BY InitIInv, <1>1, PTL DEF Spec

\* Every variable of the pipeline keeps its type and neither channel exceeds its
\* capacity, whatever the buffer sizes.
THEOREM TypeCorrectness == Spec => []TypeOK
<1>1. IInv => TypeOK
  BY DEF IInv
<1> QED
  BY Invariance, <1>1, PTL

\* No goroutine sends on a closed channel, which would panic: not readerLoop after
\* its deferred close(pds), and no processPD goroutine after close(fies).
THEOREM ClosedChannels == Spec => []NoSendOnClosed
<1>1. IInv => NoSendOnClosed
  BY DEF IInv, TypeOK, Probes, Channels, NoSendOnClosed
<1> QED
  BY Invariance, <1>1, PTL

\* Run returns nil only after its caller cancelled it: errgroup keeps the first
\* error, and a loop has ctx.Err() to report only after the caller's cancellation
\* or after another loop's error.
THEOREM NilOnlyOnShutdown == Spec => []NilMeansShutdown
<1>1. IInv => NilMeansShutdown
  BY DEF IInv
<1> QED
  BY Invariance, <1>1, PTL

\* When Run closes the prober and returns, no loop, processPD goroutine or Probe
\* call it started is left, at whatever point it failed or was cancelled.
THEOREM NothingOutlivesRun == Spec => []NothingLeftRunning
<1>1. IInv => NothingLeftRunning
  <2> SUFFICES ASSUME IInv, run \in {"close", "returned"}
               PROVE  /\ \A l \in Loops : loop[l] \in {"off", "done"}
                      /\ \A p \in PDs : worker[p] \in {"none", "done"}
                      /\ \A c \in Calls : status[c] # "pending"
    BY DEF NothingLeftRunning
  <2>1. (\A l \in Loops : loop[l] = "off") \/ (\A l \in Loops : loop[l] = "done")
    BY DEF IInv, Positions
  <2>2. \A p \in PDs : worker[p] \in {"none", "done"}
    <3>1. CASE \A l \in Loops : loop[l] = "off"
      BY <3>1 DEF IInv, Quiet, Loops
    <3>2. CASE \A l \in Loops : loop[l] = "done"
      BY <3>2 DEF IInv, Channels, Probes, Loops
    <3> QED
      BY <2>1, <3>1, <3>2
  <2>3. \A c \in Calls : c[1] \in PDs
    BY DEF Calls
  <2>4. \A c \in Calls : status[c] # "pending"
    BY <2>2, <2>3 DEF IInv, Probes
  <2> QED
    BY <2>1, <2>2, <2>4
<1> QED
  BY Invariance, <1>1, PTL

\* No directive readerLoop received disappears on its way: it is in a channel or a
\* goroutine that still turns it into a FIE, answered, refused as a duplicate, or
\* the connection is ending.
THEOREM NoDirectiveLost == Spec => []NothingLost
<1>1. IInv => NothingLost
  BY DEF IInv
<1> QED
  BY Invariance, <1>1, PTL

=============================================================================
