--------------------------- MODULE AgentPipeline ----------------------------
(***************************************************************************)
(* One connection of the agent (internal/agent/agent.go): Run with its     *)
(* three loops and a processPD goroutine for every directive.              *)
(*                                                                         *)
(*   orchestrator -> readerLoop -> pds -> processorLoop -> processPD       *)
(*                                          near and far Probe calls       *)
(*   orchestrator <- writerLoop <- fies <-----------+                      *)
(*                                                                         *)
(* The loops run in an errgroup: the first one that returns an error       *)
(* cancels the group's context, and a function registered with             *)
(* context.AfterFunc then closes the connection so that blocked reads and  *)
(* writes fail.  The prober is what ProberContract says.                   *)
(*                                                                         *)
(* A read that yields no directive and does not end readerLoop changes     *)
(* nothing here; ReaderLoop models which reads end it.  Metrics are left   *)
(* out.                                                                    *)
(***************************************************************************)
EXTENDS Integers, Sequences, FiniteSets

CONSTANTS
  PDs,             \* the valid directives the orchestrator sends, each once
  Flows,           \* what one probe is about; far flow of one PD may be near of another
  NearFlow,        \* NearFlow[p]: the flow of its near probe (TTL NearTTL)
  FarFlow,         \* FarFlow[p]: the flow of its far probe (TTL NearTTL + 1)
  None,            \* no value
  PDsBufferSize,   \* cfg.PDsBufferSize
  FIEsBufferSize,  \* cfg.FIEsBufferSize
  MaxFaults        \* bound: how many of cancellation and read failure may happen

ASSUME PipelineAssumption ==
  /\ None \notin PDs /\ None \notin Flows
  /\ NearFlow \in [PDs -> Flows] /\ FarFlow \in [PDs -> Flows]
  /\ \A p \in PDs : NearFlow[p] # FarFlow[p]
  /\ PDsBufferSize \in Nat \ {0} /\ FIEsBufferSize \in Nat \ {0}
  /\ MaxFaults \in 0 .. 2

VARIABLES
  run,         \* Run: "create", "dial", "auth", "loops", "close" or "returned"
  result,      \* what Run returns: "none" yet, "nil" or "error"
  parentDone,  \* the context given to Run is done
  ctxDone,     \* the errgroup's context, derived from it, is done
  groupErr,    \* the first error a loop reported to the errgroup, or "none"
  connClosed,  \* the agent closed its side of the connection
  readable,    \* a read of the connection can still yield a directive
  loop,        \* loop[l]: where each of the three loops is
  err,         \* err[l]: the error with which it returns
  received,    \* the directives readerLoop has decoded
  holding,     \* the directive readerLoop holds, or None
  pds,         \* the pds channel
  pdsClosed,
  worker,      \* worker[p]: where p's processPD goroutine is
  status, probing, answer,   \* the prober's state, see ProberContract
  fies,        \* the fies channel; a FIE is named by its directive
  fiesClosed,
  writing,     \* the FIE writerLoop holds, or None
  delivered    \* the FIEs written to the connection, in order

runVars   == <<run, result, parentDone, groupErr, connClosed, readable>>
probeVars == <<status, probing, answer>>
chanVars  == <<pds, pdsClosed, fies, fiesClosed>>
vars == <<runVars, ctxDone, loop, err, received, holding, chanVars, worker,
          probeVars, writing, delivered>>

Loops == {"reader", "processor", "writer"}
Sides == {"near", "far"}
Calls == PDs \X Sides

Prober == INSTANCE ProberContract

FlowOf(c) == IF c[2] = "near" THEN NearFlow[c[1]] ELSE FarFlow[c[1]]

Init ==
  /\ run = "create" /\ result = "none"
  /\ parentDone = FALSE /\ groupErr = "none" /\ connClosed = TRUE /\ readable = TRUE
  /\ loop = [l \in Loops |-> "off"]
  /\ err  = [l \in Loops |-> "none"]
  /\ received = {} /\ holding = None
  /\ pds = <<>> /\ pdsClosed = FALSE /\ fies = <<>> /\ fiesClosed = FALSE
  /\ worker = [p \in PDs |-> "none"]
  /\ Prober!Init
  /\ writing = None /\ delivered = <<>>

-----------------------------------------------------------------------------
(* Run *)

loopVars == <<received, holding, chanVars, worker, probeVars, writing, delivered>>

ProberCreated ==
  /\ run = "create"
  /\ run' = "dial"
  /\ UNCHANGED <<result, parentDone, groupErr, connClosed, readable, ctxDone, loop, err, loopVars>>

\* createProber fails: Run returns before it has anything to close.
CreateFails ==
  /\ run = "create"
  /\ run' = "returned" /\ result' = "error"
  /\ UNCHANGED <<parentDone, groupErr, connClosed, readable, ctxDone, loop, err, loopVars>>

\* DialContext fails, also because ctx is done.
DialFails ==
  /\ run = "dial"
  /\ run' = "close" /\ result' = "error"
  /\ UNCHANGED <<parentDone, groupErr, connClosed, readable, ctxDone, loop, err, loopVars>>

\* Connected; the group's context is derived and AfterFunc registered.
DialSucceeds ==
  /\ run = "dial"
  /\ run' = "auth" /\ connClosed' = FALSE /\ ctxDone' = parentDone
  /\ UNCHANGED <<result, parentDone, groupErr, readable, loop, err, loopVars>>

\* authenticate sends, receives or is refused.
AuthFails ==
  /\ run = "auth"
  /\ run' = "close" /\ result' = "error"
  /\ UNCHANGED <<parentDone, groupErr, connClosed, readable, ctxDone, loop, err, loopVars>>

AuthSucceeds ==
  /\ run = "auth" /\ readable /\ ~connClosed
  /\ run' = "loops"
  /\ loop' = [l \in Loops |-> IF l = "reader" THEN "receive" ELSE "select"]
  /\ UNCHANGED <<result, parentDone, groupErr, connClosed, readable, ctxDone, err, loopVars>>

\* g.Wait returns the first error and cancels the context; an error equal to
\* ctx.Err() is a shutdown.
GroupWaitReturns ==
  /\ run = "loops" /\ \A l \in Loops : loop[l] = "done"
  /\ ctxDone' = TRUE
  /\ result' = IF groupErr = "failure" THEN "error" ELSE "nil"
  /\ run' = "close"
  /\ UNCHANGED <<parentDone, groupErr, connClosed, readable, loop, err, loopVars>>

\* The deferred functions: stopClose, conn.Close, prober.Close.
RunReturns ==
  /\ run = "close"
  /\ run' = "returned" /\ connClosed' = TRUE
  /\ UNCHANGED <<result, parentDone, groupErr, readable, ctxDone, loop, err, loopVars>>

\* Faulty variant: only Run's own deferred Close ends the connection.
AfterFuncMissing == connClosed /\ FALSE

\* The function registered with AfterFunc closes the connection.
AfterFuncCloses ==
  /\ run \in {"auth", "loops", "close"} /\ ctxDone /\ ~connClosed
  /\ connClosed' = TRUE
  /\ UNCHANGED <<run, result, parentDone, groupErr, readable, ctxDone, loop, err, loopVars>>

\* Faulty variant: the context is cancelled before the error is kept, and a
\* loop that notices it reports first.
ReportLosesError(l) ==
  /\ loop[l] = "report"
  /\ loop' = [loop EXCEPT ![l] = "done"]
  /\ ctxDone' = (ctxDone \/ err[l] # "nil")
  /\ groupErr' = IF groupErr = "none" /\ err[l] = "cancelled" THEN err[l] ELSE groupErr
  /\ UNCHANGED <<run, result, parentDone, connClosed, readable, err, loopVars>>

\* A loop's function has returned: errgroup keeps the first error and then
\* cancels the context.
Report(l) ==
  /\ loop[l] = "report"
  /\ loop' = [loop EXCEPT ![l] = "done"]
  /\ \/ /\ err[l] # "nil" /\ groupErr = "none"
        /\ groupErr' = err[l] /\ ctxDone' = TRUE
     \/ /\ err[l] = "nil" \/ groupErr # "none"
        /\ UNCHANGED <<groupErr, ctxDone>>
  /\ UNCHANGED <<run, result, parentDone, connClosed, readable, err, loopVars>>

\* Loop l goes to state s, on its way out with error e.
Exit(l, s, e) ==
  /\ loop' = [loop EXCEPT ![l] = s]
  /\ err'  = [err EXCEPT ![l] = e]

-----------------------------------------------------------------------------
(* readerLoop *)

\* framing.Receive yields a directive that passes validatePD.
ReaderReceives(p) ==
  /\ loop["reader"] = "receive" /\ readable /\ ~connClosed /\ p \notin received
  /\ received' = received \cup {p} /\ holding' = p
  /\ loop' = [loop EXCEPT !["reader"] = "select"]
  /\ UNCHANGED <<runVars, ctxDone, err, chanVars, worker, probeVars, writing, delivered>>

\* framing.Receive fails for good; ctx is looked at first.
ReaderGivesUp ==
  /\ loop["reader"] = "receive" /\ (connClosed \/ ~readable)
  /\ Exit("reader", "close", IF ctxDone THEN "cancelled" ELSE "failure")
  /\ UNCHANGED <<runVars, ctxDone, loopVars>>

\* Faulty variant: the channel has no capacity.
ReaderQueuesUnbounded ==
  /\ loop["reader"] = "select"
  /\ pds' = Append(pds, holding) /\ holding' = None
  /\ loop' = [loop EXCEPT !["reader"] = "receive"]
  /\ UNCHANGED <<runVars, ctxDone, err, received, pdsClosed, fies, fiesClosed, worker,
                 probeVars, writing, delivered>>

\* Faulty variant: the directive is dropped when the channel is full.
ReaderQueuesOrDrops ==
  /\ loop["reader"] = "select"
  /\ pds' = IF Len(pds) < PDsBufferSize THEN Append(pds, holding) ELSE pds
  /\ holding' = None
  /\ loop' = [loop EXCEPT !["reader"] = "receive"]
  /\ UNCHANGED <<runVars, ctxDone, err, received, pdsClosed, fies, fiesClosed, worker,
                 probeVars, writing, delivered>>

ReaderQueues ==
  /\ loop["reader"] = "select" /\ Len(pds) < PDsBufferSize
  /\ pds' = Append(pds, holding) /\ holding' = None
  /\ loop' = [loop EXCEPT !["reader"] = "receive"]
  /\ UNCHANGED <<runVars, ctxDone, err, received, pdsClosed, fies, fiesClosed, worker,
                 probeVars, writing, delivered>>

ReaderCancelled ==
  /\ loop["reader"] = "select" /\ ctxDone
  /\ Exit("reader", "close", "cancelled")
  /\ holding' = None
  /\ UNCHANGED <<runVars, ctxDone, received, chanVars, worker, probeVars, writing, delivered>>

\* defer close(pds), before errgroup sees the error.
ReaderCloses ==
  /\ loop["reader"] = "close"
  /\ pdsClosed' = TRUE
  /\ loop' = [loop EXCEPT !["reader"] = "report"]
  /\ UNCHANGED <<runVars, ctxDone, err, received, holding, pds, fies, fiesClosed, worker,
                 probeVars, writing, delivered>>

-----------------------------------------------------------------------------
(* processorLoop *)

ProcessorDispatches ==
  /\ loop["processor"] = "select" /\ pds # <<>>
  /\ worker' = [worker EXCEPT ![Head(pds)] = "probing"]
  /\ pds' = Tail(pds)
  /\ UNCHANGED <<runVars, ctxDone, loop, err, received, holding, pdsClosed, fies,
                 fiesClosed, probeVars, writing, delivered>>

\* The channel is closed and drained, or ctx is done: the loop returns.
ProcessorLeaves ==
  /\ loop["processor"] = "select"
  /\ \/ pds = <<>> /\ pdsClosed /\ Exit("processor", "wait", "nil")
     \/ ctxDone /\ Exit("processor", "wait", "cancelled")
  /\ UNCHANGED <<runVars, ctxDone, loopVars>>

\* Faulty variant: fies is closed without waiting for the goroutines.
ProcessorClosesAtOnce ==
  /\ loop["processor"] = "wait"
  /\ fiesClosed' = TRUE
  /\ loop' = [loop EXCEPT !["processor"] = "report"]
  /\ UNCHANGED <<runVars, ctxDone, err, received, holding, pds, pdsClosed, fies, worker,
                 probeVars, writing, delivered>>

\* The deferred function: wg.Wait, then close(fies).
ProcessorCloses ==
  /\ loop["processor"] = "wait"
  /\ \A p \in PDs : worker[p] \in {"none", "done"}
  /\ fiesClosed' = TRUE
  /\ loop' = [loop EXCEPT !["processor"] = "report"]
  /\ UNCHANGED <<runVars, ctxDone, err, received, holding, pds, pdsClosed, fies, worker,
                 probeVars, writing, delivered>>

-----------------------------------------------------------------------------
(* processPD *)

\* The goroutine for one side calls Probe with the group's context ...
ProbeStarts(c) ==
  /\ worker[c[1]] = "probing"
  /\ Prober!Start(c, FlowOf(c))
  /\ UNCHANGED <<runVars, loop, err, received, holding, chanVars, worker, writing, delivered>>

\* ... which returns as the contract allows.
ProbeReturns(c, a) ==
  /\ worker[c[1]] = "probing"
  /\ Prober!Return(c, a)
  /\ UNCHANGED <<runVars, loop, err, received, holding, chanVars, worker, writing, delivered>>

\* Faulty variant: the goroutine goes on after the first result.
WorkerDecidesEarly(p) ==
  /\ worker[p] = "probing"
  /\ status[<<p, "near">>] = "returned"
  /\ worker' = [worker EXCEPT ![p] =
       IF answer[<<p, "near">>] \in {"reply", "timeout"} THEN "sending" ELSE "done"]
  /\ UNCHANGED <<runVars, ctxDone, loop, err, received, holding, chanVars, probeVars,
                 writing, delivered>>

\* Both results are in; a duplicate or a failed probe on either side drops the
\* directive without a FIE.
WorkerDecides(p) ==
  /\ worker[p] = "probing"
  /\ \A s \in Sides : status[<<p, s>>] = "returned"
  /\ worker' = [worker EXCEPT ![p] =
       IF \A s \in Sides : answer[<<p, s>>] \in {"reply", "timeout"}
       THEN "sending" ELSE "done"]
  /\ UNCHANGED <<runVars, ctxDone, loop, err, received, holding, chanVars, probeVars,
                 writing, delivered>>

\* buildFIE and the send; what the FIE says of each side is answer.
WorkerSends(p) ==
  /\ worker[p] = "sending" /\ Len(fies) < FIEsBufferSize
  /\ fies' = Append(fies, p)
  /\ worker' = [worker EXCEPT ![p] = "done"]
  /\ UNCHANGED <<runVars, ctxDone, loop, err, received, holding, pds, pdsClosed,
                 fiesClosed, probeVars, writing, delivered>>

WorkerCancelled(p) ==
  /\ worker[p] = "sending" /\ ctxDone
  /\ worker' = [worker EXCEPT ![p] = "done"]
  /\ UNCHANGED <<runVars, ctxDone, loop, err, received, holding, chanVars, probeVars,
                 writing, delivered>>

-----------------------------------------------------------------------------
(* writerLoop *)

WriterTakes ==
  /\ loop["writer"] = "select" /\ fies # <<>>
  /\ writing' = Head(fies) /\ fies' = Tail(fies)
  /\ loop' = [loop EXCEPT !["writer"] = "send"]
  /\ UNCHANGED <<runVars, ctxDone, err, received, holding, pds, pdsClosed, fiesClosed,
                 worker, probeVars, delivered>>

WriterLeaves ==
  /\ loop["writer"] = "select"
  /\ \/ fies = <<>> /\ fiesClosed /\ Exit("writer", "report", "nil")
     \/ ctxDone /\ Exit("writer", "report", "cancelled")
  /\ UNCHANGED <<runVars, ctxDone, loopVars>>

WriterSent ==
  /\ loop["writer"] = "send" /\ ~connClosed
  /\ delivered' = Append(delivered, writing) /\ writing' = None
  /\ loop' = [loop EXCEPT !["writer"] = "select"]
  /\ UNCHANGED <<runVars, ctxDone, err, received, holding, chanVars, worker, probeVars>>

\* ToProto fails, or framing.Send does: the connection is closed or broken, or
\* the write deadline passes while reads still work.  An error of its own,
\* whatever the state of ctx.
WriterFails ==
  /\ loop["writer"] = "send"
  /\ Exit("writer", "report", "failure")
  /\ writing' = None
  /\ UNCHANGED <<runVars, ctxDone, received, holding, chanVars, worker, probeVars, delivered>>

-----------------------------------------------------------------------------
(* The environment *)

\* Another fault is within the bound.
MoreFaults == MaxFaults > (IF parentDone THEN 1 ELSE 0) + (IF readable THEN 0 ELSE 1)

\* SIGINT or SIGTERM: the cancellation reaches the derived context too.
ParentCancels ==
  /\ MoreFaults /\ ~parentDone
  /\ parentDone' = TRUE /\ ctxDone' = TRUE
  /\ UNCHANGED <<run, result, groupErr, connClosed, readable, loop, err, loopVars>>

\* The orchestrator closes or breaks the connection, stays silent for too long
\* or breaks the protocol (external): nothing more can be read, which says
\* nothing of writes.
PeerFails ==
  /\ MoreFaults /\ readable
  /\ readable' = FALSE
  /\ UNCHANGED <<run, result, parentDone, groupErr, connClosed, ctxDone, loop, err, loopVars>>

Terminated == run = "returned" /\ UNCHANGED vars

CreateStep    == ProberCreated \/ CreateFails
RunStep       == DialFails \/ DialSucceeds \/ AuthFails \/ AuthSucceeds
                 \/ GroupWaitReturns \/ RunReturns
ReaderStep    == ReaderGivesUp \/ ReaderQueues \/ ReaderCancelled \/ ReaderCloses
                 \/ Report("reader")
ProcessorStep == ProcessorDispatches \/ ProcessorLeaves \/ ProcessorCloses
                 \/ Report("processor")
ProbeEnds(c)  == \E a \in Prober!Answers : ProbeReturns(c, a)
WorkerStep(p) == WorkerDecides(p) \/ WorkerSends(p) \/ WorkerCancelled(p)
WriterStep    == WriterTakes \/ WriterLeaves \/ WriterSent \/ WriterFails
                 \/ Report("writer")

Next ==
  \/ CreateStep \/ RunStep \/ AfterFuncCloses
  \/ \E p \in PDs : ReaderReceives(p)
  \/ ReaderStep \/ ProcessorStep \/ WriterStep
  \/ \E c \in Calls : ProbeStarts(c) \/ ProbeEnds(c)
  \/ \E p \in PDs : WorkerStep(p)
  \/ ParentCancels \/ PeerFails \/ Terminated

Spec == Init /\ [][Next]_vars

\* Every goroutine that can run does and AfterFunc's function is started.  The
\* dial ends by the operating system's connect timeout or with ctx, and both
\* halves of authenticate have deadlines.  Nothing bounds createProber, which
\* waits for caracal's header.  Probe is sure to return only when its context is
\* done: once the prober's writerLoop has ended, a call whose line finds the queue
\* full waits for that alone.
Fairness ==
  /\ WF_vars(RunStep) /\ WF_vars(AfterFuncCloses)
  /\ WF_vars(ReaderStep) /\ WF_vars(ProcessorStep) /\ WF_vars(WriterStep)
  /\ \A c \in Calls : /\ WF_vars(ProbeStarts(c))
                     /\ WF_vars(ctxDone /\ ProbeEnds(c))
  /\ \A p \in PDs : WF_vars(WorkerStep(p))

FairSpec == Spec /\ Fairness

-----------------------------------------------------------------------------
(* Properties *)

TypeOK ==
  /\ run \in {"create", "dial", "auth", "loops", "close", "returned"}
  /\ result \in {"none", "nil", "error"}
  /\ parentDone \in BOOLEAN /\ ctxDone \in BOOLEAN
  /\ connClosed \in BOOLEAN /\ readable \in BOOLEAN
  /\ groupErr \in {"none", "cancelled", "failure"}
  /\ loop \in [Loops -> {"off", "receive", "select", "send", "wait", "close",
                         "report", "done"}]
  /\ err \in [Loops -> {"none", "nil", "cancelled", "failure"}]
  /\ received \subseteq PDs /\ holding \in PDs \cup {None}
  /\ pds \in Seq(PDs) /\ Len(pds) <= PDsBufferSize /\ pdsClosed \in BOOLEAN
  /\ worker \in [PDs -> {"none", "probing", "sending", "done"}]
  /\ status \in [Calls -> {"idle", "pending", "returned"}]
  /\ probing \in [Calls -> Flows \cup {None}]
  /\ answer \in [Calls -> {"none"} \cup Prober!Answers]
  /\ fies \in Seq(PDs) /\ Len(fies) <= FIEsBufferSize /\ fiesClosed \in BOOLEAN
  /\ writing \in PDs \cup {None} /\ delivered \in Seq(PDs)
  /\ holding # None <=> loop["reader"] = "select"
  /\ writing # None <=> loop["writer"] = "send"

\* No goroutine can send on a closed channel, which would panic: processorLoop
\* closes fies only after every processPD goroutine ended, and readerLoop does
\* not send after its deferred close(pds).
NoSendOnClosed ==
  /\ fiesClosed => \A p \in PDs : worker[p] \notin {"probing", "sending"}
  /\ pdsClosed => loop["reader"] \in {"report", "done"}
  /\ fiesClosed => loop["processor"] \in {"report", "done"}

\* Run returns nil only when the caller cancelled it: the error that ended the
\* connection is never masked by the ctx.Err() the other loops return after it.
NilMeansShutdown == result = "nil" => parentDone

\* When Run closes the prober and returns, nothing it started is left: no loop,
\* no processPD goroutine and no Probe call.  The caracal prober's Close relies
\* on this.
NothingLeftRunning ==
  run \in {"close", "returned"} =>
    /\ \A l \in Loops : loop[l] \in {"off", "done"}
    /\ \A p \in PDs : worker[p] \in {"none", "done"}
    /\ \A c \in Calls : status[c] # "pending"

FIEsOf(p) ==
  Cardinality({i \in 1 .. Len(delivered) : delivered[i] = p})
  + Cardinality({i \in 1 .. Len(fies) : fies[i] = p})
  + (IF writing = p THEN 1 ELSE 0)

\* p's FIE was written.
Sent(p) == \E i \in 1 .. Len(delivered) : delivered[i] = p

\* Something will still turn p into a FIE, or has.
Carried(p) ==
  \/ holding = p
  \/ loop["processor"] = "select" /\ \E i \in 1 .. Len(pds) : pds[i] = p
  \/ worker[p] \in {"probing", "sending"}
  \/ loop["writer"] \in {"select", "send"} /\ FIEsOf(p) > 0
  \/ Sent(p)

Refused(p) == \E s \in Sides : answer[<<p, s>>] = "duplicate"

\* No received directive disappears between the stages of the pipeline: it is on
\* its way, delivered, refused by the prober as a duplicate, or the connection is
\* ending.  In particular the drain after readerLoop's exit loses nothing.
NothingLost ==
  \A p \in received : Carried(p) \/ Refused(p) \/ ctxDone \/ err["writer"] = "failure"

\* After a shutdown request, and when reading or writing fails, Run returns,
\* whatever its loops and goroutines are blocked on and whether or not the prober
\* still answers; only createProber's wait for caracal cannot be ended.
RunEnds ==
  (run # "create" /\ (parentDone \/ ~readable \/ err["writer"] = "failure"))
    ~> run = "returned"

\* The prober leaves no Probe call waiting for ever: the mock prober always does so,
\* the caracal prober as long as its writerLoop runs (ServedProbeReturns).
ProberServes == \A c \in Calls : []<>(status[c] # "pending")

\* If the prober serves, every directive readerLoop received is answered with a
\* FIE or refused as a duplicate, unless the connection ends.
Answered ==
  ProberServes => \A p \in PDs : p \in received ~> (Sent(p) \/ Refused(p) \/ ctxDone)

\* README.md: "Always send a FIE", here under the same premises as Answered.
AlwaysFIE ==
  ProberServes => \A p \in PDs : p \in received ~> (Sent(p) \/ ctxDone)
=============================================================================
