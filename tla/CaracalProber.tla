--------------------------- MODULE CaracalProber ----------------------------
(***************************************************************************)
(* The caracal prober (internal/agent/caracal_prober.go).                  *)
(*                                                                         *)
(* Goroutines in Probe register themselves in the inFlight map, put a      *)
(* request in writeQueue and wait for a result, a timer or their context.  *)
(* Four loops run beside them: writerLoop feeds caracal's stdin,           *)
(* readerLoop matches caracal's records with in-flight probes, cleanupLoop *)
(* removes stale entries and logStderr drains stderr.  An error of any     *)
(* loop cancels the prober's own context and with it the other loops.      *)
(*                                                                         *)
(* Time is counted in whole seconds, the resolution of the correlation     *)
(* key.  A record is named by the call whose packet it reports: its flow   *)
(* and its sent second are those of that packet.  The stdout pipe is part  *)
(* of the network: a reply reaches the reader at any time after the packet *)
(* left, in any order, or never.                                           *)
(***************************************************************************)
EXTENDS Integers, Sequences, FiniteSets

CONSTANTS
  Calls,           \* the calls of Probe, each made once
  Flows,           \* a probeKey without its second
  None,            \* no value
  WriteQueueSize,  \* cfg.WriteQueueSize
  ProbeTimeout,    \* cfg.ProbeTimeout, in seconds
  PipeSize,        \* requests the stdin pipe holds before a write blocks
  ClockSkew,       \* caracal's clock minus the agent's, in seconds
  MaxReplies,      \* records caracal may print for one probe
  RegisterStall,   \* a call reads the clock at most this long before it locks
  CaracalMayFail,  \* caracal may exit, or its output break, by itself
  MaxTime          \* bound: the clock stops here

ASSUME ProberAssumption ==
  /\ None \notin Calls /\ None \notin Flows /\ None \notin Int
  /\ IsFiniteSet(Calls) /\ IsFiniteSet(Flows)
  /\ WriteQueueSize \in Nat \ {0}
  /\ ProbeTimeout \in Nat \ {0}
  /\ PipeSize \in Nat \ {0}
  /\ ClockSkew \subseteq Int
  /\ MaxReplies \in Nat
  /\ RegisterStall \in Nat
  /\ CaracalMayFail \in BOOLEAN
  /\ MaxTime \in Nat

VARIABLES
  now,          \* the clock
  ctxDone,      \* the context passed to Probe is done
  pc,           \* pc[c]: where call c is in Probe
  flow,         \* flow[c]: what it probes
  queued,       \* queued[c]: the second it read from the clock
  deadline,     \* deadline[c]: when its timer fires
  resultCh,     \* resultCh[c]: the record in its result channel, or None
  got,          \* got[c]: the record it returned, or None
  outcome,      \* outcome[c]: what it is going to return
  inFlight,     \* the map from keys to calls; None where there is no entry
  gauge,        \* the InFlightProbes metric
  writeQueue,   \* requests waiting for writerLoop
  writer,       \* writerLoop: "select", "encode" or "done"
  writing,      \* the request writerLoop holds
  stdin,        \* requests in the pipe to caracal
  sentSec,      \* sentSec[c]: second in which caracal sent c's packet, or None
  replies,      \* replies[c]: records read for c's packet
  alive,        \* the caracal process runs
  reader,       \* readerLoop: "read", "match", "deliver" or "done"
  record,       \* the record readerLoop works on
  offset,       \* position in Offsets of the key it tries
  target,       \* the call whose channel it found
  stderr,       \* logStderr: "scan" or "done"
  cleanup,      \* cleanupLoop: "select", "account" or "done"
  cleaned,      \* entries removed and not yet subtracted from the gauge
  proberDone,   \* the prober's own context is done
  closing       \* Close: "open", "kill", "wait" or "closed"

callVars   == <<pc, flow, queued, deadline, got, outcome>>
writerVars == <<writeQueue, writer, writing, stdin>>
netVars    == <<sentSec, replies, alive>>
readerVars == <<reader, record, offset, target>>
otherVars  == <<stderr, cleanup, cleaned, proberDone, closing>>
clock     == <<now, ctxDone>>
callState == <<clock, callVars, resultCh, inFlight, gauge>>
loopState == <<writerVars, netVars, readerVars, otherVars>>
vars == <<callState, loopState>>

Seconds == 0 .. MaxTime
Keys    == Flows \X Seconds

\* cleanupStaleProbes keeps an entry this long after its probe timed out.
StaleGrace == 5

\* No goroutine sleeps between its clock read and the lock for as long as an
\* entry lives before cleanup; the second in the key would else be reused.
ASSUME StallAssumption == RegisterStall < ProbeTimeout + StaleGrace

\* Faulty variant: a window of three seconds.
WideOffsets == <<0, -1, 1, -2, 2, -3, 3>>

\* The seconds around the sent second that matchAndDeliverResult tries, in order.
Offsets == <<0, -1, 1, -2, 2>>

\* The key a call registers under: its flow and the second it read.
Key(c) == <<flow[c], queued[c]>>

\* A lookup in the map; a second outside the bound has no entry.
Lookup(f, s) == IF s \in Seconds THEN inFlight[<<f, s>>] ELSE None

Earlier(a, b) == IF a <= b THEN a ELSE b

Running(c) == pc[c] \notin {"idle", "returned"}

Init ==
  /\ now = 0 /\ ctxDone = FALSE
  /\ pc       = [c \in Calls |-> "idle"]
  /\ flow     = [c \in Calls |-> None]
  /\ queued   = [c \in Calls |-> 0]
  /\ deadline = [c \in Calls |-> 0]
  /\ resultCh = [c \in Calls |-> None]
  /\ got      = [c \in Calls |-> None]
  /\ outcome  = [c \in Calls |-> "none"]
  /\ inFlight = [k \in Keys |-> None]
  /\ gauge = 0
  /\ writeQueue = <<>> /\ writer = "select" /\ writing = None /\ stdin = <<>>
  /\ sentSec = [c \in Calls |-> None]
  /\ replies = [c \in Calls |-> 0]
  /\ alive = TRUE
  /\ reader = "read" /\ record = None /\ offset = 1 /\ target = None
  /\ stderr = "scan" /\ cleanup = "select" /\ cleaned = 0
  /\ proberDone = FALSE /\ closing = "open"

-----------------------------------------------------------------------------
(* Probe *)

\* The caller enters Probe and reads the clock.
CallProbe(c, f) ==
  /\ pc[c] = "idle" /\ closing = "open"
  /\ pc'     = [pc EXCEPT ![c] = "keyed"]
  /\ flow'   = [flow EXCEPT ![c] = f]
  /\ queued' = [queued EXCEPT ![c] = now]
  /\ UNCHANGED <<clock, deadline, got, outcome, resultCh, inFlight, gauge,
                 loopState>>

\* Faulty variant: an entry that exists is overwritten.
RegisterOverwrites(c) ==
  /\ pc[c] = "keyed"
  /\ pc'       = [pc EXCEPT ![c] = "queueing"]
  /\ inFlight' = [inFlight EXCEPT ![Key(c)] = c]
  /\ gauge'    = gauge + 1
  /\ UNCHANGED <<clock, flow, queued, deadline, got, outcome, resultCh,
                 loopState>>

\* Under the lock: refuse a key that is in the map, else enter it.
Register(c) ==
  /\ pc[c] = "keyed"
  /\ \/ /\ inFlight[Key(c)] # None
        /\ pc'      = [pc EXCEPT ![c] = "returned"]
        /\ outcome' = [outcome EXCEPT ![c] = "duplicate"]
        /\ UNCHANGED <<inFlight, gauge>>
     \/ /\ inFlight[Key(c)] = None
        /\ pc'       = [pc EXCEPT ![c] = "queueing"]
        /\ inFlight' = [inFlight EXCEPT ![Key(c)] = c]
        /\ gauge'    = gauge + 1
        /\ UNCHANGED outcome
  /\ UNCHANGED <<clock, flow, queued, deadline, got, resultCh, loopState>>

\* Faulty variant: writeQueue has no capacity.
EnqueueUnbounded(c) ==
  /\ pc[c] = "queueing"
  /\ writeQueue' = Append(writeQueue, c)
  /\ pc'         = [pc EXCEPT ![c] = "waiting"]
  /\ deadline'   = [deadline EXCEPT ![c] = Earlier(now + ProbeTimeout, MaxTime)]
  /\ UNCHANGED <<clock, flow, queued, got, outcome, resultCh, inFlight, gauge,
                 writer, writing, stdin, netVars, readerVars, otherVars>>

\* The request fits in writeQueue; only now does the timer start.
Enqueue(c) ==
  /\ pc[c] = "queueing"
  /\ Len(writeQueue) < WriteQueueSize
  /\ writeQueue' = Append(writeQueue, c)
  /\ pc'         = [pc EXCEPT ![c] = "waiting"]
  /\ deadline'   = [deadline EXCEPT ![c] = Earlier(now + ProbeTimeout, MaxTime)]
  /\ UNCHANGED <<clock, flow, queued, got, outcome, resultCh, inFlight, gauge,
                 writer, writing, stdin, netVars, readerVars, otherVars>>

\* A call in one of its two select statements ends with outcome o and stops
\* its timer.
Leave(c, o) ==
  /\ pc'       = [pc EXCEPT ![c] = "deferred"]
  /\ outcome'  = [outcome EXCEPT ![c] = o]
  /\ deadline' = [deadline EXCEPT ![c] = 0]
  /\ UNCHANGED <<clock, flow, queued, inFlight, gauge, loopState>>

ReceiveResult(c) ==
  /\ pc[c] = "waiting" /\ resultCh[c] # None
  /\ got'      = [got EXCEPT ![c] = resultCh[c]]
  /\ resultCh' = [resultCh EXCEPT ![c] = None]
  /\ Leave(c, "reply")

\* Faulty variant: no timeout case in the second select.
TimerMissing(c) == pc[c] = "waiting" /\ FALSE

TimerFires(c) ==
  /\ pc[c] = "waiting" /\ now >= deadline[c]
  /\ Leave(c, "timeout")
  /\ UNCHANGED <<got, resultCh>>

\* Faulty variant: the first select does not watch ctx.
CtxDoneWaitingOnly(c) ==
  /\ pc[c] = "waiting" /\ ctxDone
  /\ Leave(c, "cancelled")
  /\ UNCHANGED <<got, resultCh>>

\* Faulty variant: cancellation returns without the deferred function.
CtxDoneLeaks(c) ==
  /\ pc[c] \in {"queueing", "waiting"} /\ ctxDone
  /\ pc'       = [pc EXCEPT ![c] = "returned"]
  /\ outcome'  = [outcome EXCEPT ![c] = "cancelled"]
  /\ deadline' = [deadline EXCEPT ![c] = 0]
  /\ UNCHANGED <<clock, flow, queued, got, resultCh, inFlight, gauge, loopState>>

CtxDone(c) ==
  /\ pc[c] \in {"queueing", "waiting"} /\ ctxDone
  /\ Leave(c, "cancelled")
  /\ UNCHANGED <<got, resultCh>>

\* Faulty variant: the gauge is decremented whether or not the entry was there.
DeferredDeleteAlways(c) ==
  /\ pc[c] = "deferred"
  /\ pc' = [pc EXCEPT ![c] = "decrement"]
  /\ inFlight' = [inFlight EXCEPT ![Key(c)] = None]
  /\ UNCHANGED <<clock, flow, queued, deadline, got, outcome, resultCh, gauge,
                 loopState>>

\* The deferred function deletes the key under the lock; the gauge is
\* decremented after the lock, and only if the entry was still there.
DeferredDelete(c) ==
  /\ pc[c] = "deferred"
  /\ pc' = [pc EXCEPT ![c] = IF inFlight[Key(c)] # None THEN "decrement"
                                                        ELSE "returned"]
  /\ inFlight' = [inFlight EXCEPT ![Key(c)] = None]
  /\ UNCHANGED <<clock, flow, queued, deadline, got, outcome, resultCh, gauge,
                 loopState>>

DeferredDecrement(c) ==
  /\ pc[c] = "decrement"
  /\ pc'    = [pc EXCEPT ![c] = "returned"]
  /\ gauge' = gauge - 1
  /\ UNCHANGED <<clock, flow, queued, deadline, got, outcome, resultCh,
                 inFlight, loopState>>

-----------------------------------------------------------------------------
(* writerLoop *)

WriterTake ==
  /\ writer = "select" /\ writeQueue # <<>>
  /\ writing'    = Head(writeQueue)
  /\ writeQueue' = Tail(writeQueue)
  /\ writer'     = "encode"
  /\ UNCHANGED <<callState, stdin, netVars, readerVars, otherVars>>

\* encodeAndSendProbe writes the record, waiting while the pipe is full.
WriterSend ==
  /\ writer = "encode" /\ alive /\ Len(stdin) < PipeSize
  /\ stdin'   = Append(stdin, writing)
  /\ writer'  = "select"
  /\ writing' = None
  /\ UNCHANGED <<callState, writeQueue, netVars, readerVars, otherVars>>

\* The pipe is broken: the loop returns an error, which cancels the group.
WriterFails ==
  /\ writer = "encode" /\ ~alive
  /\ writer'     = "done"
  /\ writing'    = None
  /\ proberDone' = TRUE
  /\ UNCHANGED <<callState, writeQueue, stdin, netVars, readerVars, stderr,
                 cleanup, cleaned, closing>>

WriterStops ==
  /\ writer = "select" /\ proberDone
  /\ writer' = "done"
  /\ UNCHANGED <<callState, writeQueue, writing, stdin, netVars, readerVars,
                 otherVars>>

-----------------------------------------------------------------------------
(* caracal and the network (external) *)

CaracalSends ==
  /\ alive /\ stdin # <<>>
  /\ \E skew \in ClockSkew :
       sentSec' = [sentSec EXCEPT ![Head(stdin)] = now + skew]
  /\ stdin' = Tail(stdin)
  /\ UNCHANGED <<callState, writeQueue, writer, writing, replies, alive,
                 readerVars, otherVars>>

\* caracal ends by itself, or because writerLoop closed its stdin.
CaracalExits ==
  /\ alive
  /\ CaracalMayFail \/ writer = "done"
  /\ alive' = FALSE
  /\ UNCHANGED <<callState, writerVars, sentSec, replies, readerVars, otherVars>>

-----------------------------------------------------------------------------
(* readerLoop *)

\* A record of c's packet arrives; handleResult parses it and builds its key.
ReaderRead(c) ==
  /\ reader = "read" /\ sentSec[c] # None /\ replies[c] < MaxReplies
  /\ replies' = [replies EXCEPT ![c] = @ + 1]
  /\ record' = c /\ reader' = "match"
  /\ UNCHANGED <<callState, writerVars, sentSec, alive, offset, target,
                 otherVars>>

\* One turn of the loop in matchAndDeliverResult, one read lock each.
ReaderMatch ==
  /\ reader = "match"
  /\ LET found == Lookup(flow[record], sentSec[record] + Offsets[offset]) IN
     \/ /\ found # None
        /\ target' = found /\ offset' = 1 /\ reader' = "deliver"
        /\ UNCHANGED record
     \/ /\ found = None /\ offset < Len(Offsets)
        /\ offset' = offset + 1
        /\ UNCHANGED <<reader, record, target>>
     \/ /\ found = None /\ offset = Len(Offsets)
        /\ record' = None /\ offset' = 1 /\ reader' = "read"
        /\ UNCHANGED target
  /\ UNCHANGED <<callState, writerVars, netVars, otherVars>>

\* Faulty variant: a later record takes the place of the first.
ReaderDeliverOverwrites ==
  /\ reader = "deliver"
  /\ resultCh' = [resultCh EXCEPT ![target] = record]
  /\ reader' = "read" /\ record' = None /\ target' = None
  /\ UNCHANGED <<clock, callVars, inFlight, gauge, writerVars, netVars, offset,
                 otherVars>>

\* The non-blocking send, after the lock was released.
ReaderDeliver ==
  /\ reader = "deliver"
  /\ resultCh' = IF resultCh[target] = None
                 THEN [resultCh EXCEPT ![target] = record]
                 ELSE resultCh
  /\ reader' = "read" /\ record' = None /\ target' = None
  /\ UNCHANGED <<clock, callVars, inFlight, gauge, writerVars, netVars, offset,
                 otherVars>>

\* End of file, or a line the CSV reader refuses.
ReaderFails ==
  /\ reader = "read"
  /\ ~alive \/ CaracalMayFail
  /\ reader'     = "done"
  /\ proberDone' = TRUE
  /\ UNCHANGED <<callState, writerVars, netVars, record, offset, target,
                 stderr, cleanup, cleaned, closing>>

-----------------------------------------------------------------------------
(* logStderr and cleanupLoop *)

\* End of file ends the scan without error, an over-long line with one.
StderrEnds ==
  /\ stderr = "scan"
  /\ \/ ~alive /\ UNCHANGED proberDone
     \/ CaracalMayFail /\ proberDone' = TRUE
  /\ stderr' = "done"
  /\ UNCHANGED <<callState, writerVars, netVars, readerVars, cleanup, cleaned,
                 closing>>

\* Faulty variant: the cutoff lacks the five seconds of grace.
StaleWithoutGrace(age) ==
  {k \in Keys : inFlight[k] # None /\ now - k[2] >= age - StaleGrace}

\* The entries at least age seconds old.
Stale(age) == {k \in Keys : inFlight[k] # None /\ now - k[2] >= age}

\* The ticker fires and cleanupStaleProbes deletes, under the lock, what was
\* queued before a cutoff it computed up to RegisterStall seconds earlier.  In
\* whole seconds an entry exactly as old as the cutoff may lie on either side.
CleanupTick ==
  /\ cleanup = "select"
  /\ \E lag \in 0 .. RegisterStall : \E S \in SUBSET Stale(ProbeTimeout + StaleGrace + lag) :
       /\ S # {}
       /\ Stale(ProbeTimeout + StaleGrace + lag + 1) \subseteq S
       /\ inFlight' = [k \in Keys |-> IF k \in S THEN None ELSE inFlight[k]]
       /\ cleaned' = Cardinality(S)
  /\ cleanup' = "account"
  /\ UNCHANGED <<clock, callVars, resultCh, gauge, writerVars, netVars,
                 readerVars, stderr, proberDone, closing>>

CleanupAccount ==
  /\ cleanup = "account"
  /\ gauge' = gauge - cleaned
  /\ cleaned' = 0
  /\ cleanup' = "select"
  /\ UNCHANGED <<clock, callVars, resultCh, inFlight, writerVars, netVars,
                 readerVars, stderr, proberDone, closing>>

CleanupStops ==
  /\ cleanup = "select" /\ proberDone
  /\ cleanup' = "done"
  /\ UNCHANGED <<callState, writerVars, netVars, readerVars, stderr, cleaned,
                 proberDone, closing>>

-----------------------------------------------------------------------------
(* Close, called by Run's deferred function once no Probe call is running *)

CloseCancels ==
  /\ closing = "open" /\ ctxDone /\ \A c \in Calls : ~Running(c)
  /\ proberDone' = TRUE
  /\ closing'    = "kill"
  /\ UNCHANGED <<callState, writerVars, netVars, readerVars, stderr, cleanup,
                 cleaned>>

\* Faulty variant: Close does not kill the process.
CloseKillsNothing ==
  /\ closing = "kill"
  /\ closing' = "wait"
  /\ UNCHANGED <<callState, writerVars, netVars, readerVars, stderr, cleanup,
                 cleaned, proberDone>>

CloseKills ==
  /\ closing = "kill"
  /\ alive'   = FALSE
  /\ closing' = "wait"
  /\ UNCHANGED <<callState, writerVars, sentSec, replies, readerVars, stderr,
                 cleanup, cleaned, proberDone>>

CloseReturns ==
  /\ closing = "wait"
  /\ writer = "done" /\ reader = "done" /\ stderr = "done" /\ cleanup = "done"
  /\ closing' = "closed"
  /\ UNCHANGED <<callState, writerVars, netVars, readerVars, stderr, cleanup,
                 cleaned, proberDone>>

-----------------------------------------------------------------------------
(* The callers' context and the clock *)

CancelCtx ==
  /\ ~ctxDone
  /\ ctxDone' = TRUE
  /\ UNCHANGED <<now, callVars, resultCh, inFlight, gauge, loopState>>

\* A call is not stalled between time.Now() and the lock for longer than
\* RegisterStall seconds.
Tick ==
  /\ now < MaxTime
  /\ \A c \in Calls : pc[c] = "keyed" => now < queued[c] + RegisterStall
  /\ now' = now + 1
  /\ UNCHANGED <<ctxDone, callVars, resultCh, inFlight, gauge, loopState>>

\* After Close the prober rests; anything else without a step is a deadlock.
Closed == closing = "closed" /\ UNCHANGED vars

ProbeStep(c) ==
  \/ Register(c) \/ Enqueue(c) \/ ReceiveResult(c) \/ TimerFires(c)
  \/ CtxDone(c) \/ DeferredDelete(c) \/ DeferredDecrement(c)

WriterStep  == WriterTake \/ WriterSend \/ WriterFails \/ WriterStops
ReaderStep  == ReaderMatch \/ ReaderDeliver \/ ReaderFails
CleanupStep == CleanupTick \/ CleanupAccount \/ CleanupStops
CloseStep   == CloseCancels \/ CloseKills \/ CloseReturns

Next ==
  \/ \E c \in Calls, f \in Flows : CallProbe(c, f)
  \/ \E c \in Calls : ProbeStep(c) \/ ReaderRead(c)
  \/ WriterStep \/ CaracalSends \/ CaracalExits
  \/ ReaderStep \/ StderrEnds \/ CleanupStep
  \/ CloseStep \/ CancelCtx \/ Tick \/ Closed

Spec == Init /\ [][Next]_vars

\* Goroutines that can run do run, timers and tickers fire, a process that was
\* killed closes its pipes, and a caracal that runs reads its stdin.  Replies,
\* failures and cancellation are never forced.
Fairness ==
  /\ \A c \in Calls : WF_vars(ProbeStep(c))
  /\ WF_vars(WriterStep) /\ WF_vars(CaracalSends)
  /\ WF_vars(ReaderMatch \/ ReaderDeliver)
  /\ WF_vars(~alive /\ ReaderFails) /\ WF_vars(~alive /\ StderrEnds)
  /\ WF_vars(CleanupStep) /\ WF_vars(CloseStep) /\ WF_vars(Tick)

FairSpec == Spec /\ Fairness

-----------------------------------------------------------------------------
(* Properties *)

CallsOK ==
  /\ now \in Seconds
  /\ pc \in [Calls -> {"idle", "keyed", "queueing", "waiting", "deferred",
                       "decrement", "returned"}]
  /\ flow \in [Calls -> Flows \cup {None}]
  /\ queued \in [Calls -> Seconds]
  /\ deadline \in [Calls -> Seconds]
  /\ resultCh \in [Calls -> Calls \cup {None}]
  /\ got \in [Calls -> Calls \cup {None}]
  /\ outcome \in [Calls -> {"none", "reply", "timeout", "duplicate", "cancelled"}]

MapOK ==
  /\ inFlight \in [Keys -> Calls \cup {None}]
  /\ gauge \in Int /\ cleaned \in Nat

WriterOK ==
  /\ writeQueue \in Seq(Calls) /\ Len(writeQueue) <= WriteQueueSize
  /\ writer \in {"select", "encode", "done"}
  /\ writing \in Calls \cup {None}
  /\ writing = None <=> writer # "encode"
  /\ stdin \in Seq(Calls) /\ Len(stdin) <= PipeSize

NetOK ==
  /\ sentSec \in [Calls -> Int \cup {None}]
  /\ replies \in [Calls -> 0 .. MaxReplies]

ReaderOK ==
  /\ reader \in {"read", "match", "deliver", "done"}
  /\ record \in Calls \cup {None}
  /\ record = None <=> reader \in {"read", "done"}
  /\ offset \in 1 .. Len(Offsets)
  /\ target \in Calls \cup {None}
  /\ target = None <=> reader # "deliver"

LoopsOK ==
  /\ stderr \in {"scan", "done"}
  /\ cleanup \in {"select", "account", "done"}
  /\ closing \in {"open", "kill", "wait", "closed"}

FlagsOK == ctxDone \in BOOLEAN /\ alive \in BOOLEAN /\ proberDone \in BOOLEAN

\* The types of the variables; what the writer and the reader hold fits their
\* position in the loop, and no channel exceeds its capacity.
TypeOK == CallsOK /\ MapOK /\ WriterOK /\ NetOK /\ ReaderOK /\ LoopsOK /\ FlagsOK

\* The deferred delete in Probe removes by key, not by identity: it must never
\* find the entry of another call there (a stale entry that cleanup removed and
\* a second call re-entered under the same key).
DeleteIsOwn ==
  \A c \in Calls : pc[c] = "deferred" => inFlight[Key(c)] \in {c, None}

\* cleanupStaleProbes never takes the entry of a call that waits for its result
\* and is younger than ProbeTimeout + 5s: readerLoop can still find it.
FindableWhileFresh ==
  \A c \in Calls :
    /\ pc[c] \in {"queueing", "waiting"}
    /\ now < queued[c] + ProbeTimeout + StaleGrace
    => inFlight[Key(c)] = c

\* The InFlightProbes gauge is the size of the map, up to the removals of the
\* deferred delete and of cleanup whose decrement is still to come: no entry is
\* subtracted twice or never, whoever removes it.
GaugeConserved ==
  gauge = Cardinality({k \in Keys : inFlight[k] # None})
          + Cardinality({c \in Calls : pc[c] = "decrement"}) + cleaned

\* When Close has returned, every probe has left the map and the gauge, and no
\* call is left running behind it.
ClosedClean ==
  closing = "closed" => /\ gauge = 0
                        /\ \A k \in Keys : inFlight[k] = None
                        /\ \A c \in Calls : ~Running(c)

\* r may be handed to c: same flow, sent within two seconds of c's key.
Correlated(r, c) ==
  /\ flow[r] = flow[c]
  /\ sentSec[r] # None
  /\ sentSec[r] - queued[c] \in -2 .. 2

\* What Probe receives or returns is a reply for its own flow, sent within the
\* +-2s window of matchAndDeliverResult, although the entry may be gone by the
\* time readerLoop sends to the channel it looked up.
CorrelationSound ==
  \A c \in Calls : /\ resultCh[c] # None => Correlated(resultCh[c], c)
                   /\ got[c] # None => Correlated(got[c], c)

\* A call returns the first reply that reached its channel: a result waits there
\* until the call takes it, and duplicates, replies to other calls for the flow and
\* whatever comes after the timer are dropped instead of replacing it.
FirstReplyKept ==
  [][\A c \in Calls : resultCh[c] # None =>
       resultCh'[c] = resultCh[c] \/ (resultCh'[c] = None /\ got'[c] = resultCh[c])]_vars

\* r's packet left within two seconds of its request (the file comment of
\* caracal_prober.go asks for this).
InTime(r) == sentSec[r] - queued[r] \in -2 .. 2

\* No other call for c's flow began less than five seconds before or after it.
Alone(c) ==
  \A d \in Calls \ {c} : pc[d] # "idle" /\ flow[d] = flow[c] =>
     queued[c] - queued[d] >= 5 \/ queued[d] - queued[c] >= 5

\* A call that is five seconds away from the others for its flow returns only
\* the reply to its own packet, if packets leave in time: that is as close as
\* matchAndDeliverResult can tell probes apart.
SpacedAttribution ==
  \A c \in Calls : got[c] # None /\ InTime(got[c]) /\ Alone(c) => got[c] = c

\* "probeKey uniquely identifies a probe": when packets leave in time, the reply
\* a call returns is the reply to its own packet and not to another call's.
ExactAttribution ==
  \A c \in Calls : got[c] # None /\ InTime(got[c]) => got[c] = c

\* The caracal prober behaves as the Prober interface says (safety half).
Contract == INSTANCE ProberContract
  WITH status  <- [c \in Calls |-> IF Running(c) THEN "pending" ELSE pc[c]],
       probing <- flow,
       answer  <- [c \in Calls |-> IF pc[c] = "returned" THEN outcome[c] ELSE "none"]

ImplementsContract == Contract!Spec

\* "Probe must not block indefinitely" (Prober interface).
ProbeReturns == \A c \in Calls : Running(c) ~> ~Running(c)

\* The same as long as writerLoop lives: a call returns, or the prober has broken
\* down under it.
ServedProbeReturns ==
  \A c \in Calls : Running(c) ~> (~Running(c) \/ writer = "done")

\* Once its context is done, a Probe call returns, even if caracal is gone.
CancelledProbeReturns == \A c \in Calls : (ctxDone /\ Running(c)) ~> ~Running(c)

\* Close returns: every loop ends once the context is cancelled and caracal killed.
CloseTerminates == (closing # "open") ~> (closing = "closed")
=============================================================================
