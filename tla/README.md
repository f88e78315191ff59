# TLA+ verification of retina-agent

Specifications of the Retina agent: the caracal prober and its process, the
pipeline that serves one orchestrator connection, the judgement of read errors,
reconnection and the life of the agent process, the way of a directive to a
probe and of a reply back, and the mock orchestrator with the mock prober. TLC
checks them on small instances; TLAPS proves every safety invariant that TLC
checks, and two refinements, for every value of the constants. Liveness is
model-checked only.

## 1. Inventory

The agent (`cmd/retina-agent`) keeps one TCP connection to an orchestrator,
receives probing directives (PDs), runs two probes for each (TTL `n` and `n+1`)
and returns one forwarding information element (FIE).

| Component | State | Operations | Hard because | Correct when |
|---|---|---|---|---|
| Caracal prober, `caracal_prober.go` | `inFlight` map, `writeQueue`, a result channel per call, the `InFlightProbes` gauge | `Probe`, four loops, `Close` | calls, loops and the process interleave; results are matched by a key with one-second resolution and a +-2 s window; entries are deleted by key by two parties | a call gets only replies that correlate with it; entries are removed by their owner or when stale; the gauge is exact; calls and `Close` end |
| Its process, `NewCaracalProber`, `Close` | a child process, three pipes, the loops | setup, header read, kill, wait | each step can fail with earlier ones done; the header is read before anyone reads stderr; a new process per Run | nothing keeps running, a dead caracal is noticed |
| Probe key and records, `caracal_prober.go`, `validatePD` | none | validate, key, encode, parse | widths, two forms of an address, protocol names and numbers, rounding of times at a second's edge | the key of a reply is the key of its probe, and names one packet |
| Prober interface, `prober.go` | none | `Probe`, `Close` | - | each call ends once, with an outcome the interface allows |
| Pipeline, `agent.go` `Run` | channels `pds`, `fies` with depth counters and gauges; errgroup and its context; the connection; a goroutine per PD | dial, authenticate, `readerLoop`, `processorLoop`, `writerLoop`, `processPD` | shutdown and errors cross three loops; closed channels; back-pressure; counters beside the channels | no send on a closed channel, no lost directive, the right verdict, `Run` ends and leaves nothing running |
| Read errors, `agent.go` `readerLoop`, `handleDecodeError` | two counters | one per kind of read | mixtures of timeouts, bad frames, bad and good directives | a dead or broken peer is given up, a live one is not |
| Reconnection, `main.go` `runWithReconnect` | backoff, timer | run, wait, stop | signal races timer; reset and cap; durations of a Run | the schedule is 1 s, 2 s, 4 s ... capped; a peer that went silent is retried soon |
| Agent process, `main.go`, `config.go` | metrics server | environment, flags, `Validate`, bind, shutdown | a signal at any stage, a scrape during shutdown | a signal ends the process |
| Mock orchestrator, `cmd/mock-orchestrator` | two counters, a handler and a receiver per connection | handshake, `sendPDs`, `receiveFIEs`, `generatePD` | goroutines of many connections share counters; no deadlines; the agent leaves at any time | directives are answered, counters are right, handlers end |
| Mock prober, `mock_prober.go` | a random source under a lock | `Probe` | - | every directive yields a FIE |
| Metrics, `metrics.go` | gauges and counters | - | gauges set by several goroutines | see the gauges above |

How they interact: `main` calls `runWithReconnect`, which calls `Run` in turn;
`Run` creates a prober, and `processPD` goroutines call `Probe` with the
errgroup's context; `Run` closes the prober in a deferred function once all loops
have ended. The loops of `Run` share `pds` and `fies`, the loops of the prober
share `inFlight` (under a lock), `writeQueue` and the result channels. The
prober's own context is *not* derived from `Run`'s, so a failure inside the
prober is not seen by `Run`.

`PROJECT.json` lists the components, the hazards at their lines, the lines each
definition models, the runs, the mutants that show each property can fail, the
findings and the theorems.

## 2. Modules

| Module | Models |
|---|---|
| `ProberContract` | abstract specification of `Probe` (interface comment of `prober.go`) |
| `CaracalProber` | the prober between its constructor and `Close`; implements `ProberContract` (`ImplementsContract`) |
| `ProberProcess` | construction and end of the prober, its process and pipes, over several Runs |
| `ProbeKey` | one directive to a probe and a reply back: `validatePD`, both key builders, the line to caracal, the record |
| `DirectiveGenerator` | `generatePD`, on top of `ProbeKey` |
| `AgentPipeline` | `Run`, its loops and `processPD`; its prober *is* `ProberContract` |
| `ReaderLoop` | which reads end `readerLoop` |
| `Reconnect` | `runWithReconnect` |
| `AgentMain` | `main`, composed of `ReaderLoop` and `Reconnect` with the stages of `Run` between them |
| `ChannelDepth` | a pipeline channel, its atomic depth counter and its gauge |
| `MockSession` | mock orchestrator and agent end to end; the agent's `pds` is an instance of `ChannelDepth` |
| `MC...` | constants and symmetry for TLC |
| `CaracalProberProofs` | theorems about `CaracalProber`: entries, correlation |
| `CaracalContractProofs` | more of them: the gauge, `Close`, the refinement of `ProberContract` |
| `AgentPipelineProofs` | theorems about `AgentPipeline` |
| `AgentMainProofs` | theorems about `AgentMain`, `ReaderLoop` and `Reconnect` |
| `ProberProcessProofs` | theorems about `ProberProcess` |
| `ProbeKeyProofs` | theorems about `ProbeKey` and `DirectiveGenerator` |
| `MockSessionProofs` | theorems about `MockSession` and its `ChannelDepth` |

**CaracalProber.** One action per atomic step of the code: everything between
two lock operations, channel operations or clock reads. So `Probe` is
`CallProbe` (clock read), `Register` (under the lock), `Enqueue` (first select,
then the timer starts), `ReceiveResult`, `TimerFires` or `CtxDone` (second
select), `DeferredDelete` (under the lock) and `DeferredDecrement` (after it).
`matchAndDeliverResult` takes one `ReaderMatch` step per key it tries, since it
releases the lock between tries, and a separate `ReaderDeliver`.
`cleanupStaleProbes` deletes under the lock (`CleanupTick`) and corrects the
gauge later (`CleanupAccount`). The timer of a call starts after its request was
queued; a call waiting for room has none. An error of a loop sets `proberDone`
(the errgroup's context) and nothing else: calls of `Probe` do not watch it.

Abstractions: a *flow* is everything in a `probeKey` but the second. Time is in
whole seconds; an entry exactly as old as the cutoff may or may not be taken by
cleanup, because the code compares with sub-second precision. The cutoff may be
up to `RegisterStall` seconds old when the lock is taken. A record is named by
the call whose packet it reports. caracal and the network (`CaracalSends`,
`CaracalExits`, `ReaderRead`'s choice of record) are external: replies come late,
repeated, in any order or never. A record that `parseProbeResult` or
`buildProbeKey` refuses is a reply that never comes (`ProbeKey` shows which). A reader that has a record
waiting may still see a broken stream (`CaracalMayFail`).

**AgentPipeline.** `Report` is errgroup's part: the first error is kept, then the
context is cancelled. `readerLoop` and `processorLoop` close their channels
*before* the error is reported (`ReaderCloses`, `ProcessorCloses` are deferred
functions), so the pipeline can drain while the context is still live. Every
`select` with two ready cases is a free choice. `AfterFuncCloses` is a goroutine
of its own. Reads and writes fail independently: `PeerFails` stands for
everything that makes `framing.Receive` fail for good, and `WriterFails` (`ToProto`,
or a write that is cut or meets its deadline) may happen to any FIE. Reads that
leave `readerLoop` in its loop change nothing here and are the subject of
`ReaderLoop`. `createProber` comes before the dial and may never return. A FIE is
named by its directive; what it says of each side is that call's outcome. A call
of `Probe` is sure to return only once the context is done, so `Answered`, which is
about a live connection, has the premise `ProberServes`: no call stays pending for
ever. For the caracal prober this holds while its `writerLoop` runs
(`ServedProbeReturns` of `prober_live`), and `prober_blocked` shows that it can fail.

**ProberProcess.** One action per call that can fail: the three pipes, `Start`,
the header read. A process that has ended stays a "zombie", since no code calls
`cmd.Wait`. Pipes are this side's ends. The constructor reads the header
(`ReadHeader`, `ReadHeaderFails`) while stderr fills (`CaracalLogs`), and nothing
says that it returns: caracal may print nothing, or log more than the pipe holds
and block before its header. `GetPipeFails` closes nothing, because the `return nil, nil, nil, nil,
err` statements have set the named results before the deferred function reads
them. The life of `inFlight` and the queue is `CaracalProber`'s.

**ProbeKey.** The fields keep their widths (`uint16` half-words, `uint8` TTLs,
`ParseUint`'s limits), an address is a name and a form (plain, or IPv4-mapped), a
protocol a name or a number, and times are scaled microseconds. caracal prints
the fields it was given, an address in either form, a capture time and a round
trip in units; fields may be missing and records short. `DirectiveGenerator`
adds `generatePD`, so that the same run also takes the mock orchestrator's
directives through the agent.

**ReaderLoop.** The two counters of `readerLoop` beside history variables that
record what the wire did (`quiet`, `idle`, `garbage`); the properties relate the
two. A timeout inside a frame is wrapped in `ErrProtocolViolation` by framing, and
`readerLoop` looks for a network timeout in the chain before it looks for a
violation: whether framing keeps the network error in the chain decides whether
such a read is counted ("partial") or fatal ("violation"). Framing is external,
so the model has both. **Reconnect.** Time in ticks, `Second` of them in a second. `failures` and
`retries` are history variables.

**AgentMain.** Extends both and adds what is around them: environment, flags,
`Validate` and the metrics server, then the stages of `Run` up to its loops with
their deadlines, `readerLoop` with `ReadDeadline` per read, and the shutdown with
its five seconds. A step of `readerLoop` is `Stream(...)` of an action of
`ReaderLoop`; a Run's return is `RunReturns` of `Reconnect`. The other loops of
`Run` appear as `OtherLoopFails`. Environment, flags and `Validate` may each end the
process; the values of the settings are the constants, which `Validate` accepts.

**ChannelDepth.** Three statements follow each send and each receive (`Add`,
`Load`, `Set`), and any goroutine may run between them. `mixed` is a history
variable: some update overlapped another, or the channel is new, and no update
has started alone since.

**MockSession.** `handleAgent` and `receiveFIEs` of each connection, the agent's
three loops, and `processPD` with its two calls of `MockProber.Probe`. Directives
and FIEs are counted, not told apart (which FIE belongs to which directive is
`AgentPipeline`'s subject). The handshake's two timeouts are independent:
`AuthFails` and `Leave` may each happen while the other side completes. A Send to
an agent that is gone may still succeed before one fails.

## 3. Runs

All passing runs check deadlock: each module has one explicit final state.

| Run | Shows | Bounds |
|---|---|---|
| `prober_cleanup` | `TypeOK`, `DeleteIsOwn`, `FindableWhileFresh`, `GaugeConserved` | 2 calls, 1 flow, 7 s with a timeout of 1 s: beyond timeout + 5 s, so cleanup runs against a call that is still queueing or waiting, and a second call may re-enter the key |
| `prober_correlation` | `CorrelationSound`, `FirstReplyKept`, `ClosedClean`, `SpacedAttribution`, `ImplementsContract` | 2 calls, one reply per packet (a channel may be offered both), 5 s: the least distance at which two calls cannot be confused |
| `prober_live` | `ServedProbeReturns`, `CancelledProbeReturns`, `CloseTerminates` | queue and pipe of one slot, caracal and its pipes fail at any time; no replies, so every call ends by timer or context |
| `prober_process` | `NoOrphan`, `BreakdownSpreads` | 2 Runs, startup logs from none to one line more than the stderr pipe holds |
| `probe_key` | `ReplyFindsProbe`, `KeyNamesPacket`, `ProbedAsAsked`, `FlowsApart` | directives with every combination of header, protocol, TTL 0, 1, 2, 254, 255 and half-words at and beyond 16 bits; 144 generated directives, a turn of the 9 destinations and 16 TTLs; a second of 3 ticks and RTT units of 2, so that every rounding falls on every side of a second's edge |
| `pipeline` | `TypeOK`, `NoSendOnClosed`, `NilMeansShutdown`, `NothingLeftRunning`, `NothingLost`, `RunEnds`, `Answered` | 2 directives at consecutive TTLs, which share a probe; channels of one slot; one of cancellation and read failure per behaviour, and any number of failed writes |
| `agent_main` | `HopelessPeerLeft`, `DeadSinceDirective`, `BackoffSchedule`, `OneRetryAfterSignal`, `SilentPeerRetriedSoon`, `KeepsReconnecting`, `SignalExits`, `SilentPeerLeft` | the code's 6 timeouts, 2 decode errors; a maximum backoff that is no power of two; 4 failures, two more than it takes to reach it |
| `mock_session` | `StatsSound`, `Accounted`, `DepthConserved`, `GaugeRecovers`, `Converges`, `HandlerEnds` | 2 connections, 2 directives, buffers of one slot; authentication off, right and wrong |

`mock_session` has two directives, so the buffers of both directions are never full
at the same time: `Converges` shows progress through each of them, not the absence
of a circular wait between them.

Two calls are enough for the prober's hazards, each of which is about one call
and one other party (a second call, cleanup or the reader); the theorems of
section 5 remove the bound for safety. Capacities of one make "full" and "empty"
adjacent, so every back-pressure path is met. Two connections let a handler of
the first still count while the second is served. Calls are symmetric; symmetry is
used only where no liveness is checked. `MaxTime`, `MaxReplies`, `MaxFailures`,
`DecodeErrorBound`, `MaxFaults`, `MaxRuns`, `MaxDelay`, `MaxSessions` and `MaxPDs`
are the named bounds. `TypeOK` of the prober and of the pipeline, with the channels'
capacities, are checked as invariants; in the other modules it is part of the
inductive invariant that is proved. `Earlier(..., MaxTime)` in `Enqueue` keeps a timer able to
fire before the clock stops.

What the newer runs show, in a sentence each. A reply always finds its probe's
key if the packet leaves within two seconds, less one RTT unit, of `Probe`'s clock
read: the window of +-2 s absorbs the rounding (`ReplyFindsProbe`). The mock
orchestrator's directives are all accepted and share no probe within 144
directives, although ICMP probes to one destination differ only in TTL
(`FlowsApart`): at up to 28 directives a second no two are confused. An accepted
directive is probed with its own protocol and TTLs, and with its own header fields
if they fit 16 bits (`ProbedAsAsked`). A result that has reached a call's channel is
the one it returns, if it returns one, and a later reply is dropped without holding
up the reader (`FirstReplyKept`, and the run's deadlock check). A signal ends the
process from any stage but `createProber`, which waits for caracal's header with
no deadline, and even during a scrape that never ends (`SignalExits`). A peer that goes silent is retried after one second, because
detecting the silence took longer than the reset threshold
(`SilentPeerRetriedSoon`; the premise, that six read deadlines last a second or
more, is stated). Depth counters never drift; the gauge copied from them can show
a wrong value at rest after overlapping updates, and the next update that runs
alone repairs it (`DepthConserved`, `GaugeRecovers`).

Runs that expect a violation, each a disagreement between code and text:

| Run | The text | The code |
|---|---|---|
| `prober_blocked` | `prober.go:28` "Probe must not block indefinitely" | once caracal has exited or any loop of the prober has failed, `writerLoop` is gone; with `writeQueue` full, `Probe` waits for ever: its timer has not started and nothing drains the queue. In the trace `readerLoop` fails while caracal is alive |
| `prober_crosstalk` | `caracal_prober.go:64` "probeKey uniquely identifies a probe within a time window" | a reply may go to another call for the same flow that started up to 4 s away |
| `prober_leak` | `prober.go:31` "Close releases resources" | nothing calls `cmd.Wait`: a zombie stays after each Run, and the read ends of two pipes are open when `Close` returns (finalizers of `os.File` close them later) |
| `pipeline_always_fie` | `README.md:148` "Always send a FIE" | a duplicate on either side drops the directive silently |

Smaller differences met on the way, which the models contain but no run is
spent on:

- `README.md:164` "Context cancellation: Clean shutdown": a FIE being written when
  the connection is closed makes `writerLoop` return "connection lost while
  writing", and `Run` logs and returns it (`AgentPipeline`, `WriterFails`). The
  process still stops, since `runWithReconnect` looks at the context first.
- `agent.go:181` "consecutive read timeouts": an invalid directive between
  timeouts does not restart the count (`ReadInvalid`). `DeadSinceDirective` states
  what does hold.
- `README.md:160` says that a partial frame drops the connection, and the comments at
  `agent.go:195-201` and `agent.go:262-266` say so of a timeout inside one. The code tests for a
  network timeout first (`agent.go:203`), so such a read is counted and retried if
  framing keeps the network error in the chain (`ReadTimesOut("partial")`).
- `caracal_prober.go:16`, `232` and `235` say that a duplicate returns nil or
  `(nil, nil)`; `Probe` returns `ErrDuplicatePD`, as `prober.go` says and as
  `ProberContract` has it.
- `extractHalfWords` wraps header fields above 65535, which `validatePD` accepts, so
  the packet is another directive's; its comment documents this as a gap.
- `reportStats` of the mock orchestrator loads `pdsSent` and then `fiesReceived`, so
  the rate it logs can exceed 100% even when the counters never do.
- `README.md:102` "Maximum wait time between reconnection attempts": the backoff
  starts at, and resets to, a second, and the cap is applied after a doubling
  (`TimerFires`), so a maximum below a second, which `Validate` accepts, is
  exceeded. `BoundedWait` (section 5) states what holds.
- `main.go:220` "without retrying": a signal that arrives as the timer fires may
  still start one more run (`OneRetryAfterSignal`).
- `main.go:27` "All flags can be set via environment variables": `-prober-arg`
  cannot; and `main.go:29` "Flags take precedence": a variable that cannot be
  parsed ends the process even if its flag is given (`ReadEnvironment` comes before
  `ParseFlags`).
- `setupCaracalProcess` means to close its pipes on error, but its deferred
  function sees the named results already set to nil (`GetPipeFails`).
- The header read ignores the context, so a signal while the prober is created
  takes effect only when caracal has printed its header or ended.
- `metrics.go:91` "Current number of items in pipeline channels": the gauge may be
  wrong, even negative, at rest, and keeps its last value over a reconnection
  until the next directive.

## 4. Fairness

Weak fairness of each goroutine's steps (the Go scheduler runs what can run), of
timers and tickers, of the function `AfterFunc` starts, and of a running caracal
reading its stdin. A killed process closes its pipes, so end-of-file is
fair only when `~alive`. Nothing forces replies, failures, signals or directives.
In `AgentPipeline` authentication ends because it has deadlines, and the dial
because the operating system gives up or the context is cancelled (the `Dialer`
itself has no timeout). `createProber` is not fair: it waits for caracal's header
without a deadline. `Probe` is fair only once its context is done
(`CancelledProbeReturns`), which is what shutdown needs and `RunEnds` uses; that it
returns before is the premise of `Answered`.

In `AgentMain` the clock ticks, a read ends at its deadline or when the connection
is closed under it, the metrics server's shutdown ends at its deadline, and `Run`
returns once its reader has ended (shown by `RunEnds` of `AgentPipeline`). Peers,
scrapes, signals and the prober's constructor are not fair: a good connection may
last, a scrape may hang, caracal may never print. In `ProberProcess` nothing is
assumed of caracal, and `Close` need not be called. In `MockSession` the
sender's ticker ticks, a Send to an agent that is gone fails in the end (TCP
resets it), and the agent notices that it was refused or dropped; it may leave
at any other time but never has to.

## 5. Proofs

Every invariant of a passing run has a theorem `Spec => []Inv`, for every value of
the constants that the module's ASSUME allows. No property is inductive alone:
each proof module defines `IInv` (in `CaracalContractProofs` `JInv`, on top of the
first), which was checked as an invariant by TLC before it was proved, and has a
step lemma per conjunct or per component with one step per action. `Invariance`
combines them; the theorems about the properties follow from it.

| Module | Theorem | States |
|---|---|---|
| `CaracalProberProofs` | `TypeCorrectness`, `OwnDelete`, `Findable`, `Correlates`, `Attribution` | `TypeOK`, `DeleteIsOwn`, `FindableWhileFresh`, `CorrelationSound`, `SpacedAttribution` |
| `CaracalContractProofs` | `GaugeExact`, `CleanClose`, `Implements`, `FirstReply` | `GaugeConserved`, `ClosedClean`, `ImplementsContract`, `FirstReplyKept` |
| `AgentPipelineProofs` | `TypeCorrectness`, `ClosedChannels`, `NilOnlyOnShutdown`, `NothingOutlivesRun`, `NoDirectiveLost` | `TypeOK`, `NoSendOnClosed`, `NilMeansShutdown`, `NothingLeftRunning`, `NothingLost` |
| `AgentMainProofs` | `LeavesHopelessPeer`, `NoHastyTimeout`, `OneRetry`, `SilentPeerSoon`, `BackoffFollowsSchedule` | `HopelessPeerLeft`, `DeadSinceDirective`, `OneRetryAfterSignal`, `SilentPeerRetriedSoon`, `BackoffSchedule` |
| | `RunsReconnect`, `BoundedWait`, `DoublingSchedule` | the process implements `ReconnectSpec`; a bound on every wait; the schedule for any doubling sequence |
| `ProberProcessProofs` | `NothingOrphaned` | `NoOrphan` |
| `ProbeKeyProofs` | `RepliesComeBack`, `KeysNamePackets`, `AsksAreProbed`, `GeneratedApart` | `ReplyFindsProbe`, `KeyNamesPacket`, `ProbedAsAsked`, `FlowsApart` |
| `MockSessionProofs` | `SoundStats`, `AllAccounted`, `DepthNeverDrifts`, `GaugeRepaired` | `StatsSound`, `Accounted`, `DepthConserved`, `GaugeRecovers` |

**CaracalProberProofs.** Any finite sets of calls and flows, any capacities,
timeout, clock skew and number of replies. `IInv` adds to `TypeOK`:

- `Provenance`, `Distinct`: a request is in exactly one of `writeQueue`, the
  writer, `stdin` or sent. Needed because a second send would change the sent
  second of a record already delivered.
- `Ownership`: an entry belongs to the call whose key it is, and that call has
  not passed its deferred delete; a registered call is without its entry only
  after the cutoff passed it, and then the key is empty. The last clause carries
  `DeleteIsOwn`: for another call to re-enter the key it must have read the clock
  in the same second and locked after the cutoff. `StallAssumption`
  (`RegisterStall < ProbeTimeout + StaleGrace`) excludes this. The code does not
  enforce it: it is an assumption about scheduling, of at least five seconds.
- `Correlation`: the same as `CorrelationSound` for the channel the reader is
  about to send to after it released the lock.

`SpacedAttribution` follows from `Correlation`: a reply a call returns was sent
within 2 s of its key, and within 2 s of the key of the call it belongs to. Five
seconds is exact: two windows of +-2 s do not meet.

**CaracalContractProofs.** `GaugeConserved` is inductive relative to `IInv`: the
gauge is a sum of three cardinalities (entries, calls about to decrement, entries
cleanup has removed and not yet subtracted), and each action moves at most one
element between them, except `CleanupTick`, which moves a whole set. `Closing` says
that `Close` begins after the last call (`Run` waits for its loops) and `Outcomes`
when a call has decided. `Implements` maps each action to a step of
`ProberContract`: `CallProbe` to `Start`; a refused `Register`, `DeferredDecrement`,
and a `DeferredDelete` that finds its entry gone to `Return`; `CancelCtx` to
`Cancel`; all others to a stutter.
A duplicate is refused only if the entry's owner still runs, which is `Ownership`.
`FirstReply` is an action property: only `ReaderDeliver` fills a channel, when it is
empty, and only `ReceiveResult` empties it, into what the call returns.

**AgentPipelineProofs.** Any directives, flows and buffer sizes. `Positions` and
`Quiet` tie the loops to `Run`; `Channels` says who closed a channel and why the
stage behind it stopped; `Probes` puts each call inside a goroutine and each
goroutine inside `processorLoop`'s wait, which is why `fies` is closed only when no
goroutine can send; `Errors` says where each verdict comes from: without it a
loop's `ctx.Err()` could reach the errgroup before the failure that cancelled the
context. `NothingLost` needs the reasons in `Channels`: a stage that left its
channel with something in it did so because the connection is ending.

**AgentMainProofs.** Any limits and deadlines. `Counters` bounds
`consecutiveTimeouts` between two histories: at least the silent reads since bytes
last came, at most those that met their deadline since the last directive. `Patience` relates two clocks,
Run's duration and the sum of read deadlines, and so the reader's verdict to the
reset of the backoff. `Retries` says that a run after the signal began in a wait
the signal found. The provers do not know `^`, so `BackoffFollowsSchedule` has the
hypothesis `IsDoubling(Doubled)`, that powers of two start at a second and double,
which TLC evaluates as an ASSUME of `MCAgentMain`; `DoublingSchedule` is the same
without `^` and without the hypothesis.

**ProberProcessProofs.** Any log and pipe size and number of Runs. `Lifetimes` says
what exists at each stage; `NoOrphan` is its last stages: after a failed constructor
and after `Close` no caracal and no loop runs, and after `Close` stdin is closed
(a failed constructor leaves its pipes open).

**ProbeKeyProofs.** `Way` says that at each stage the key, the line and the record
are functions of the directive, the clock and caracal's choices, so the properties
become facts about the operators: rounding (`RepliesComeBack` needs that a packet
leaves within two seconds less an RTT unit of the clock read: `MaxQueueing`),
injectivity of the key, and arithmetic modulo 9 and 16 (`GeneratedApart`, for every
counter; `Apart` is at most 144, since ICMP directives repeat then).

**MockSessionProofs.** Any number of connections and directives and any buffers.
The shared counters are sums over the connections. To avoid an induction, a sum is
the cardinality of the set of pairs `<<s, k>>`, the k-th message of connection s
(`Messages`): each step adds one pair, and `got <= sent` on each connection makes
one set a subset of the other. `Balance` puts each directive of the agent's
connection in one place, `Depth` is the depth counter with the `Add`s to come, and
`Alone` says what a lone update has loaded.

Assumptions about constants are positive sizes, "no value" (`None`) outside
the sets of values, the two stated above (`StallAssumption`, `MaxQueueing`), and that
the two probes of a directive differ (they have different TTLs).

Only model-checked: liveness, which is out of the prover's reach
(`ServedProbeReturns`, `CancelledProbeReturns`, `CloseTerminates`, `RunEnds`,
`Answered`, `KeepsReconnecting`, `SignalExits`, `SilentPeerLeft`,
`BreakdownSpreads`, `Converges`, `HandlerEnds`), and the fact about
`^`. The theorems keep the bounds that end a behaviour (`MaxFailures`, `MaxRuns`,
`MaxSessions`, `MaxReplies`, ...) as constants of any size.

## 6. Plan

All components of the inventory are modelled, except as section 7 says, and all
invariants of the runs are proved. Left:

1. Action properties that the invariants imply and no run states: the first error
   of an errgroup is never replaced, a registered key does not change hands.
2. `ChannelDepth` for any number of producers, of which `MockSession` has one.
3. The steps of `AgentPipeline` on the prober's state are steps of
   `ProberContract` (they are its actions, conjoined), so that `Implements` and
   the pipeline's theorems compose; and that `AgentMain` implements `ReaderSpec`
   during a Run.
4. `mock_session` with more directives, so that both directions can be full at once
   (with three the run already takes more than five minutes as it stands).

## 7. Not modelled

- retina-commons (`framing`, `model`, `wire`) is external: its outcomes are the
  kinds of read of `ReaderLoop` and the fields of `ProbeKey`.
- `metrics.go` is registration. Counters that are only incremented (outcomes,
  ICMP replies, address classes of `classifyIP`) have no state anything depends on.
  `WriteQueueDepth` is set from `len(writeQueue)` by the same pattern as the depth
  gauges, and the gauge of `fies` is the one of `pds` with other goroutines.
- The checks of strings in `Config.Validate` (secret strength, host and port, path)
  and logging, `newLogger` and `reportStats` included: pure text.
- `ProbeResult`'s `Success`, `RTT` and `String` are accessors.
- Text of CSV lines and numbers in them: `ProbeKey` keeps the fields, their ranges
  and which may be missing.
