----------------------------- MODULE AgentMain ------------------------------
(***************************************************************************)
(* The agent process: main of cmd/retina-agent from the environment to the *)
(* exit, around runWithReconnect (Reconnect), with the stages of agent.Run *)
(* and, in its last stage, readerLoop (ReaderLoop).                        *)
(*                                                                         *)
(* Here the deadlines of the three parts meet: readerLoop counts reads,    *)
(* each of which takes ReadDeadline; runWithReconnect measures how long    *)
(* Run lasted; the metrics server gets five seconds to shut down.          *)
(***************************************************************************)
EXTENDS ReaderLoop, Reconnect

\* The constants of the configuration are values Config.Validate accepts.
CONSTANT ReadDeadline   \* cfg.ReadDeadline, in ticks

ASSUME MainAssumption == ReadDeadline \in Nat \ {0}

VARIABLES
  stage,      \* of main: "env", "flags", "validate", "bind", "serve", "shutdown", "exited"
  scraping,   \* a request to /metrics is being served
  runStage,   \* of Run: "prober", "dial", "sendAuth", "recvAuth" or "stream"
  timer,      \* ticks left of the deadline that runs, where one does
  connOpen    \* the connection is open on this side

runVars   == <<runStage, timer, connOpen>>
vars == <<stage, scraping, runVars, readerVars, retryVars>>

\* The deadlines of authenticate and of srv.Shutdown.
HandshakeTimeout == 5 * Second
ShutdownTimeout  == 5 * Second

Init ==
  /\ stage = "env" /\ scraping = FALSE
  /\ runStage = "prober" /\ timer = 0 /\ connOpen = FALSE
  /\ ReaderInit /\ ReconnectInit

-----------------------------------------------------------------------------
(* Startup *)

Exit == stage' = "exited"

Starting == UNCHANGED <<scraping, runVars, readerVars, retryVars>>

\* The package variables are initialised: envOrDefaultInt and
\* envOrDefaultDuration exit on a value they cannot parse.
ReadEnvironment ==
  /\ stage = "env"
  /\ Exit \/ stage' = "flags"
  /\ Starting

\* flag.Parse: a bad flag ends the process.
ParseFlags ==
  /\ stage = "flags"
  /\ Exit \/ stage' = "validate"
  /\ Starting

\* Config.Validate refuses the configuration, or it is the one the constants give.
Validate ==
  /\ stage = "validate"
  /\ Exit \/ stage' = "bind"
  /\ Starting

\* startMetricsServer binds before anything connects, or the process ends.
BindMetrics ==
  /\ stage = "bind"
  /\ Exit \/ stage' = "serve"
  /\ Starting

\* A signal before signal.NotifyContext ends the process at once.
SignalEarly ==
  /\ stage \in {"env", "flags", "validate", "bind"}
  /\ Exit /\ Starting

-----------------------------------------------------------------------------
(* agent.Run, up to its loops *)

InRun(s) == stage = "serve" /\ phase = "run" /\ runStage = s

Advance(next, limit) ==
  /\ runStage' = next /\ timer' = limit
  /\ UNCHANGED <<stage, scraping, retryVars>>

ProberCreated ==
  /\ InRun("prober")
  /\ Advance("dial", 0) /\ UNCHANGED <<connOpen, readerVars>>

\* DialContext succeeds; the group's context and the AfterFunc come before
\* authenticate.
Dialed ==
  /\ InRun("dial")
  /\ connOpen' = TRUE
  /\ Advance("sendAuth", HandshakeTimeout)
  /\ groupDone' = ctxDone
  /\ UNCHANGED <<state, timeouts, decodeErrors, verdict, quiet, idle, garbage>>

AuthSent ==
  /\ InRun("sendAuth") /\ connOpen
  /\ Advance("recvAuth", HandshakeTimeout) /\ UNCHANGED <<connOpen, readerVars>>

\* The peer accepts, and the loops start.
Authenticated ==
  /\ InRun("recvAuth") /\ connOpen
  /\ Advance("stream", ReadDeadline) /\ UNCHANGED <<connOpen, readerVars>>

\* Run fails before its loops: no prober, no connection, a handshake that is
\* rejected, broken, timed out or cut by AfterFunc.  Or readerLoop has ended,
\* and with it the group.  The deferred functions close what is open.
RunEnds ==
  /\ stage = "serve" /\ phase = "run"
  /\ runStage = "stream" => state = "ended"
  /\ RunReturns
  /\ runStage' = "prober" /\ timer' = 0 /\ connOpen' = FALSE
  /\ UNCHANGED <<stage, scraping, readerVars>>

-----------------------------------------------------------------------------
(* readerLoop on the connection *)

\* Faulty variant: a deadline that was set once stays for the later reads.
StreamStaleDeadline(Step) ==
  /\ InRun("stream") /\ Step
  /\ timer' = IF state' = "receive" /\ quiet' = 0 THEN ReadDeadline ELSE 0
  /\ UNCHANGED <<stage, scraping, runStage, connOpen, retryVars>>

\* A step of readerLoop; the next read gets a fresh deadline.
Stream(Step) ==
  /\ InRun("stream") /\ Step
  /\ timer' = IF state' = "receive" THEN ReadDeadline ELSE 0
  /\ UNCHANGED <<stage, scraping, runStage, connOpen, retryVars>>

StreamFrame ==
  /\ connOpen
  /\ \/ Stream(ReadDirective) \/ Stream(ReadInvalid) \/ Stream(ReadMalformed)
     \/ \E o \in {"violation", "network"} : Stream(ReadFails(o))

StreamTimeout ==
  /\ connOpen /\ timer = 0
  /\ \E o \in Late : Stream(ReadTimesOut(o)) \/ Stream(ReadCancelled(o))

\* The read fails because the connection was closed under it, or by itself.
StreamCancelled == \E o \in {"network", "violation", "malformed"} : Stream(ReadCancelled(o))

StreamQueue == Stream(Queue) \/ Stream(SelectCancelled)

\* processorLoop or writerLoop fails: the group is cancelled.
OtherLoopFails ==
  /\ InRun("stream") /\ CancelGroup
  /\ UNCHANGED <<stage, scraping, runVars, retryVars>>

\* context.AfterFunc closes the connection once the context is done.
CloseConn ==
  /\ stage = "serve" /\ phase = "run" /\ connOpen /\ groupDone
  /\ connOpen' = FALSE
  /\ UNCHANGED <<stage, scraping, runStage, timer, readerVars, retryVars>>

-----------------------------------------------------------------------------
(* Signals, waits, the metrics server and the exit *)

\* The signal cancels the context and the group's context derived from it.
GetSignal ==
  /\ stage = "serve" /\ Signal
  /\ groupDone' = (groupDone \/ connOpen)
  /\ UNCHANGED <<state, timeouts, decodeErrors, verdict, quiet, idle, garbage>>
  /\ UNCHANGED <<stage, scraping, runVars>>

\* The wait is over; another Run will have a readerLoop with fresh counters.
EndWait ==
  /\ stage = "serve" /\ WaitEnds
  /\ state' = "receive" /\ verdict' = "none" /\ groupDone' = FALSE
  /\ timeouts' = 0 /\ decodeErrors' = 0 /\ quiet' = 0 /\ idle' = 0 /\ garbage' = 0
  /\ UNCHANGED <<stage, scraping, runVars>>

Scrape ==
  /\ stage = "serve" \/ scraping
  /\ scraping' = ~scraping
  /\ UNCHANGED <<stage, runVars, readerVars, retryVars>>

\* runWithReconnect has returned: stop the metrics server.
BeginShutdown ==
  /\ stage = "serve" /\ phase = "stopped"
  /\ stage' = "shutdown" /\ timer' = ShutdownTimeout
  /\ UNCHANGED <<scraping, runStage, connOpen, readerVars, retryVars>>

\* Faulty variant: Shutdown without a deadline.
FinishShutdownWaits ==
  /\ stage = "shutdown" /\ ~scraping
  /\ Exit
  /\ UNCHANGED <<scraping, runVars, readerVars, retryVars>>

\* No request is left, or the deadline has passed.
FinishShutdown ==
  /\ stage = "shutdown" /\ (~scraping \/ timer = 0)
  /\ Exit
  /\ UNCHANGED <<scraping, runVars, readerVars, retryVars>>

\* Time passes while nothing is due.
Tick ==
  /\ UNCHANGED <<stage, scraping, runStage, connOpen, readerVars>>
  /\ \/ /\ stage = "serve" /\ RunTick
        /\ \/ runStage \in {"prober", "dial"} /\ elapsed < Second /\ UNCHANGED timer
           \/ state = "select" /\ elapsed < Second /\ UNCHANGED timer
           \/ runStage \in {"sendAuth", "recvAuth"} /\ timer > 0 /\ timer' = timer - 1
           \/ runStage = "stream" /\ state = "receive" /\ timer > 0 /\ timer' = timer - 1
     \/ stage = "serve" /\ WaitTick /\ UNCHANGED timer
     \/ /\ stage = "shutdown" /\ timer > 0
        /\ timer' = timer - 1 /\ UNCHANGED retryVars

Exited == stage = "exited" /\ UNCHANGED vars

StartupStep == ReadEnvironment \/ ParseFlags \/ Validate \/ BindMetrics
RunStep     == ProberCreated \/ Dialed \/ AuthSent \/ Authenticated \/ RunEnds
ReadStep    == StreamFrame \/ StreamTimeout \/ StreamCancelled \/ StreamQueue

Next ==
  \/ StartupStep \/ SignalEarly \/ RunStep \/ ReadStep
  \/ OtherLoopFails \/ CloseConn \/ GetSignal \/ EndWait
  \/ Scrape \/ BeginShutdown \/ FinishShutdown \/ Tick \/ Exited

Spec == Init /\ [][Next]_vars

\* Timers fire, a select takes a ready case, and a goroutine that can run does.
\* The dial ends by the operating system's connect timeout or with ctx, and Run
\* returns once readerLoop has ended (RunEnds of AgentPipeline).  Not assumed: that
\* createProber returns (it waits for caracal's header), that a peer sends, that a
\* scrape ends, that a signal comes.
Fairness ==
  /\ WF_vars(Dialed \/ (runStage # "prober" /\ RunEnds))
  /\ WF_vars(CloseConn) /\ WF_vars(EndWait)
  /\ WF_vars(StreamTimeout) /\ WF_vars(StreamQueue)
  /\ WF_vars(~connOpen /\ StreamCancelled)
  /\ WF_vars(BeginShutdown) /\ WF_vars(FinishShutdown) /\ WF_vars(Tick)

FairSpec == Spec /\ Fairness

-----------------------------------------------------------------------------
(* Properties *)

TypeOK ==
  /\ ReaderTypeOK /\ ReconnectTypeOK
  /\ stage \in {"env", "flags", "validate", "bind", "serve", "shutdown", "exited"}
  /\ scraping \in BOOLEAN /\ connOpen \in BOOLEAN
  /\ runStage \in {"prober", "dial", "sendAuth", "recvAuth", "stream"}
  /\ timer \in Nat

\* A peer that went silent is tried again after the shortest wait: detecting it
\* took readerLoop longer than a second, so runWithReconnect starts over,
\* however many failures came before.
SilentPeerRetriedSoon ==
  /\ phase = "wait" /\ verdict = "timeouts"
  /\ MaxConsecutiveReadTimeouts * ReadDeadline >= Second
  => left <= Second

\* A signal ends the process, whether it finds Run in its handshake, in a read or
\* in a backoff wait, and even if a scrape of the metrics never ends.  The one
\* place it cannot end is createProber, which waits for caracal without a deadline
\* and without looking at the context.
SignalExits == ctxDone ~> (stage = "exited" \/ InRun("prober"))

\* A peer from which nothing comes is left: the reader hears something, or the
\* connection is given up and the agent waits to reconnect or stops.
SilentPeerLeft == (phase = "run" /\ quiet > 0) ~> (quiet = 0 \/ phase # "run")
=============================================================================
