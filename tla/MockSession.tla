----------------------------- MODULE MockSession ----------------------------
(***************************************************************************)
(* The mock orchestrator (cmd/mock-orchestrator) and an agent with the     *)
(* mock prober, end to end, over the agent's successive connections.       *)
(*                                                                         *)
(*   sendPDs --down--> readerLoop -pds-> processorLoop -> processPD        *)
(*   receiveFIEs <--up-- writerLoop <-fies-------------------+             *)
(*                                                                         *)
(* Each connection has a handler goroutine (handleAgent, which authen-     *)
(* ticates and then sends) and a receiver goroutine of its own; all of     *)
(* them share the counters pdsSent and fiesReceived.  Directives and FIEs  *)
(* are counted, not told apart.  The agent is its three loops, pds with    *)
(* the depth counter and gauge of ChannelDepth (those of fies follow the   *)
(* same steps); how its Run ends is AgentPipeline's subject, here it       *)
(* leaves at any time with nothing of it left running.                     *)
(* A directive readerLoop holds counts as still on the wire.               *)
(***************************************************************************)
EXTENDS Integers, FiniteSets

CONSTANTS
  MaxSessions,      \* bound: connections the agent makes, one after another
  MaxPDs,           \* bound: directives sent, on all connections together
  WireSize,         \* messages one direction of a connection buffers
  PDsBufferSize,    \* cfg.PDsBufferSize
  FIEsBufferSize,   \* cfg.FIEsBufferSize
  Secrets           \* the secrets in use, besides the empty one

Sessions == 1 .. MaxSessions

ASSUME SessionAssumption ==
  /\ MaxSessions \in Nat \ {0} /\ MaxPDs \in Nat \ {0} /\ WireSize \in Nat \ {0}
  /\ PDsBufferSize \in Nat \ {0} /\ FIEsBufferSize \in Nat \ {0}
  /\ "" \notin Secrets

VARIABLES
  secret,         \* -secret of the orchestrator, "" when authentication is disabled
  agentSecret,    \* cfg.Secret of the agent
  handler,        \* handler[s]: "none", "auth", "serving", "counting" or "closed"
  receiver,       \* receiver[s]: "off", "receive", "counting" or "ended"
  response,       \* response[s]: the AuthResponse sent: "none", "ok" or "refused"
  down, up,       \* directives and FIEs on the wire of each connection
  sent, got,      \* directives sent and FIEs received on each connection (history)
  pdsSent,        \* the orchestrator's counters
  fiesReceived,
  current,        \* the agent's connection, 0 before the first
  agent,          \* "off", "auth" or "running"
  both, one,      \* processPD goroutines with both, and one, of their Probe calls running
  sending,        \* processPD goroutines that have a FIE for fies
  fies,           \* the number of FIEs in the fies channel
  writing,        \* writerLoop has a FIE to write
  length, depth, gauge, at, loaded, mixed   \* the pds channel, see ChannelDepth

Pds == INSTANCE ChannelDepth WITH
  Producers <- {"reader"}, Consumer <- "processor", Capacity <- PDsBufferSize

pdsVars    == <<length, depth, gauge, at, loaded, mixed>>
workVars   == <<both, one, sending, fies, writing>>
wireVars   == <<down, up>>
countVars  == <<sent, got, pdsSent, fiesReceived>>
serverVars == <<handler, receiver, response>>
configVars == <<secret, agentSecret>>
agentVars  == <<current, agent, workVars, pdsVars>>
vars == <<configVars, serverVars, wireVars, countVars, agentVars>>

Init ==
  /\ secret \in Secrets \cup {""} /\ agentSecret \in Secrets \cup {""}
  /\ handler  = [s \in Sessions |-> "none"]
  /\ receiver = [s \in Sessions |-> "off"]
  /\ response = [s \in Sessions |-> "none"]
  /\ down = [s \in Sessions |-> 0] /\ up  = [s \in Sessions |-> 0]
  /\ sent = [s \in Sessions |-> 0] /\ got = [s \in Sessions |-> 0]
  /\ pdsSent = 0 /\ fiesReceived = 0
  /\ current = 0 /\ agent = "off"
  /\ both = 0 /\ one = 0 /\ sending = 0 /\ fies = 0 /\ writing = FALSE
  /\ Pds!Init

\* The agent has left connection s.
Gone(s) == s < current \/ (s = current /\ agent = "off")

-----------------------------------------------------------------------------
(* The mock orchestrator *)

Close(s) == handler' = [handler EXCEPT ![s] = "closed"]

Accepts == secret = "" \/ agentSecret = secret

\* Faulty variant: the receiver is not started.
HandleAuthSendsOnly(s) ==
  /\ handler[s] = "auth" /\ Accepts
  /\ response' = [response EXCEPT ![s] = "ok"]
  /\ handler'  = [handler EXCEPT ![s] = "serving"]
  /\ UNCHANGED <<receiver, configVars, wireVars, countVars, agentVars>>

\* handleAuth has read the request and refuses or accepts it; accepted,
\* handleAgent starts receiveFIEs and goes on to sendPDs.
HandleAuth(s) ==
  /\ handler[s] = "auth"
  /\ \/ /\ Accepts
        /\ response' = [response EXCEPT ![s] = "ok"]
        /\ handler'  = [handler EXCEPT ![s] = "serving"]
        /\ receiver' = [receiver EXCEPT ![s] = "receive"]
     \/ /\ ~Accepts
        /\ response' = [response EXCEPT ![s] = "refused"]
        /\ Close(s) /\ UNCHANGED receiver
  /\ UNCHANGED <<configVars, wireVars, countVars, agentVars>>

\* The request does not come within authTimeout, or the agent is gone.
AuthFails(s) ==
  /\ handler[s] = "auth"
  /\ Close(s)
  /\ UNCHANGED <<receiver, response, configVars, wireVars, countVars, agentVars>>

Counting(state) == Cardinality({s \in Sessions : state[s] = "counting"})

\* Another directive is within the bound.
MorePDs == pdsSent + Counting(handler) < MaxPDs

\* A tick of sendPDs: framing.Send succeeds, which takes room on the wire; when
\* the agent is gone the kernel may take it and drop it.
SendPD(s) ==
  /\ handler[s] = "serving" /\ MorePDs /\ down[s] < WireSize
  /\ down' = [down EXCEPT ![s] = IF Gone(s) THEN 0 ELSE @ + 1]
  /\ sent' = [sent EXCEPT ![s] = @ + 1]
  /\ handler' = [handler EXCEPT ![s] = "counting"]
  /\ UNCHANGED <<receiver, response, up, got, pdsSent, fiesReceived, configVars, agentVars>>

\* pdsSent.Add(1), after the Send.
CountPD(s) ==
  /\ handler[s] = "counting"
  /\ pdsSent' = pdsSent + 1
  /\ handler' = [handler EXCEPT ![s] = "serving"]
  /\ UNCHANGED <<receiver, response, sent, got, fiesReceived, configVars, wireVars, agentVars>>

\* Faulty variant: sendPDs tries again at the next tick.
SendRetried(s) ==
  /\ handler[s] = "serving" /\ Gone(s)
  /\ UNCHANGED vars

\* framing.Send fails: sendPDs returns and handleAgent closes the connection.
SendFails(s) ==
  /\ handler[s] = "serving" /\ Gone(s)
  /\ Close(s)
  /\ UNCHANGED <<receiver, response, configVars, wireVars, countVars, agentVars>>

\* Faulty variant: the FIE is counted again for the log line.
CountFIETwice(s) ==
  /\ receiver[s] = "counting"
  /\ fiesReceived' = fiesReceived + 2
  /\ receiver' = [receiver EXCEPT ![s] = "receive"]
  /\ UNCHANGED <<handler, response, sent, got, pdsSent, configVars, wireVars, agentVars>>

ReceiveFIE(s) ==
  /\ receiver[s] = "receive" /\ up[s] > 0 /\ handler[s] # "closed"
  /\ up'  = [up EXCEPT ![s] = @ - 1]
  /\ got' = [got EXCEPT ![s] = @ + 1]
  /\ receiver' = [receiver EXCEPT ![s] = "counting"]
  /\ UNCHANGED <<handler, response, down, sent, pdsSent, fiesReceived, configVars, agentVars>>

\* fiesReceived.Add(1).
CountFIE(s) ==
  /\ receiver[s] = "counting"
  /\ fiesReceived' = fiesReceived + 1
  /\ receiver' = [receiver EXCEPT ![s] = "receive"]
  /\ UNCHANGED <<handler, response, sent, got, pdsSent, configVars, wireVars, agentVars>>

\* EOF, a reset, or the handler has closed the connection.
ReceiverEnds(s) ==
  /\ receiver[s] = "receive" /\ (Gone(s) \/ handler[s] = "closed")
  /\ receiver' = [receiver EXCEPT ![s] = "ended"]
  /\ UNCHANGED <<handler, response, configVars, wireVars, countVars, agentVars>>

-----------------------------------------------------------------------------
(* The agent *)

\* Run connects and sends its AuthRequest; main's accept loop starts handleAgent.
Connect ==
  /\ agent = "off" /\ current < MaxSessions
  /\ current' = current + 1 /\ agent' = "auth"
  /\ handler' = [handler EXCEPT ![current + 1] = "auth"]
  /\ UNCHANGED <<receiver, response, workVars, pdsVars, configVars, wireVars, countVars>>

\* authenticate reads an AuthResponse with Authenticated = true.
Authenticated ==
  /\ agent = "auth" /\ response[current] = "ok"
  /\ agent' = "running"
  /\ UNCHANGED <<current, workVars, pdsVars, configVars, serverVars, wireVars, countVars>>

\* Refused, timed out, shut down or failed: Run returns.  No loop is between the
\* channel and the gauge any more; what the channels and the wire hold is
\* dropped, running Probe calls return ctx.Err().  The next Run has a new channel
\* and counter; the gauge keeps its value.
Leave ==
  /\ agent # "off" /\ Pds!Settled
  /\ agent' = "off"
  /\ both' = 0 /\ one' = 0 /\ sending' = 0 /\ fies' = 0 /\ writing' = FALSE
  /\ Pds!Renew
  /\ down' = [down EXCEPT ![current] = 0]
  /\ UNCHANGED <<up, current, configVars, serverVars, countVars>>

\* What the agent leaves for sooner or later: the orchestrator refused it or
\* closed the connection.
Dismissed == agent # "off" /\ (response[current] = "refused" \/ handler[current] = "closed")

outside == <<current, agent, configVars, serverVars, countVars>>

\* readerLoop moves a directive from the connection into pds ...
ReaderQueues ==
  /\ agent = "running" /\ down[current] > 0
  /\ Pds!Send("reader")
  /\ down' = [down EXCEPT ![current] = @ - 1]
  /\ UNCHANGED <<up, workVars, outside>>

\* ... and updates the counter and the gauge.
ReaderUpdates ==
  /\ Pds!Add("reader") \/ Pds!Load("reader") \/ Pds!Set("reader")
  /\ UNCHANGED <<workVars, wireVars, outside>>

ProcessorTakes ==
  /\ agent = "running"
  /\ Pds!Receive \/ Pds!Add("processor") \/ Pds!Load("processor")
  /\ UNCHANGED <<workVars, wireVars, outside>>

\* The gauge is set and a processPD goroutine started, with its two Probe calls.
ProcessorDispatches ==
  /\ Pds!Set("processor")
  /\ both' = both + 1
  /\ UNCHANGED <<one, sending, fies, writing, wireVars, outside>>

\* MockProber.Probe: the delay is over and a goroutine's first call returns a
\* reply or a timeout, never an error.
FirstProbeReturns ==
  /\ both > 0
  /\ both' = both - 1 /\ one' = one + 1
  /\ UNCHANGED <<sending, fies, writing, pdsVars, wireVars, outside>>

\* Faulty variant: a directive whose second probe times out yields no FIE.
SecondProbeMayFail ==
  /\ one > 0
  /\ one' = one - 1 /\ sending' \in {sending, sending + 1}
  /\ UNCHANGED <<both, fies, writing, pdsVars, wireVars, outside>>

\* So does the other, and processPD has a FIE whatever the two returned.
SecondProbeReturns ==
  /\ one > 0
  /\ one' = one - 1 /\ sending' = sending + 1
  /\ UNCHANGED <<both, fies, writing, pdsVars, wireVars, outside>>

WorkerSends ==
  /\ sending > 0 /\ fies < FIEsBufferSize
  /\ sending' = sending - 1 /\ fies' = fies + 1
  /\ UNCHANGED <<both, one, writing, pdsVars, wireVars, outside>>

WriterTakes ==
  /\ agent = "running" /\ ~writing /\ fies > 0
  /\ fies' = fies - 1 /\ writing' = TRUE
  /\ UNCHANGED <<both, one, sending, pdsVars, wireVars, outside>>

\* framing.Send of the FIE; the agent leaves when it fails or times out.
WriterSends ==
  /\ writing /\ up[current] < WireSize
  /\ writing' = FALSE
  /\ up' = [up EXCEPT ![current] = @ + 1]
  /\ UNCHANGED <<both, one, sending, fies, down, pdsVars, outside>>

-----------------------------------------------------------------------------

\* The bound on connections is reached and the last one is over.
Rest ==
  /\ current = MaxSessions /\ agent = "off"
  /\ \A s \in Sessions : handler[s] = "closed" /\ receiver[s] \in {"off", "ended"}
  /\ UNCHANGED vars

AuthStep(s)     == HandleAuth(s) \/ AuthFails(s)
SenderStep(s)   == SendPD(s) \/ CountPD(s)
ReceiverStep(s) == ReceiveFIE(s) \/ CountFIE(s) \/ ReceiverEnds(s)
ReaderStep      == ReaderQueues \/ ReaderUpdates
ProcessorStep   == ProcessorTakes \/ ProcessorDispatches
ProbeStep       == FirstProbeReturns \/ SecondProbeReturns
WriterStep      == WriterTakes \/ WriterSends

Next ==
  \/ \E s \in Sessions : AuthStep(s) \/ SenderStep(s) \/ SendFails(s) \/ ReceiverStep(s)
  \/ Connect \/ Authenticated \/ Leave
  \/ ReaderStep \/ ProcessorStep \/ ProbeStep \/ WorkerSends \/ WriterStep
  \/ Rest

Spec == Init /\ [][Next]_vars

\* Every goroutine that can run does, the ticker ticks, a Send to an agent that
\* is gone fails in the end, and a dismissed agent notices.
Fairness ==
  /\ \A s \in Sessions : /\ WF_vars(AuthStep(s)) /\ WF_vars(SenderStep(s))
                         /\ WF_vars(SendFails(s)) /\ WF_vars(ReceiverStep(s))
  /\ WF_vars(Authenticated) /\ WF_vars(Dismissed /\ Leave)
  /\ WF_vars(ReaderStep) /\ WF_vars(ProcessorStep) /\ WF_vars(WriterStep)
  /\ WF_vars(FirstProbeReturns) /\ WF_vars(SecondProbeReturns) /\ WF_vars(WorkerSends)

FairSpec == Spec /\ Fairness

-----------------------------------------------------------------------------
(* Properties *)

TypeOK ==
  /\ handler \in [Sessions -> {"none", "auth", "serving", "counting", "closed"}]
  /\ receiver \in [Sessions -> {"off", "receive", "counting", "ended"}]
  /\ response \in [Sessions -> {"none", "ok", "refused"}]
  /\ down \in [Sessions -> 0 .. WireSize] /\ up \in [Sessions -> 0 .. WireSize]
  /\ sent \in [Sessions -> 0 .. MaxPDs] /\ got \in [Sessions -> 0 .. MaxPDs]
  /\ current \in 0 .. MaxSessions /\ agent \in {"off", "auth", "running"}
  /\ {both, one, sending} \subseteq 0 .. MaxPDs
  /\ fies \in 0 .. FIEsBufferSize /\ writing \in BOOLEAN
  /\ Pds!TypeOK

\* The counters that reportStats loads are exact up to the goroutines that are
\* about to count, over all connections: answers exceed directives by no more than
\* the directives sent and not counted yet.  (This is about the counters at one
\* moment.  reportStats loads pdsSent before fiesReceived, so a rate above 100% can
\* also be due to directives counted and answered between its two loads.)
StatsSound ==
  /\ fiesReceived <= pdsSent + Counting(handler)
  /\ \A s \in Sessions : got[s] <= sent[s]

\* How many directives the agent has taken in and not answered yet.
InAgent ==
  length + (IF at["processor"] = "idle" THEN 0 ELSE 1)
  + both + one + sending + fies + (IF writing THEN 1 ELSE 0)

\* While an agent with the mock prober works, every directive sent on its
\* connection is on a wire, in the agent, or answered by exactly one FIE.
Accounted ==
  agent = "running" => sent[current] = down[current] + InAgent + up[current] + got[current]

\* Between the channel operation and the atomic update the depth counter is off
\* by exactly the updates still to come, and never for good.
DepthConserved == Pds!DepthConserved

\* The gauge shows the number of items whenever the last update ran alone.
GaugeRecovers == Pds!GaugeRecovers

\* Everything sent is answered unless the agent leaves: sending and receiving do
\* not wait for each other, although every buffer on the way has a limit.
Converges ==
  \A s \in Sessions, n \in 1 .. MaxPDs :
    sent[s] = n ~> (got[s] >= n \/ Gone(s))

\* When the agent is gone the handler closes the connection and no goroutine of
\* it is left.
HandlerEnds ==
  \A s \in Sessions :
    Gone(s) ~> (handler[s] = "closed" /\ receiver[s] \in {"off", "ended"})
=============================================================================
