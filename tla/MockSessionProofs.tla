-------------------------- MODULE MockSessionProofs -------------------------
(***************************************************************************)
(* Proofs about MockSession, for any number of connections, directives and *)
(* secrets, and any size of the buffers.                                   *)
(*                                                                         *)
(* The counters are compared with what each connection saw through the set *)
(* of pairs <<s, k>>, the k-th message of connection s: its cardinality is *)
(* the sum over the connections, and it grows by one element at a time.    *)
(***************************************************************************)
EXTENDS MockSession, FiniteSetTheorems, TLAPS

Statements == {"idle", "add", "load", "set"}
Loops      == {"reader", "processor"}

\* The types, without the bounds on what is sent.
Types ==
  /\ handler \in [Sessions -> {"none", "auth", "serving", "counting", "closed"}]
  /\ receiver \in [Sessions -> {"off", "receive", "counting", "ended"}]
  /\ response \in [Sessions -> {"none", "ok", "refused"}]
  /\ down \in [Sessions -> Nat] /\ up \in [Sessions -> Nat]
  /\ sent \in [Sessions -> Nat] /\ got \in [Sessions -> Nat]
  /\ pdsSent \in Nat /\ fiesReceived \in Nat
  /\ current \in 0 .. MaxSessions /\ agent \in {"off", "auth", "running"}
  /\ both \in Nat /\ one \in Nat /\ sending \in Nat /\ fies \in Nat /\ writing \in BOOLEAN
  /\ length \in Nat /\ depth \in Int /\ gauge \in Int
  /\ at \in [Loops -> Statements] /\ loaded \in [Loops -> Int] /\ mixed \in BOOLEAN

\* An agent that does not run holds nothing, and no loop of it is in an update.
Resting ==
  /\ agent # "off" => current # 0
  /\ agent # "running" =>
       /\ both = 0 /\ one = 0 /\ sending = 0 /\ fies = 0 /\ ~writing /\ length = 0
       /\ at["reader"] = "idle" /\ at["processor"] = "idle"

\* A connection not made yet has carried nothing, one not authenticated yet has
\* no receiver.
Fresh ==
  /\ \A s \in Sessions : handler[s] \in {"none", "auth"} => receiver[s] = "off"
  /\ \A s \in Sessions : s > current =>
       /\ handler[s] = "none"
       /\ down[s] = 0 /\ up[s] = 0 /\ sent[s] = 0 /\ got[s] = 0

\* No message is made up: on the agent's connection each directive is in one place,
\* on an earlier one some may have been dropped.
Balance ==
  /\ \A s \in Sessions : down[s] + up[s] + got[s] <= sent[s]
  /\ agent # "off" => sent[current] = down[current] + InAgent + up[current] + got[current]

Pending(g) == IF at[g] = "add" THEN 1 ELSE 0

\* The counter, with the Adds to come.
Depth == depth = length + (Pending("processor") - Pending("reader"))

\* While updates do not overlap at most one loop is in one, and it has loaded, or
\* will load, the length.
Alone ==
  ~mixed =>
    /\ at["reader"] = "idle" \/ at["processor"] = "idle"
    /\ \A g \in Loops : at[g] = "set" => loaded[g] = length
    /\ at["reader"] = "idle" /\ at["processor"] = "idle" => gauge = length

\* The messages that f counts on each connection.
Messages(f) == UNION {{<<s, k>> : k \in 1 .. f[s]} : s \in Sessions}

\* The shared counters are the sums over the connections, up to the goroutines
\* that are about to count.
Tally ==
  /\ IsFiniteSet(Messages(sent)) /\ Cardinality(Messages(sent)) = pdsSent + Counting(handler)
  /\ IsFiniteSet(Messages(got)) /\ Cardinality(Messages(got)) = fiesReceived + Counting(receiver)

\* The inductive invariant.
IInv == Types /\ Resting /\ Fresh /\ Balance /\ Depth /\ Alone /\ Tally

USE DEF vars, pdsVars, workVars, wireVars, countVars, serverVars, configVars, agentVars, outside

-----------------------------------------------------------------------------
(* Counting *)

LEMMA SessionsFinite == IsFiniteSet(Sessions)
<1>0. MaxSessions \in Nat
  BY SessionAssumption, Zenon DEF SessionAssumption
<1>1. 1 \in Int /\ MaxSessions \in Int
  BY <1>0
<1> QED
  BY <1>1, FS_Interval DEF Sessions

LEMMA CountingType ==
  ASSUME NEW f
  PROVE  IsFiniteSet({s \in Sessions : f[s] = "counting"}) /\ Counting(f) \in Nat
<1>1. IsFiniteSet({s \in Sessions : f[s] = "counting"})
  BY SessionsFinite, FS_Subset
<1> QED
  BY <1>1, FS_CardinalityType DEF Counting

\* One goroutine enters, leaves or keeps out of the statement before the count.
LEMMA CountingStep ==
  ASSUME NEW f, NEW g, NEW s \in Sessions, \A x \in Sessions : x # s => g[x] = f[x]
  PROVE  /\ f[s] # "counting" /\ g[s] = "counting" => Counting(g) = Counting(f) + 1
         /\ f[s] = "counting" /\ g[s] # "counting" => Counting(g) = Counting(f) - 1
         /\ (f[s] = "counting" <=> g[s] = "counting") => Counting(g) = Counting(f)
<1> DEFINE C(h) == {x \in Sessions : h[x] = "counting"}
<1>1. IsFiniteSet(C(f))
  BY CountingType
<1>2. f[s] # "counting" /\ g[s] = "counting" => C(g) = C(f) \cup {s} /\ s \notin C(f)
  OBVIOUS
<1>3. f[s] = "counting" /\ g[s] # "counting" => C(g) = C(f) \ {s} /\ s \in C(f)
  OBVIOUS
<1>4. (f[s] = "counting" <=> g[s] = "counting") => C(g) = C(f)
  OBVIOUS
<1>5. f[s] # "counting" /\ g[s] = "counting" => Counting(g) = Counting(f) + 1
  BY <1>1, <1>2, FS_AddElement DEF Counting
<1>6. f[s] = "counting" /\ g[s] # "counting" => Counting(g) = Counting(f) - 1
  BY <1>1, <1>3, FS_RemoveElement DEF Counting
<1> QED
  BY <1>4, <1>5, <1>6 DEF Counting

LEMMA InMessages ==
  ASSUME NEW f, NEW p
  PROVE  p \in Messages(f) <=> \E s \in Sessions : \E k \in 1 .. f[s] : p = <<s, k>>
  BY DEF Messages

\* One more message on connection s.
LEMMA MessagesStep ==
  ASSUME NEW f \in [Sessions -> Nat], NEW s \in Sessions, IsFiniteSet(Messages(f)),
         NEW g \in [Sessions -> Nat], g[s] = f[s] + 1,
         \A x \in Sessions : x # s => g[x] = f[x]
  PROVE  /\ IsFiniteSet(Messages(g))
         /\ Cardinality(Messages(g)) = Cardinality(Messages(f)) + 1
<1> DEFINE new == <<s, f[s] + 1>>
<1>1. new \notin Messages(f)
  <2> SUFFICES ASSUME new \in Messages(f)
               PROVE  FALSE
    OBVIOUS
  <2>0. PICK x \in Sessions : \E k \in 1 .. f[x] : new = <<x, k>>
    BY InMessages
  <2>1. PICK k \in 1 .. f[x] : new = <<x, k>>
    BY <2>0
  <2>2. x = s /\ k = f[s] + 1
    BY <2>1
  <2> QED
    BY <2>2
<1>3. ASSUME NEW p \in Messages(g)
      PROVE  p \in Messages(f) \cup {new}
  <2>0. PICK x \in Sessions : \E k \in 1 .. g[x] : p = <<x, k>>
    BY <1>3, InMessages
  <2>1. PICK k \in 1 .. g[x] : p = <<x, k>>
    BY <2>0
  <2>2. CASE x = s /\ k = f[s] + 1
    BY <2>1, <2>2
  <2>3. CASE ~(x = s /\ k = f[s] + 1)
    <3>1. k \in 1 .. f[x]
      BY <2>3
    <3> QED
      BY <2>1, <3>1, InMessages
  <2> QED
    BY <2>2, <2>3
<1>4. ASSUME NEW p \in Messages(f)
      PROVE  p \in Messages(g)
  <2>0. PICK x \in Sessions : \E k \in 1 .. f[x] : p = <<x, k>>
    BY <1>4, InMessages
  <2>1. PICK k \in 1 .. f[x] : p = <<x, k>>
    BY <2>0
  <2>2. k \in 1 .. g[x]
    OBVIOUS
  <2> QED
    BY <2>1, <2>2, InMessages
<1>5. new \in Messages(g)
  <2>1. f[s] + 1 \in 1 .. g[s]
    OBVIOUS
  <2> QED
    BY <2>1, InMessages
<1>6. Messages(g) = Messages(f) \cup {new}
  BY <1>3, <1>4, <1>5
<1>7. /\ IsFiniteSet(Messages(f) \cup {new})
      /\ Cardinality(Messages(f) \cup {new}) = Cardinality(Messages(f)) + 1
  BY <1>1, FS_AddElement
<1> QED
  BY <1>6, <1>7, Zenon

\* What every connection counts is in order, and so are the sums.
LEMMA MessagesOrder ==
  ASSUME NEW f \in [Sessions -> Nat], NEW g \in [Sessions -> Nat],
         IsFiniteSet(Messages(g)), \A s \in Sessions : f[s] <= g[s]
  PROVE  IsFiniteSet(Messages(f)) /\ Cardinality(Messages(f)) <= Cardinality(Messages(g))
<1>1. ASSUME NEW p \in Messages(f)
      PROVE  p \in Messages(g)
  <2>0. PICK x \in Sessions : \E k \in 1 .. f[x] : p = <<x, k>>
    BY <1>1, InMessages
  <2>1. PICK k \in 1 .. f[x] : p = <<x, k>>
    BY <2>0
  <2>2. k \in 1 .. g[x]
    OBVIOUS
  <2> QED
    BY <2>1, <2>2, InMessages
<1> QED
  BY <1>1, FS_Subset

-----------------------------------------------------------------------------
(* What a step leaves alone. *)

LEMMA Bounds == MaxSessions \in Nat \ {0}
  BY SessionAssumption, Zenon DEF SessionAssumption

\* The orchestrator's steps do not touch the agent ...
LEMMA AgentFrame ==
  ASSUME Resting, Depth, Alone, UNCHANGED agentVars
  PROVE  Resting' /\ Depth' /\ Alone' /\ InAgent' = InAgent
<1>1. Resting'
  BY DEF Resting
<1>2. Depth'
  BY DEF Depth, Pending
<1>3. Alone'
  BY DEF Alone
<1>4. InAgent' = InAgent
  BY DEF InAgent
<1> QED
  BY <1>1, <1>2, <1>3, <1>4

\* ... and the agent's steps do not touch the orchestrator ...
LEMMA ServerFrame ==
  ASSUME Tally, UNCHANGED <<serverVars, countVars>>
  PROVE  Tally'
  BY DEF Tally, Messages, Counting

\* ... and those outside the pds channel not the channel.
LEMMA ChannelFrame ==
  ASSUME Depth, Alone, UNCHANGED pdsVars
  PROVE  Depth' /\ Alone'
<1>1. Depth'
  BY DEF Depth, Pending
<1>2. Alone'
  BY DEF Alone
<1> QED
  BY <1>1, <1>2

\* The tally when messages are counted elsewhere.
LEMMA SentFrame ==
  ASSUME UNCHANGED sent
  PROVE  Messages(sent)' = Messages(sent)
  BY DEF Messages

LEMMA GotFrame ==
  ASSUME UNCHANGED got
  PROVE  Messages(got)' = Messages(got)
  BY DEF Messages

-----------------------------------------------------------------------------
(* The channel and its gauge. *)

\* Every step of the channel keeps the counter and the gauge right, and moves
\* nothing but what it sends or receives.
LEMMA ChannelStep ==
  ASSUME Types, Depth, Alone,
         NEW g \in Loops,
         \/ Pds!Send("reader") \/ Pds!Receive
         \/ Pds!Add(g) \/ Pds!Load(g) \/ Pds!Set(g)
  PROVE  /\ length' \in Nat /\ depth' \in Int /\ gauge' \in Int
         /\ at' \in [Loops -> Statements] /\ loaded' \in [Loops -> Int] /\ mixed' \in BOOLEAN
         /\ Depth' /\ Alone'
<1> USE DEF Types, Loops, Statements
<1>0. Pds!Settled <=> at["reader"] = "idle" /\ at["processor"] = "idle"
  BY DEF Pds!Settled, Pds!Goroutines
<1>1. CASE Pds!Send("reader")
  <2>1. /\ at["reader"] = "idle" /\ length' = length + 1 /\ at' = [at EXCEPT !["reader"] = "add"]
        /\ depth' = depth /\ gauge' = gauge /\ loaded' = loaded
    BY <1>1 DEF Pds!Send
  <2>2. mixed' \in BOOLEAN /\ (~mixed' => at["processor"] = "idle")
    BY <1>0, <1>1, <2>1 DEF Pds!Send
  <2>3. Depth'
    BY <2>1 DEF Depth, Pending
  <2>4. Alone'
    BY <2>1, <2>2 DEF Alone
  <2> QED
    BY <2>1, <2>2, <2>3, <2>4
<1>2. CASE Pds!Receive
  <2>1. /\ at["processor"] = "idle" /\ length > 0 /\ length' = length - 1
        /\ at' = [at EXCEPT !["processor"] = "add"]
        /\ depth' = depth /\ gauge' = gauge /\ loaded' = loaded
    BY <1>2 DEF Pds!Receive
  <2>2. mixed' \in BOOLEAN /\ (~mixed' => at["reader"] = "idle")
    BY <1>0, <1>2, <2>1 DEF Pds!Receive
  <2>3. Depth'
    BY <2>1 DEF Depth, Pending
  <2>4. Alone'
    BY <2>1, <2>2 DEF Alone
  <2> QED
    BY <2>1, <2>2, <2>3, <2>4
<1>3. CASE Pds!Add(g)
  <2>1. /\ at[g] = "add" /\ depth' = depth + (IF g = "processor" THEN -1 ELSE 1)
        /\ at' = [at EXCEPT ![g] = "load"]
        /\ length' = length /\ gauge' = gauge /\ loaded' = loaded /\ mixed' = mixed
    BY <1>3 DEF Pds!Add
  <2>2. Depth'
    BY <2>1 DEF Depth, Pending
  <2>3. Alone'
    BY <2>1 DEF Alone
  <2> QED
    BY <2>1, <2>2, <2>3
<1>4. CASE Pds!Load(g)
  <2>1. /\ at[g] = "load" /\ loaded' = [loaded EXCEPT ![g] = depth]
        /\ at' = [at EXCEPT ![g] = "set"]
        /\ length' = length /\ gauge' = gauge /\ depth' = depth /\ mixed' = mixed
    BY <1>4 DEF Pds!Load
  <2>2. Depth'
    BY <2>1 DEF Depth, Pending
  <2>3. ~mixed => depth = length
    BY <2>1 DEF Depth, Pending, Alone
  <2>4. Alone'
    BY <2>1, <2>3 DEF Alone
  <2> QED
    BY <2>1, <2>2, <2>4
<1>5. CASE Pds!Set(g)
  <2>1. /\ at[g] = "set" /\ gauge' = loaded[g] /\ loaded' = [loaded EXCEPT ![g] = 0]
        /\ at' = [at EXCEPT ![g] = "idle"]
        /\ length' = length /\ depth' = depth /\ mixed' = mixed
    BY <1>5 DEF Pds!Set
  <2>2. Depth'
    BY <2>1 DEF Depth, Pending
  <2>3. Alone'
    BY <2>1 DEF Alone
  <2> QED
    BY <2>1, <2>2, <2>3
<1> QED
  BY <1>1, <1>2, <1>3, <1>4, <1>5

-----------------------------------------------------------------------------
(* The inductive invariant. *)

LEMMA InitIInv == Init => IInv
<1> SUFFICES ASSUME Init
             PROVE  IInv
  OBVIOUS
<1>0. /\ handler = [s \in Sessions |-> "none"] /\ receiver = [s \in Sessions |-> "off"]
      /\ response = [s \in Sessions |-> "none"]
      /\ down = [s \in Sessions |-> 0] /\ up  = [s \in Sessions |-> 0]
      /\ sent = [s \in Sessions |-> 0] /\ got = [s \in Sessions |-> 0]
      /\ pdsSent = 0 /\ fiesReceived = 0 /\ current = 0 /\ agent = "off"
      /\ both = 0 /\ one = 0 /\ sending = 0 /\ fies = 0 /\ writing = FALSE
      /\ Pds!Init
  BY Zenon DEF Init
<1>1. Types
  <2>1. Pds!Goroutines = Loops
    BY DEF Pds!Goroutines, Loops
  <2>2. /\ length \in Nat /\ depth \in Int /\ gauge \in Int
        /\ at \in [Loops -> Statements] /\ loaded \in [Loops -> Int] /\ mixed \in BOOLEAN
    <3>1. mixed \in BOOLEAN
      BY <1>0, Zenon DEF Pds!Init
    <3> QED
      BY <1>0, <2>1, <3>1 DEF Pds!Init, Statements
  <2>3. writing \in BOOLEAN
    BY <1>0, Zenon
  <2> QED
    BY <1>0, <2>2, <2>3, Bounds DEF Types
<1>2. at["reader"] = "idle" /\ at["processor"] = "idle" /\ length = 0 /\ depth = 0 /\ gauge = 0
  BY <1>0 DEF Pds!Init, Pds!Goroutines
<1>3. Resting /\ Fresh /\ Depth /\ Alone
  BY <1>0, <1>2 DEF Resting, Fresh, Depth, Pending, Alone, Loops
<1>4. Balance
  BY <1>0, <1>2 DEF Balance
<1>5. Messages(sent) = {} /\ Messages(got) = {}
  <2>1. \A s \in Sessions : 1 .. sent[s] = {} /\ 1 .. got[s] = {}
    BY <1>0
  <2> QED
    BY <2>1, InMessages
<1>6. Counting(handler) = 0 /\ Counting(receiver) = 0
  <2>1. /\ {s \in Sessions : handler[s] = "counting"} = {}
        /\ {s \in Sessions : receiver[s] = "counting"} = {}
    BY DEF Init
  <2> QED
    BY <2>1, FS_EmptySet DEF Counting
<1>7. pdsSent = 0 /\ fiesReceived = 0
  BY DEF Init
<1>8. Tally
  BY <1>5, <1>6, <1>7, FS_EmptySet DEF Tally
<1> QED
  BY <1>1, <1>3, <1>4, <1>8 DEF IInv

\* A step of the orchestrator on connection s that moves no message.
LEMMA QuietServerStep ==
  ASSUME IInv, NEW s \in Sessions, s <= current,
         UNCHANGED <<configVars, wireVars, countVars, agentVars>>,
         handler' \in [Sessions -> {"none", "auth", "serving", "counting", "closed"}],
         receiver' \in [Sessions -> {"off", "receive", "counting", "ended"}],
         response' \in [Sessions -> {"none", "ok", "refused"}],
         \A x \in Sessions : x # s => handler'[x] = handler[x],
         \A x \in Sessions : x # s => receiver'[x] = receiver[x],
         handler[s] # "counting", handler'[s] \in {"serving", "closed"},
         receiver[s] = "counting" <=> receiver'[s] = "counting"
  PROVE  IInv'
<1> USE DEF IInv
<1>1. Types'
  BY DEF Types
<1>2. Resting' /\ Depth' /\ Alone' /\ InAgent' = InAgent
  BY AgentFrame
<1>3. Fresh'
  <2>1. ~(s > current) /\ current' = current
    BY Bounds DEF Types, Sessions
  <2> QED
    BY <2>1 DEF Fresh
<1>4. Balance'
  BY <1>2 DEF Balance
<1>5. Counting(handler') = Counting(handler)
  BY CountingStep
<1>6. Counting(receiver') = Counting(receiver)
  BY CountingStep
<1>7. Tally'
  BY <1>5, <1>6, SentFrame, GotFrame DEF Tally
<1> QED
  BY <1>1, <1>2, <1>3, <1>4, <1>7

\* A connection with a handler or a receiver has been made.
LEMMA Made ==
  ASSUME IInv, NEW s \in Sessions, handler[s] # "none" \/ receiver[s] # "off"
  PROVE  s <= current
  BY Bounds DEF IInv, Types, Fresh, Sessions

LEMMA AuthStepIInv ==
  ASSUME IInv, NEW s \in Sessions, AuthStep(s)
  PROVE  IInv'
<1>0. /\ handler \in [Sessions -> {"none", "auth", "serving", "counting", "closed"}]
      /\ receiver \in [Sessions -> {"off", "receive", "counting", "ended"}]
      /\ response \in [Sessions -> {"none", "ok", "refused"}]
  BY DEF IInv, Types
<1>1. handler[s] = "auth"
  BY DEF AuthStep, HandleAuth, AuthFails
<1>2. s <= current /\ receiver[s] = "off"
  BY <1>1, Made DEF IInv, Fresh
<1>3. UNCHANGED <<configVars, wireVars, countVars, agentVars>>
  BY DEF AuthStep, HandleAuth, AuthFails
<1>4. response' \in [Sessions -> {"none", "ok", "refused"}]
  BY <1>0 DEF AuthStep, HandleAuth, AuthFails
<1>5. \/ handler' = [handler EXCEPT ![s] = "serving"] /\ receiver' = [receiver EXCEPT ![s] = "receive"]
      \/ handler' = [handler EXCEPT ![s] = "closed"] /\ receiver' = [receiver EXCEPT ![s] = "off"]
  BY <1>0, <1>2 DEF AuthStep, HandleAuth, AuthFails, Close
<1>6. /\ handler' \in [Sessions -> {"none", "auth", "serving", "counting", "closed"}]
      /\ receiver' \in [Sessions -> {"off", "receive", "counting", "ended"}]
      /\ handler'[s] \in {"serving", "closed"} /\ receiver'[s] # "counting"
  BY <1>0, <1>5
<1>7. /\ \A x \in Sessions : x # s => handler'[x] = handler[x]
      /\ \A x \in Sessions : x # s => receiver'[x] = receiver[x]
  BY <1>0, <1>5
<1> QED
  BY <1>1, <1>2, <1>3, <1>4, <1>6, <1>7, QuietServerStep

LEMMA SendFailsIInv ==
  ASSUME IInv, NEW s \in Sessions, SendFails(s)
  PROVE  IInv'
<1>0. /\ handler \in [Sessions -> {"none", "auth", "serving", "counting", "closed"}]
      /\ receiver \in [Sessions -> {"off", "receive", "counting", "ended"}]
      /\ response \in [Sessions -> {"none", "ok", "refused"}]
  BY DEF IInv, Types
<1>1. /\ handler[s] = "serving" /\ handler' = [handler EXCEPT ![s] = "closed"]
      /\ UNCHANGED <<configVars, wireVars, countVars, agentVars>> /\ response' = response
      /\ receiver' = receiver
  BY DEF SendFails, Close
<1>2. s <= current
  BY <1>1, Made
<1>3. /\ handler' \in [Sessions -> {"none", "auth", "serving", "counting", "closed"}]
      /\ handler'[s] = "closed" /\ \A x \in Sessions : x # s => handler'[x] = handler[x]
  BY <1>0, <1>1
<1>4. /\ receiver' \in [Sessions -> {"off", "receive", "counting", "ended"}]
      /\ response' \in [Sessions -> {"none", "ok", "refused"}]
  BY <1>0, <1>1
<1>5. UNCHANGED <<configVars, wireVars, countVars, agentVars>>
  BY <1>1
<1> QED
  BY <1>1, <1>2, <1>3, <1>4, <1>5, QuietServerStep

LEMMA ReceiverEndsIInv ==
  ASSUME IInv, NEW s \in Sessions, ReceiverEnds(s)
  PROVE  IInv'
<1> USE DEF IInv
<1>1. /\ receiver[s] = "receive" /\ receiver' = [receiver EXCEPT ![s] = "ended"]
      /\ UNCHANGED <<handler, response, configVars, wireVars, countVars, agentVars>>
  BY DEF ReceiverEnds
<1>2. Types'
  BY <1>1 DEF Types
<1>3. Resting' /\ Depth' /\ Alone' /\ InAgent' = InAgent
  BY <1>1, AgentFrame
<1>4. Fresh'
  BY <1>1 DEF Fresh, Types
<1>5. Balance'
  BY <1>1, <1>3 DEF Balance
<1>6. Counting(receiver') = Counting(receiver)
  <2>1. receiver'[s] = "ended" /\ \A x \in Sessions : x # s => receiver'[x] = receiver[x]
    BY <1>1 DEF Types
  <2> QED
    BY <1>1, <2>1, CountingStep
<1>7. Tally'
  BY <1>1, <1>6, SentFrame, GotFrame DEF Tally
<1> QED
  BY <1>2, <1>3, <1>4, <1>5, <1>7

LEMMA SendPDIInv ==
  ASSUME IInv, NEW s \in Sessions, SendPD(s)
  PROVE  IInv'
<1> USE DEF IInv
<1>1. /\ handler[s] = "serving" /\ handler' = [handler EXCEPT ![s] = "counting"]
      /\ down' = [down EXCEPT ![s] = IF Gone(s) THEN 0 ELSE @ + 1]
      /\ sent' = [sent EXCEPT ![s] = @ + 1]
      /\ UNCHANGED <<receiver, response, up, got, pdsSent, fiesReceived, configVars, agentVars>>
  BY DEF SendPD
<1>2. s <= current
  BY <1>1, Made
<1>3. Types'
  BY <1>1 DEF Types
<1>4. Resting' /\ Depth' /\ Alone' /\ InAgent' = InAgent
  BY <1>1, AgentFrame
<1>5. Fresh'
  BY <1>1, <1>2, Bounds DEF Fresh, Types, Sessions
<1>6. InAgent \in Nat
  BY DEF InAgent, Types
<1>7. \A x \in Sessions : down'[x] + up'[x] + got'[x] <= sent'[x]
  BY <1>1 DEF Balance, Types
<1>8. agent' # "off" => sent'[current'] = down'[current'] + InAgent' + up'[current'] + got'[current']
  <2> SUFFICES ASSUME agent # "off"
               PROVE  sent'[current] = down'[current] + InAgent + up[current] + got[current]
    BY <1>1, <1>4
  <2>1. sent[current] = down[current] + InAgent + up[current] + got[current]
    BY DEF Balance
  <2>2. CASE s = current
    <3>1. ~Gone(s)
      BY <2>2, Bounds DEF Gone, Types, Sessions
    <3> QED
      BY <1>1, <1>6, <2>1, <2>2, <3>1 DEF Types
  <2>3. CASE s # current
    BY <1>1, <2>1, <2>3, Bounds DEF Types, Resting, Sessions
  <2> QED
    BY <2>2, <2>3
<1>9. Tally'
  <2>1. Counting(handler') = Counting(handler) + 1
    <3>1. handler'[s] = "counting" /\ \A x \in Sessions : x # s => handler'[x] = handler[x]
      BY <1>1 DEF Types
    <3> QED
      BY <1>1, <3>1, CountingStep
  <2>2. IsFiniteSet(Messages(sent)') /\ Cardinality(Messages(sent)') = Cardinality(Messages(sent)) + 1
    <3>1. sent \in [Sessions -> Nat] /\ sent' \in [Sessions -> Nat]
      BY <1>3 DEF Types
    <3>2. sent'[s] = sent[s] + 1 /\ \A x \in Sessions : x # s => sent'[x] = sent[x]
      BY <1>1, <3>1
    <3>3. IsFiniteSet(Messages(sent))
      BY DEF Tally
    <3>4. IsFiniteSet(Messages(sent')) /\ Cardinality(Messages(sent')) = Cardinality(Messages(sent)) + 1
      BY <3>1, <3>2, <3>3, MessagesStep
    <3> QED
      BY <3>4 DEF Messages
  <2>3. Counting(handler) \in Nat /\ pdsSent \in Nat
    BY CountingType DEF Types
  <2> QED
    BY <1>1, <2>1, <2>2, <2>3, GotFrame DEF Tally
<1> QED
  BY <1>3, <1>4, <1>5, <1>7, <1>8, <1>9 DEF Balance

LEMMA CountPDIInv ==
  ASSUME IInv, NEW s \in Sessions, CountPD(s)
  PROVE  IInv'
<1> USE DEF IInv
<1>1. /\ handler[s] = "counting" /\ handler' = [handler EXCEPT ![s] = "serving"]
      /\ pdsSent' = pdsSent + 1
      /\ UNCHANGED <<receiver, response, sent, got, fiesReceived, configVars, wireVars, agentVars>>
  BY DEF CountPD
<1>2. s <= current
  BY <1>1, Made
<1>3. Types'
  BY <1>1 DEF Types
<1>4. Resting' /\ Depth' /\ Alone' /\ InAgent' = InAgent
  BY <1>1, AgentFrame
<1>5. Fresh'
  BY <1>1, <1>2, Bounds DEF Fresh, Types, Sessions
<1>6. Balance'
  BY <1>1, <1>4 DEF Balance
<1>7. Counting(handler') = Counting(handler) - 1
  <2>1. handler'[s] = "serving" /\ \A x \in Sessions : x # s => handler'[x] = handler[x]
    BY <1>1 DEF Types
  <2> QED
    BY <1>1, <2>1, CountingStep
<1>8. Counting(handler) \in Nat /\ pdsSent \in Nat
  BY CountingType DEF Types
<1>9. Tally'
  BY <1>1, <1>7, <1>8, SentFrame, GotFrame DEF Tally
<1> QED
  BY <1>3, <1>4, <1>5, <1>6, <1>9

LEMMA ReceiveFIEIInv ==
  ASSUME IInv, NEW s \in Sessions, ReceiveFIE(s)
  PROVE  IInv'
<1> USE DEF IInv
<1>1. /\ receiver[s] = "receive" /\ up[s] > 0 /\ receiver' = [receiver EXCEPT ![s] = "counting"]
      /\ up' = [up EXCEPT ![s] = @ - 1] /\ got' = [got EXCEPT ![s] = @ + 1]
      /\ UNCHANGED <<handler, response, down, sent, pdsSent, fiesReceived, configVars, agentVars>>
  BY DEF ReceiveFIE
<1>2. s <= current
  BY <1>1, Made
<1>3. Types'
  BY <1>1 DEF Types
<1>4. Resting' /\ Depth' /\ Alone' /\ InAgent' = InAgent
  BY <1>1, AgentFrame
<1>5. Fresh'
  BY <1>1, <1>2, Bounds DEF Fresh, Types, Sessions
<1>6. InAgent \in Nat
  BY DEF InAgent, Types
<1>7. \A x \in Sessions : up'[x] + got'[x] = up[x] + got[x]
  BY <1>1 DEF Types
<1>8. \A x \in Sessions : down'[x] + up'[x] + got'[x] <= sent'[x]
  BY <1>1, <1>3, <1>7 DEF Balance, Types
<1>9. agent' # "off" => sent'[current'] = down'[current'] + InAgent' + up'[current'] + got'[current']
  <2> SUFFICES ASSUME agent # "off"
               PROVE  sent[current] = down[current] + InAgent + up'[current] + got'[current]
    BY <1>1, <1>4
  <2>1. current \in Sessions
    BY Bounds DEF Resting, Types, Sessions
  <2>2. sent[current] = down[current] + InAgent + up[current] + got[current]
    BY DEF Balance
  <2>3. /\ up[current] \in Nat /\ got[current] \in Nat /\ down[current] \in Nat
        /\ up'[current] \in Nat /\ got'[current] \in Nat
    BY <1>3, <2>1 DEF Types
  <2> QED
    BY <1>6, <1>7, <2>1, <2>2, <2>3
<1>10. Tally'
  <2>1. Counting(receiver') = Counting(receiver) + 1
    <3>1. receiver'[s] = "counting" /\ \A x \in Sessions : x # s => receiver'[x] = receiver[x]
      BY <1>1 DEF Types
    <3> QED
      BY <1>1, <3>1, CountingStep
  <2>2. IsFiniteSet(Messages(got)') /\ Cardinality(Messages(got)') = Cardinality(Messages(got)) + 1
    <3>1. got \in [Sessions -> Nat] /\ got' \in [Sessions -> Nat]
      BY <1>3 DEF Types
    <3>2. got'[s] = got[s] + 1 /\ \A x \in Sessions : x # s => got'[x] = got[x]
      BY <1>1, <3>1
    <3>3. IsFiniteSet(Messages(got))
      BY DEF Tally
    <3>4. IsFiniteSet(Messages(got')) /\ Cardinality(Messages(got')) = Cardinality(Messages(got)) + 1
      BY <3>1, <3>2, <3>3, MessagesStep
    <3> QED
      BY <3>4 DEF Messages
  <2>3. Counting(receiver) \in Nat /\ fiesReceived \in Nat
    BY CountingType DEF Types
  <2> QED
    BY <1>1, <2>1, <2>2, <2>3, SentFrame DEF Tally
<1> QED
  BY <1>3, <1>4, <1>5, <1>8, <1>9, <1>10 DEF Balance

LEMMA CountFIEIInv ==
  ASSUME IInv, NEW s \in Sessions, CountFIE(s)
  PROVE  IInv'
<1> USE DEF IInv
<1>1. /\ receiver[s] = "counting" /\ receiver' = [receiver EXCEPT ![s] = "receive"]
      /\ fiesReceived' = fiesReceived + 1
      /\ UNCHANGED <<handler, response, sent, got, pdsSent, configVars, wireVars, agentVars>>
  BY DEF CountFIE
<1>2. Types'
  BY <1>1 DEF Types
<1>3. Resting' /\ Depth' /\ Alone' /\ InAgent' = InAgent
  BY <1>1, AgentFrame
<1>4. Fresh'
  BY <1>1 DEF Fresh, Types
<1>5. Balance'
  BY <1>1, <1>3 DEF Balance
<1>6. Counting(receiver') = Counting(receiver) - 1
  <2>1. receiver'[s] = "receive" /\ \A x \in Sessions : x # s => receiver'[x] = receiver[x]
    BY <1>1 DEF Types
  <2> QED
    BY <1>1, <2>1, CountingStep
<1>7. Counting(receiver) \in Nat /\ fiesReceived \in Nat
  BY CountingType DEF Types
<1>8. Tally'
  BY <1>1, <1>6, <1>7, SentFrame, GotFrame DEF Tally
<1> QED
  BY <1>2, <1>3, <1>4, <1>5, <1>8

-----------------------------------------------------------------------------
(* The agent's steps. *)

LEMMA ConnectIInv == ASSUME IInv, Connect PROVE IInv'
<1> USE DEF IInv
<1>1. /\ agent = "off" /\ current < MaxSessions /\ current' = current + 1 /\ agent' = "auth"
      /\ handler' = [handler EXCEPT ![current + 1] = "auth"]
      /\ UNCHANGED <<receiver, response, workVars, pdsVars, configVars, wireVars, countVars>>
  BY DEF Connect
<1>2. current + 1 \in Sessions /\ current + 1 > current
  BY <1>1, Bounds DEF Types, Sessions
<1>3. /\ handler[current + 1] = "none" /\ down[current + 1] = 0 /\ up[current + 1] = 0
      /\ sent[current + 1] = 0 /\ got[current + 1] = 0
  BY <1>2 DEF Fresh
<1>4. Types'
  <2>1. current' \in 0 .. MaxSessions
    BY <1>1, Bounds DEF Types
  <2> QED
    BY <1>1, <1>2, <2>1 DEF Types
<1>5. Resting'
  BY <1>1, <1>2 DEF Resting, Types
<1>6. Fresh'
  BY <1>1, <1>2, <1>3, Bounds DEF Fresh, Types, Sessions
<1>7. Balance'
  <2>1. InAgent' = 0
    BY <1>1, <1>5 DEF Resting, InAgent
  <2> QED
    BY <1>1, <1>3, <2>1 DEF Balance
<1>8. Depth' /\ Alone'
  BY <1>1, ChannelFrame
<1>9. Counting(handler') = Counting(handler)
  <2>1. /\ handler'[current + 1] = "auth"
        /\ \A x \in Sessions : x # current + 1 => handler'[x] = handler[x]
    BY <1>1, <1>2 DEF Types
  <2> QED
    BY <1>2, <1>3, <2>1, CountingStep
<1>10. Tally'
  BY <1>1, <1>9, SentFrame, GotFrame DEF Tally
<1> QED
  BY <1>4, <1>5, <1>6, <1>7, <1>8, <1>10

LEMMA AuthenticatedIInv == ASSUME IInv, Authenticated PROVE IInv'
<1> USE DEF IInv
<1>1. /\ agent = "auth" /\ agent' = "running"
      /\ UNCHANGED <<current, workVars, pdsVars, configVars, serverVars, wireVars, countVars>>
  BY DEF Authenticated
<1>2. Types' /\ Resting' /\ Fresh'
  BY <1>1 DEF Types, Resting, Fresh
<1>3. InAgent' = InAgent
  BY <1>1 DEF InAgent
<1>4. Balance'
  BY <1>1, <1>3 DEF Balance
<1>5. Depth' /\ Alone' /\ Tally'
  BY <1>1, ChannelFrame, ServerFrame
<1> QED
  BY <1>2, <1>4, <1>5

LEMMA LeaveIInv == ASSUME IInv, Leave PROVE IInv'
<1> USE DEF IInv
<1>1. /\ agent # "off" /\ agent' = "off" /\ down' = [down EXCEPT ![current] = 0]
      /\ both' = 0 /\ one' = 0 /\ sending' = 0 /\ fies' = 0 /\ writing' = FALSE
      /\ UNCHANGED <<up, current, configVars, serverVars, countVars>>
      /\ length' = 0 /\ depth' = 0 /\ mixed' = TRUE /\ gauge' = gauge
      /\ at' = [g \in Loops |-> "idle"] /\ loaded' = [g \in Loops |-> 0]
  BY DEF Leave, Pds!Renew, Pds!Goroutines, Loops
<1>2. writing' \in BOOLEAN /\ mixed' \in BOOLEAN
  BY <1>1, Zenon
<1>3. Types'
  <2>1. at' \in [Loops -> Statements] /\ loaded' \in [Loops -> Int]
    BY <1>1 DEF Statements
  <2>2. down' \in [Sessions -> Nat]
    BY <1>1 DEF Types
  <2> QED
    BY <1>1, <1>2, <2>1, <2>2 DEF Types
<1>4. Resting' /\ Depth' /\ Alone'
  BY <1>1 DEF Resting, Depth, Pending, Alone, Loops
<1>5. current \in Sessions
  BY <1>1, Bounds DEF Resting, Types, Sessions
<1>6. Fresh'
  BY <1>1, <1>5 DEF Fresh, Types, Sessions
<1>7. Balance'
  BY <1>1, <1>5 DEF Balance, Types
<1>8. Tally'
  BY <1>1, ServerFrame
<1> QED
  BY <1>3, <1>4, <1>6, <1>7, <1>8

LEMMA InAgentType ==
  /\ Types => InAgent \in Nat
  /\ Types' => InAgent' \in Nat
<1>1. Types => InAgent \in Nat
  BY DEF InAgent, Types
<1>2. ASSUME Types'
      PROVE  InAgent' \in Nat
  <2>1. /\ length' \in Nat /\ both' \in Nat /\ one' \in Nat /\ sending' \in Nat /\ fies' \in Nat
    BY <1>2 DEF Types
  <2>2. PICK w \in Nat : w = IF writing' THEN 1 ELSE 0
    OBVIOUS
  <2>3. PICK p \in Nat : p = IF at'["processor"] = "idle" THEN 0 ELSE 1
    OBVIOUS
  <2>4. InAgent' = length' + p + both' + one' + sending' + fies' + w
    BY <2>2, <2>3, Zenon DEF InAgent
  <2>5. \A a, b \in Nat : a + b \in Nat
    OBVIOUS
  <2>6. length' + p + both' + one' \in Nat
    BY <2>1, <2>2, <2>3, <2>5, Zenon
  <2>7. length' + p + both' + one' + sending' + fies' + w \in Nat
    BY <2>1, <2>2, <2>3, <2>5, <2>6, Zenon
  <2> QED
    BY <2>4, <2>7, Zenon
<1> QED
  BY <1>1, <1>2

\* A step of the agent at work: it moves messages along its own connection.
LEMMA WorkStep ==
  ASSUME IInv, UNCHANGED outside, agent = "running", Types', Depth', Alone',
         \A x \in Sessions : x # current => down'[x] = down[x] /\ up'[x] = up[x],
         down'[current] + InAgent' + up'[current] = down[current] + InAgent + up[current]
  PROVE  IInv'
<1> USE DEF IInv
<1>1. current \in Sessions
  BY Bounds DEF Resting, Types, Sessions
<1>2. Resting'
  BY DEF Resting
<1>3. Fresh'
  <2>1. \A x \in Sessions : x > current => x # current
    BY Bounds DEF Types, Sessions
  <2>2. current' = current /\ handler' = handler /\ receiver' = receiver /\ sent' = sent /\ got' = got
    OBVIOUS
  <2> QED
    BY <2>1, <2>2 DEF Fresh
<1>4. InAgent \in Nat /\ InAgent' \in Nat
  BY InAgentType
<1>5. /\ down[current] \in Nat /\ up[current] \in Nat /\ sent[current] \in Nat /\ got[current] \in Nat
      /\ down'[current] \in Nat /\ up'[current] \in Nat
      /\ sent[current] = down[current] + InAgent + up[current] + got[current]
  BY <1>1 DEF Types, Balance
<1>6. sent[current] = down'[current] + InAgent' + up'[current] + got[current]
  BY <1>4, <1>5
<1>7. down'[current] + up'[current] + got[current] <= sent[current]
  BY <1>4, <1>5, <1>6
<1>8. Balance'
  BY <1>6, <1>7 DEF Balance
<1>9. Tally'
  BY ServerFrame
<1> QED
  BY <1>2, <1>3, <1>8, <1>9

\* Such a step that leaves the wires alone.
LEMMA InnerStep ==
  ASSUME IInv, UNCHANGED <<wireVars, outside>>, agent = "running", Types',
         InAgent' = InAgent, Depth', Alone'
  PROVE  IInv'
<1>1. /\ \A x \in Sessions : x # current => down'[x] = down[x] /\ up'[x] = up[x]
      /\ down'[current] + InAgent' + up'[current] = down[current] + InAgent + up[current]
      /\ UNCHANGED outside
  OBVIOUS
<1> QED
  BY <1>1, WorkStep

\* A loop in an update, a goroutine of processPD or a FIE to write: the agent runs.
LEMMA AtWork ==
  ASSUME IInv
  PROVE  /\ \A g \in Loops : at[g] # "idle" => agent = "running"
         /\ both > 0 \/ one > 0 \/ sending > 0 \/ writing => agent = "running"
  BY DEF IInv, Resting, Types, Loops

LEMMA ReaderQueuesIInv == ASSUME IInv, ReaderQueues PROVE IInv'
<1> USE DEF IInv
<1>1. /\ agent = "running" /\ down[current] > 0 /\ Pds!Send("reader")
      /\ down' = [down EXCEPT ![current] = @ - 1] /\ UNCHANGED <<up, workVars, outside>>
  BY DEF ReaderQueues
<1>2. /\ length' \in Nat /\ depth' \in Int /\ gauge' \in Int
      /\ at' \in [Loops -> Statements] /\ loaded' \in [Loops -> Int] /\ mixed' \in BOOLEAN
      /\ Depth' /\ Alone'
  BY <1>1, ChannelStep DEF Loops
<1>3. current \in Sessions
  BY <1>1, Bounds DEF Resting, Types, Sessions
<1>4. down' \in [Sessions -> Nat]
  BY <1>1, <1>3 DEF Types
<1>5. Types'
  BY <1>1, <1>2, <1>4 DEF Types
<1>6. length' = length + 1 /\ at'["processor"] = at["processor"]
  BY <1>1 DEF Pds!Send, Types, Loops
<1>7. InAgent' = InAgent + 1 /\ InAgent \in Nat
  BY <1>1, <1>6, InAgentType DEF InAgent, Types
<1>8. /\ \A x \in Sessions : x # current => down'[x] = down[x] /\ up'[x] = up[x]
      /\ down'[current] = down[current] - 1 /\ down[current] \in Nat
      /\ up'[current] = up[current] /\ up[current] \in Nat
  BY <1>1, <1>3 DEF Types
<1>9. down'[current] + InAgent' + up'[current] = down[current] + InAgent + up[current]
  BY <1>7, <1>8
<1> QED
  BY <1>1, <1>2, <1>5, <1>8, <1>9, WorkStep

LEMMA ReaderUpdatesIInv == ASSUME IInv, ReaderUpdates PROVE IInv'
<1> USE DEF IInv
<1>1. /\ Pds!Add("reader") \/ Pds!Load("reader") \/ Pds!Set("reader")
      /\ UNCHANGED <<workVars, wireVars, outside>>
  BY DEF ReaderUpdates
<1>2. /\ length' \in Nat /\ depth' \in Int /\ gauge' \in Int
      /\ at' \in [Loops -> Statements] /\ loaded' \in [Loops -> Int] /\ mixed' \in BOOLEAN
      /\ Depth' /\ Alone'
  BY <1>1, ChannelStep DEF Loops
<1>3. Types'
  BY <1>1, <1>2 DEF Types
<1>4. length' = length /\ at'["processor"] = at["processor"] /\ at["reader"] # "idle"
  BY <1>1 DEF Pds!Add, Pds!Load, Pds!Set, Types, Loops
<1>5. InAgent' = InAgent
  BY <1>1, <1>4 DEF InAgent
<1>6. agent = "running"
  BY <1>4, AtWork DEF Loops
<1> QED
  BY <1>1, <1>2, <1>3, <1>5, <1>6, InnerStep

LEMMA ProcessorTakesIInv == ASSUME IInv, ProcessorTakes PROVE IInv'
<1> USE DEF IInv
<1>1. /\ agent = "running"
      /\ Pds!Receive \/ Pds!Add("processor") \/ Pds!Load("processor")
      /\ UNCHANGED <<workVars, wireVars, outside>>
  BY DEF ProcessorTakes
<1>2. /\ length' \in Nat /\ depth' \in Int /\ gauge' \in Int
      /\ at' \in [Loops -> Statements] /\ loaded' \in [Loops -> Int] /\ mixed' \in BOOLEAN
      /\ Depth' /\ Alone'
  BY <1>1, ChannelStep DEF Loops
<1>3. Types'
  BY <1>1, <1>2 DEF Types
<1>4. \/ length' = length - 1 /\ at["processor"] = "idle" /\ at'["processor"] = "add"
      \/ length' = length /\ at["processor"] # "idle" /\ at'["processor"] # "idle"
  BY <1>1 DEF Pds!Receive, Pds!Add, Pds!Load, Types, Loops
<1>5. InAgent' = InAgent
  BY <1>1, <1>4 DEF InAgent, Types
<1> QED
  BY <1>1, <1>2, <1>3, <1>5, InnerStep

LEMMA ProcessorDispatchesIInv == ASSUME IInv, ProcessorDispatches PROVE IInv'
<1> USE DEF IInv
<1>1. /\ Pds!Set("processor") /\ both' = both + 1
      /\ UNCHANGED <<one, sending, fies, writing, wireVars, outside>>
  BY DEF ProcessorDispatches
<1>2. /\ length' \in Nat /\ depth' \in Int /\ gauge' \in Int
      /\ at' \in [Loops -> Statements] /\ loaded' \in [Loops -> Int] /\ mixed' \in BOOLEAN
      /\ Depth' /\ Alone'
  BY <1>1, ChannelStep DEF Loops
<1>3. Types'
  BY <1>1, <1>2 DEF Types
<1>4. length' = length /\ at["processor"] = "set" /\ at'["processor"] = "idle"
  BY <1>1 DEF Pds!Set, Types, Loops
<1>5. InAgent' = InAgent
  BY <1>1, <1>4 DEF InAgent, Types
<1>6. agent = "running"
  BY <1>4, AtWork DEF Loops
<1> QED
  BY <1>1, <1>2, <1>3, <1>5, <1>6, InnerStep

LEMMA ProbeAndWorkerIInv ==
  ASSUME IInv, FirstProbeReturns \/ SecondProbeReturns \/ WorkerSends \/ WriterTakes
  PROVE  IInv'
<1> USE DEF IInv
<1>1. UNCHANGED <<wireVars, outside>> /\ UNCHANGED pdsVars
  BY DEF FirstProbeReturns, SecondProbeReturns, WorkerSends, WriterTakes
<1>2. agent = "running"
  BY AtWork DEF FirstProbeReturns, SecondProbeReturns, WorkerSends, WriterTakes
<1>3. Depth' /\ Alone'
  BY <1>1, ChannelFrame
<1>4. CASE FirstProbeReturns
  <2>1. Types'
    BY <1>1, <1>4 DEF FirstProbeReturns, Types
  <2>2. InAgent' = InAgent
    BY <1>1, <1>4 DEF FirstProbeReturns, Types, InAgent
  <2> QED
    BY <1>1, <1>2, <1>3, <2>1, <2>2, InnerStep
<1>5. CASE SecondProbeReturns
  <2>1. Types'
    BY <1>1, <1>5 DEF SecondProbeReturns, Types
  <2>2. InAgent' = InAgent
    BY <1>1, <1>5 DEF SecondProbeReturns, Types, InAgent
  <2> QED
    BY <1>1, <1>2, <1>3, <2>1, <2>2, InnerStep
<1>6. CASE WorkerSends
  <2>1. Types'
    BY <1>1, <1>6 DEF WorkerSends, Types
  <2>2. InAgent' = InAgent
    BY <1>1, <1>6 DEF WorkerSends, Types, InAgent
  <2> QED
    BY <1>1, <1>2, <1>3, <2>1, <2>2, InnerStep
<1>7. CASE WriterTakes
  <2>1. /\ ~writing /\ fies > 0 /\ fies' = fies - 1 /\ writing' = TRUE
        /\ UNCHANGED <<both, one, sending>>
    BY <1>7 DEF WriterTakes
  <2>2. writing' \in BOOLEAN
    BY <2>1, Zenon
  <2>3. Types'
    BY <1>1, <2>1, <2>2 DEF Types
  <2>4. InAgent' = InAgent
    BY <1>1, <2>1 DEF Types, InAgent
  <2> QED
    BY <1>1, <1>2, <1>3, <2>3, <2>4, InnerStep
<1> QED
  BY <1>4, <1>5, <1>6, <1>7

LEMMA WriterSendsIInv == ASSUME IInv, WriterSends PROVE IInv'
<1> USE DEF IInv
<1>1. /\ writing /\ writing' = FALSE /\ up' = [up EXCEPT ![current] = @ + 1]
      /\ UNCHANGED <<both, one, sending, fies, down, pdsVars, outside>>
  BY DEF WriterSends
<1>2. agent = "running"
  BY <1>1, AtWork
<1>3. Depth' /\ Alone'
  BY <1>1, ChannelFrame
<1>4. current \in Sessions
  BY <1>2, Bounds DEF Resting, Types, Sessions
<1>5. up' \in [Sessions -> Nat]
  BY <1>1, <1>4 DEF Types
<1>6. writing' \in BOOLEAN
  BY <1>1, Zenon
<1>7. Types'
  BY <1>1, <1>5, <1>6 DEF Types
<1>8. InAgent' = InAgent - 1 /\ InAgent \in Nat
  BY <1>1, InAgentType DEF InAgent, Types
<1>9. /\ \A x \in Sessions : x # current => down'[x] = down[x] /\ up'[x] = up[x]
      /\ down'[current] = down[current] /\ down[current] \in Nat
      /\ up'[current] = up[current] + 1 /\ up[current] \in Nat
  BY <1>1, <1>4 DEF Types
<1>10. down'[current] + InAgent' + up'[current] = down[current] + InAgent + up[current]
  BY <1>8, <1>9
<1> QED
  BY <1>1, <1>2, <1>3, <1>7, <1>9, <1>10, WorkStep

LEMMA StutterIInv == ASSUME IInv, UNCHANGED vars PROVE IInv'
<1> USE DEF IInv
<1>1. Types' /\ Fresh'
  BY DEF Types, Fresh
<1>2. Resting' /\ Depth' /\ Alone' /\ InAgent' = InAgent
  BY AgentFrame
<1>3. Balance'
  BY <1>2 DEF Balance
<1>4. Tally'
  BY ServerFrame
<1> QED
  BY <1>1, <1>2, <1>3, <1>4

LEMMA StepIInv == IInv /\ [Next]_vars => IInv'
<1> SUFFICES ASSUME IInv, [Next]_vars
             PROVE  IInv'
  OBVIOUS
<1>1. ASSUME NEW s \in Sessions, AuthStep(s) \/ SenderStep(s) \/ SendFails(s) \/ ReceiverStep(s)
      PROVE  IInv'
  BY <1>1, AuthStepIInv, SendPDIInv, CountPDIInv, SendFailsIInv, ReceiveFIEIInv, CountFIEIInv,
     ReceiverEndsIInv
  DEF SenderStep, ReceiverStep
<1>2. CASE Connect \/ Authenticated \/ Leave
  BY <1>2, ConnectIInv, AuthenticatedIInv, LeaveIInv
<1>3. CASE ReaderStep \/ ProcessorStep
  BY <1>3, ReaderQueuesIInv, ReaderUpdatesIInv, ProcessorTakesIInv, ProcessorDispatchesIInv
  DEF ReaderStep, ProcessorStep
<1>4. CASE ProbeStep \/ WorkerSends \/ WriterStep
  BY <1>4, ProbeAndWorkerIInv, WriterSendsIInv DEF ProbeStep, WriterStep
<1>5. CASE Rest \/ UNCHANGED vars
  BY <1>5, StutterIInv DEF Rest
<1> QED
  BY <1>1, <1>2, <1>3, <1>4, <1>5 DEF Next

\* The bookkeeping of the agent, the channel and the orchestrator in every state.
THEOREM Invariance == Spec => []IInv
  BY InitIInv, StepIInv, PTL DEF Spec

-----------------------------------------------------------------------------
(* The properties of the runs. *)

\* At every moment fiesReceived exceeds pdsSent by no more than the directives sent
\* and not counted yet: the two counters, shared by any number of handlers and
\* receivers, are the sums of what the connections carried.
THEOREM SoundStats == Spec => []StatsSound
<1>1. IInv => StatsSound
  <2> SUFFICES ASSUME IInv
               PROVE  StatsSound
    OBVIOUS
  <2>1. sent \in [Sessions -> Nat] /\ got \in [Sessions -> Nat]
    BY DEF IInv, Types
  <2>2. \A s \in Sessions : got[s] <= sent[s]
    BY DEF IInv, Types, Balance
  <2>3. Cardinality(Messages(got)) <= Cardinality(Messages(sent))
    BY <2>1, <2>2, MessagesOrder DEF IInv, Tally
  <2>4. Counting(handler) \in Nat /\ Counting(receiver) \in Nat /\ fiesReceived \in Nat /\ pdsSent \in Nat
    BY CountingType DEF IInv, Types
  <2>5. fiesReceived + Counting(receiver) <= pdsSent + Counting(handler)
    BY <2>3 DEF IInv, Tally
  <2>6. fiesReceived <= pdsSent + Counting(handler)
    BY <2>4, <2>5
  <2> QED
    BY <2>2, <2>6 DEF StatsSound
<1> QED
  BY <1>1, Invariance, PTL

\* A working agent with the mock prober loses and duplicates no directive: whatever
\* the sizes of pds, fies and the connection's buffers.
THEOREM AllAccounted == Spec => []Accounted
<1>1. IInv => Accounted
  BY DEF IInv, Balance, Accounted
<1> QED
  BY <1>1, Invariance, PTL

\* The depth counter of the pds channel is off by exactly the Adds still to come.
THEOREM DepthNeverDrifts == Spec => []DepthConserved
<1>1. IInv => DepthConserved
  <2> SUFFICES ASSUME IInv
               PROVE  DepthConserved
    OBVIOUS
  <2> DEFINE A == {p \in {"reader"} : at[p] = "add"}
  <2>1. at["reader"] = "add" => A = {"reader"}
    OBVIOUS
  <2>2. at["reader"] # "add" => A = {}
    OBVIOUS
  <2>3. Cardinality(A) = Pending("reader")
    BY <2>1, <2>2, FS_EmptySet, FS_Singleton DEF Pending
  <2>4. depth = length - Pending("reader") + Pending("processor")
    BY DEF IInv, Depth, Types, Pending
  <2>5. depth = length - Cardinality(A) + Pending("processor")
    BY <2>3, <2>4
  <2>6. Pds!Cardinality(A) = Cardinality(A)
    BY Zenon DEF Pds!Cardinality, Cardinality
  <2> QED
    BY <2>5, <2>6 DEF DepthConserved, Pds!DepthConserved, Pending
<1> QED
  BY <1>1, Invariance, PTL

\* The ChannelDepth gauge is right at rest once an update has run alone, over any
\* number of reconnections.
THEOREM GaugeRepaired == Spec => []GaugeRecovers
<1>1. IInv => GaugeRecovers
  BY DEF IInv, Alone, GaugeRecovers, Pds!GaugeRecovers, Pds!Settled, Pds!Goroutines
<1> QED
  BY <1>1, Invariance, PTL
=============================================================================
