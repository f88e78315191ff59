--------------------------- MODULE ProbeKeyProofs ---------------------------
(***************************************************************************)
(* Proofs about ProbeKey and DirectiveGenerator, for any directives, any   *)
(* unit of caracal's round trip times, any delay, and every counter of the *)
(* mock orchestrator.                                                      *)
(***************************************************************************)
EXTENDS DirectiveGenerator, TLAPS

\* The line for directive d at TTL t, as encodeAndSendProbe writes it.
LineOf(d, t) ==
  [dst |-> IPString(d.dst), first |-> extractHalfWords(d)[1],
   second |-> extractHalfWords(d)[2], ttl |-> t, protocol |-> protocolToString(d.protocol)]

\* The record caracal prints for line l sent at second zero plus time left, with
\* a reply delay later.
RecordOf(l, left, delay, form, fault) ==
  [complete |-> fault # "short", dst |-> [name |-> l.dst.name, form |-> form],
   first |-> l.first, second |-> l.second, ttl |-> l.ttl,
   protocol |-> ProtocolNumber(l.protocol),
   capture |-> IF fault = "noCapture" THEN None ELSE left + delay,
   rtt |-> IF fault = "noRTT" THEN None ELSE delay \div RTTUnit]

Faults == {"none", "short", "noCapture", "noRTT"}

\* What is known of the probe at each stage of its way.
Way ==
  /\ stage # "idle" => pd \in Directives
  /\ stage \in {"accepted", "keyed", "queued", "sent", "done"} => validatePD(pd)
  /\ stage = "refused" => ~validatePD(pd)
  /\ stage \in {"keyed", "queued", "sent", "done"} =>
       /\ ttl \in ProbeTTLs(pd) /\ clock \in 0 .. SecondUs - 1
       /\ key = buildProbeKeyFromDirective(pd, ttl, SecondOf(clock))
  /\ stage \in {"queued", "sent", "done"} => line = LineOf(pd, ttl)
  /\ stage \in {"sent", "done"} =>
       \E wait \in 0 .. MaxQueueing, delay \in 0 .. MaxDelay, form \in Forms, fault \in Faults :
         record = RecordOf(line, clock + wait, delay, form, fault)
  /\ stage = "done" => found = handleResult(record)

\* The inductive invariant.
IInv == TypeOK /\ Way

USE DEF vars

-----------------------------------------------------------------------------
(* Facts about the operators. *)

LEMMA Widths == 2^16 = 65536 /\ 2^8 = 256
  OBVIOUS

\* What validatePD lets through: a TTL with a successor, the header of its protocol.
LEMMA ValidFacts ==
  ASSUME NEW d, d.near \in TTLs, validatePD(d)
  PROVE  /\ d.near \in 1 .. 254
         /\ d.protocol \in {"icmp", "icmp6", "udp"} /\ d.kind = d.protocol
         /\ extractHalfWords(d) = <<d.first % 65536, d.second % 65536>>
         /\ ProbeTTLs(d) = {d.near, d.near + 1}
<1>1. d.near # 0 /\ d.near # 255
  BY DEF validatePD
<1>2. d.near \in 1 .. 254
  BY <1>1 DEF TTLs
<1>3. d.protocol \in {"icmp", "icmp6", "udp"} /\ d.kind = d.protocol
  BY DEF validatePD, Header
<1>4. extractHalfWords(d) = <<d.first % 65536, d.second % 65536>>
  BY <1>3, Widths DEF extractHalfWords, Header
<1>5. (d.near + 1) % 2^8 = d.near + 1
  BY <1>2, Widths
<1> QED
  BY <1>2, <1>3, <1>4, <1>5 DEF ProbeTTLs

LEMMA HalfWordFacts ==
  ASSUME NEW n \in Nat
  PROVE  /\ n % 65536 \in HalfWords
         /\ n \in HalfWords => n % 65536 = n
  BY Widths DEF HalfWords

LEMMA DirectiveFields ==
  ASSUME NEW d \in Directives
  PROVE  /\ d.near \in TTLs /\ d.first \in Nat /\ d.second \in Nat
         /\ d.first % 65536 \in HalfWords /\ d.second % 65536 \in HalfWords
<1>1. d.near \in TTLs /\ d.first \in Nat /\ d.second \in Nat
  BY KeyAssumption DEF KeyAssumption
<1> QED
  BY <1>1, HalfWordFacts

\* The key of a directive that passed validatePD.
LEMMA DirectiveKey ==
  ASSUME NEW d, d.near \in TTLs, validatePD(d), NEW t \in ProbeTTLs(d), NEW s \in Int
  PROVE  /\ t \in 1 .. 255
         /\ buildProbeKeyFromDirective(d, t, s) =
              [dstAddr |-> [name |-> d.dst.name, form |-> "plain"],
               first |-> d.first % 65536, second |-> d.second % 65536,
               ttl |-> t, protocol |-> d.protocol, correlationSecond |-> s]
<1>1. t \in 1 .. 255
  BY ValidFacts
<1>2. buildProbeKeyFromDirective(d, t, s) =
        [dstAddr |-> [name |-> d.dst.name, form |-> "plain"],
         first |-> d.first % 65536, second |-> d.second % 65536,
         ttl |-> t, protocol |-> d.protocol, correlationSecond |-> s]
  BY ValidFacts DEF buildProbeKeyFromDirective, normalizeIPAddress, IPString
<1> QED
  BY <1>1, <1>2

LEMMA DirectiveKeyType ==
  ASSUME NEW d \in Directives, validatePD(d), NEW t \in ProbeTTLs(d), NEW s \in Int
  PROVE  buildProbeKeyFromDirective(d, t, s) \in ProbeKeys
<1>1. d.near \in TTLs /\ d.first % 65536 \in HalfWords /\ d.second % 65536 \in HalfWords
  BY DirectiveFields
<1>2. t \in TTLs
  BY <1>1, DirectiveKey DEF TTLs
<1>3. d.protocol \in {"icmp", "icmp6", "udp"}
  BY <1>1, ValidFacts
<1>4. buildProbeKeyFromDirective(d, t, s) =
        [dstAddr |-> [name |-> d.dst.name, form |-> "plain"],
         first |-> d.first % 65536, second |-> d.second % 65536,
         ttl |-> t, protocol |-> d.protocol, correlationSecond |-> s]
  BY <1>1, DirectiveKey
<1> QED
  BY <1>1, <1>2, <1>3, <1>4 DEF ProbeKeys

LEMMA Division ==
  ASSUME NEW n \in Nat, NEW m \in Nat \ {0}
  PROVE  /\ n = (n \div m) * m + (n % m)
         /\ n % m \in 0 .. m - 1
         /\ n \div m \in Nat /\ (n \div m) * m \in Nat
<1>1. n = (n \div m) * m + (n % m)
  OBVIOUS
<1>2. n % m \in 0 .. m - 1
  OBVIOUS
<1>3. n \div m \in Nat
  OBVIOUS
<1>4. (n \div m) * m \in Nat
  BY <1>3
<1> QED
  BY <1>1, <1>2, <1>3, <1>4

\* The sent time computed from a reply differs from the true one by less than a
\* unit of the round trip time, and its second from Probe's by at most two.
LEMMA Rounding ==
  ASSUME NEW now \in 0 .. SecondUs - 1, NEW wait \in 0 .. MaxQueueing, NEW delay \in 0 .. MaxDelay
  PROVE  /\ (now + wait + delay) - (delay \div RTTUnit) * RTTUnit \in 0 .. 3 * SecondUs - 1
         /\ SecondOf((now + wait + delay) - (delay \div RTTUnit) * RTTUnit) \in 0 .. 2
         /\ SecondOf(now) = 0
         /\ delay \div RTTUnit \in Nat /\ now + wait + delay \in Nat
<1>1. /\ SecondUs \in Nat \ {0} /\ RTTUnit \in 1 .. SecondUs
      /\ MaxQueueing \in 0 .. 2 * SecondUs - RTTUnit /\ MaxDelay \in Nat
  BY KeyAssumption DEF KeyAssumption
<1>2. delay \in Nat /\ RTTUnit \in Nat \ {0} /\ now \in Nat /\ wait \in Nat
  BY <1>1
<1>3. /\ delay = (delay \div RTTUnit) * RTTUnit + (delay % RTTUnit)
      /\ delay % RTTUnit \in 0 .. RTTUnit - 1 
      /\ delay \div RTTUnit \in Nat /\ (delay \div RTTUnit) * RTTUnit \in Nat
  BY <1>2, Division
<1>4. PICK whole \in Nat, rest \in 0 .. RTTUnit - 1 :
        whole = (delay \div RTTUnit) * RTTUnit /\ delay = whole + rest
  BY <1>3
<1>5. (now + wait + delay) - whole \in 0 .. 3 * SecondUs - 1
  BY <1>1, <1>4
<1>6. \A n \in 0 .. 3 * SecondUs - 1 : n \div SecondUs \in 0 .. 2
  BY <1>1
<1>7. now \div SecondUs = 0
  BY <1>1
<1> QED
  BY <1>2, <1>3, <1>4, <1>5, <1>6, <1>7 DEF SecondOf

\* buildProbeKey undoes the encoding of the protocol and keeps what is in range.
LEMMA RecordFields ==
  ASSUME NEW r, NEW p \in {"icmp", "icmp6", "udp"},
         r.first \in HalfWords, r.second \in HalfWords, r.ttl \in TTLs,
         r.protocol = ProtocolNumber(protocolToString(p))
  PROVE  buildProbeKey(r) =
           [dstAddr |-> [name |-> r.dst.name, form |-> "plain"],
            first |-> r.first, second |-> r.second, ttl |-> r.ttl,
            protocol |-> p, correlationSecond |-> SecondOf(SentTime(r))]
<1>1. CASE p = "icmp"
  <2>1. r.protocol = 1
    BY <1>1 DEF ProtocolNumber, protocolToString
  <2> QED
    BY <1>1, <2>1 DEF buildProbeKey, normalizeIPAddress
<1>2. CASE p = "icmp6"
  <2>1. r.protocol = 58
    BY <1>2 DEF ProtocolNumber, protocolToString
  <2> QED
    BY <1>2, <2>1 DEF buildProbeKey, normalizeIPAddress
<1>3. CASE p = "udp"
  <2>1. r.protocol = 17
    BY <1>3 DEF ProtocolNumber, protocolToString
  <2> QED
    BY <1>3, <2>1 DEF buildProbeKey, normalizeIPAddress
<1> QED
  BY <1>1, <1>2, <1>3

\* What handleResult makes of a record of the probe of directive d at TTL t.
LEMMA RecordKey ==
  ASSUME NEW d \in Directives, validatePD(d), NEW t \in ProbeTTLs(d),
         NEW now \in 0 .. SecondUs - 1, NEW wait \in 0 .. MaxQueueing,
         NEW delay \in 0 .. MaxDelay, NEW form \in Forms, NEW fault \in Faults,
         NEW r, r = RecordOf(LineOf(d, t), now + wait, delay, form, fault)
  PROVE  IF fault = "none"
         THEN \E s \in 0 .. 2 : handleResult(r) = buildProbeKeyFromDirective(d, t, s)
         ELSE handleResult(r) = None /\ ~(r.complete /\ r.capture # None /\ r.rtt # None)
<1>1. d.near \in TTLs /\ d.first % 65536 \in HalfWords /\ d.second % 65536 \in HalfWords
  BY DirectiveFields
<1>2. /\ d.protocol \in {"icmp", "icmp6", "udp"}
      /\ extractHalfWords(d) = <<d.first % 65536, d.second % 65536>>
  BY <1>1, ValidFacts
<1>3. t \in TTLs
  BY <1>1, DirectiveKey DEF TTLs
<1>4. /\ r.dst.name = d.dst.name
      /\ r.first = d.first % 65536 /\ r.second = d.second % 65536 /\ r.ttl = t
      /\ r.protocol = ProtocolNumber(protocolToString(d.protocol))
  BY <1>2 DEF RecordOf, LineOf, IPString
<1>5. /\ fault = "short" => r.complete = FALSE
      /\ fault = "noCapture" => r.capture = None
      /\ fault = "noRTT" => r.rtt = None
  BY DEF RecordOf
<1>6. fault = "none" =>
        r.complete = TRUE /\ r.capture = now + wait + delay /\ r.rtt = delay \div RTTUnit
  BY DEF RecordOf
<1>7. CASE fault = "none"
  <2>1. r.capture # None /\ r.rtt # None
    BY <1>6, <1>7, Rounding, KeyAssumption DEF KeyAssumption
  <2>2. SentTime(r) = (now + wait + delay) - (delay \div RTTUnit) * RTTUnit
    <3>1. SentTime(r) = r.capture - r.rtt * RTTUnit
      BY <2>1 DEF SentTime
    <3>2. r.capture = now + wait + delay /\ r.rtt = delay \div RTTUnit
      BY <1>6, <1>7
    <3> QED
      BY <3>1, <3>2
  <2>3. SentTime(r) # ZeroTime
    <3>1. SecondUs \in Nat \ {0}
      BY KeyAssumption DEF KeyAssumption
    <3>2. ZeroTime \notin Nat
      BY <3>1 DEF ZeroTime
    <3>3. (now + wait + delay) - (delay \div RTTUnit) * RTTUnit \in 0 .. 3 * SecondUs - 1
      BY Rounding
    <3>4. SentTime(r) \in Nat
      BY <2>2, <3>3
    <3> QED
      BY <3>2, <3>4, Zenon
  <2>4. handleResult(r) = buildProbeKey(r)
    BY <1>6, <1>7, <2>1, <2>3 DEF handleResult, parseAccepts
  <2>5. SecondOf(SentTime(r)) \in 0 .. 2
    BY <2>2, Rounding
  <2>6. buildProbeKey(r) = buildProbeKeyFromDirective(d, t, SecondOf(SentTime(r)))
    <3>1. buildProbeKey(r) =
            [dstAddr |-> [name |-> r.dst.name, form |-> "plain"],
             first |-> r.first, second |-> r.second, ttl |-> r.ttl,
             protocol |-> d.protocol, correlationSecond |-> SecondOf(SentTime(r))]
      BY <1>1, <1>2, <1>3, <1>4, RecordFields
    <3> QED
      BY <1>1, <1>4, <2>5, <3>1, DirectiveKey
  <2> QED
    BY <1>7, <2>4, <2>5, <2>6
<1>8. CASE fault # "none"
  <2>1. fault = "noRTT" => SentTime(r) = ZeroTime
    BY <1>5 DEF SentTime
  <2>2. ~r.complete \/ ~parseAccepts(r)
    BY <1>5, <1>8, <2>1 DEF Faults, parseAccepts
  <2> QED
    BY <1>5, <1>8, <2>2 DEF Faults, handleResult
<1> QED
  BY <1>7, <1>8

\* The key of any record of the followed probe has its type.
LEMMA FoundType ==
  ASSUME TypeOK, Way, stage \in {"sent", "done"}
  PROVE  handleResult(record) \in ProbeKeys \cup {None}
<1>1. /\ pd \in Directives /\ validatePD(pd) /\ ttl \in ProbeTTLs(pd)
      /\ clock \in 0 .. SecondUs - 1 /\ line = LineOf(pd, ttl)
  BY DEF Way
<1>2. PICK wait \in 0 .. MaxQueueing, delay \in 0 .. MaxDelay, form \in Forms, fault \in Faults :
        record = RecordOf(line, clock + wait, delay, form, fault)
  BY DEF Way
<1>3. record = RecordOf(LineOf(pd, ttl), clock + wait, delay, form, fault)
  BY <1>1, <1>2
<1>4. IF fault = "none"
      THEN \E s \in 0 .. 2 : handleResult(record) = buildProbeKeyFromDirective(pd, ttl, s)
      ELSE handleResult(record) = None
  BY <1>1, <1>3, RecordKey
<1> QED
  BY <1>1, <1>4, DirectiveKeyType

-----------------------------------------------------------------------------
(* The inductive invariant. *)

LEMMA InitIInv == Init => IInv
  BY DEF Init, IInv, TypeOK, Way, TTLs

LEMMA StepIInv == IInv /\ [Next]_vars => IInv'
<1> SUFFICES ASSUME IInv, [Next]_vars
             PROVE  IInv'
  OBVIOUS
<1> USE DEF IInv
<1>1. ASSUME NEW d \in Directives, Receive(d)
      PROVE  IInv'
  BY <1>1 DEF Receive, TypeOK, Way
<1>2. CASE Validate
  <2>1. pd \in Directives
    BY <1>2 DEF Validate, Way
  <2>2. TypeOK'
    BY <1>2 DEF Validate, TypeOK
  <2>3. stage' = (IF validatePD(pd) THEN "accepted" ELSE "refused") /\ pd' = pd
    BY <1>2 DEF Validate
  <2>4. validatePD(pd)' <=> validatePD(pd)
    BY <2>3 DEF validatePD, Header
  <2> QED
    BY <2>1, <2>2, <2>3, <2>4 DEF Way
<1>3. ASSUME NEW t \in TTLs, NEW now \in 0 .. SecondUs - 1, CallProbe(t, now)
      PROVE  IInv'
  <2>1. pd \in Directives /\ validatePD(pd) /\ t \in ProbeTTLs(pd) /\ pd' = pd
    BY <1>3 DEF CallProbe, Way
  <2>2. SecondOf(now) = 0
    BY Rounding, KeyAssumption DEF KeyAssumption
  <2>3. key' = buildProbeKeyFromDirective(pd, t, SecondOf(now)) /\ key' \in ProbeKeys
    BY <1>3, <2>1, <2>2, DirectiveKeyType DEF CallProbe
  <2>4. now \in Nat
    BY KeyAssumption DEF KeyAssumption
  <2>5. TypeOK'
    BY <1>3, <2>3, <2>4 DEF CallProbe, TypeOK
  <2>6. ttl' = t /\ clock' = now /\ stage' = "keyed"
    BY <1>3 DEF CallProbe
  <2> QED
    BY <2>1, <2>3, <2>5, <2>6 DEF Way
<1>4. CASE encodeAndSendProbe
  <2>1. TypeOK'
    BY <1>4 DEF encodeAndSendProbe, TypeOK
  <2>2. /\ stage = "keyed" /\ stage' = "queued" /\ line' = LineOf(pd, ttl)
        /\ pd' = pd /\ ttl' = ttl /\ clock' = clock /\ key' = key
    BY <1>4 DEF encodeAndSendProbe, LineOf
  <2> QED
    BY <2>1, <2>2 DEF Way
<1>5. ASSUME NEW wait \in 0 .. MaxQueueing, NEW delay \in 0 .. MaxDelay, NEW form \in Forms,
             NEW fault \in Faults, CaracalReplies(wait, delay, form, fault)
      PROVE  IInv'
  <2>1. /\ stage = "queued" /\ stage' = "sent" /\ departed' = clock + wait
        /\ record' = RecordOf(line, clock + wait, delay, form, fault)
        /\ pd' = pd /\ ttl' = ttl /\ clock' = clock /\ key' = key /\ line' = line /\ found' = found
    BY <1>5 DEF CaracalReplies, RecordOf
  <2>2. departed' \in Nat
    BY <2>1, KeyAssumption DEF KeyAssumption, TypeOK
  <2>3. TypeOK'
    BY <2>1, <2>2 DEF TypeOK
  <2> QED
    BY <2>1, <2>3 DEF Way
<1>6. CASE ReadRecord
  <2>1. /\ stage = "sent" /\ stage' = "done" /\ found' = handleResult(record)
        /\ pd' = pd /\ ttl' = ttl /\ clock' = clock /\ key' = key /\ line' = line
        /\ departed' = departed /\ record' = record
    BY <1>6 DEF ReadRecord
  <2>2. found' \in ProbeKeys \cup {None}
    BY <2>1, FoundType
  <2>3. TypeOK'
    BY <2>1, <2>2 DEF TypeOK
  <2> QED
    BY <2>1, <2>3 DEF Way
<1>7. CASE Rest
  BY <1>7 DEF Rest, TypeOK, Way
<1>8. CASE UNCHANGED vars
  BY <1>8 DEF TypeOK, Way
<1> QED
  BY <1>1, <1>2, <1>3, <1>4, <1>5, <1>6, <1>7, <1>8 DEF Next, Faults

\* At each stage the registered key, the line for caracal and the record it
\* prints are what Probe, encodeAndSendProbe and caracal make of the directive.
THEOREM Invariance == Spec => []IInv
  BY InitIInv, StepIInv, PTL DEF Spec

-----------------------------------------------------------------------------
(* The properties of the runs. *)

\* A reply finds the probe it answers (handleResult against Probe's key): for any
\* directive, any delay, either form of the address and any unit of caracal's round
\* trip times, the key from the record is the registered one up to two seconds.
THEOREM RepliesComeBack == Spec => []ReplyFindsProbe
<1>1. IInv => ReplyFindsProbe
  <2> SUFFICES ASSUME IInv, stage = "done"
               PROVE  /\ record.complete /\ record.capture # None /\ record.rtt # None => found # None
                      /\ found # None => Flow(found) = Flow(key) /\ InWindow(found, key.correlationSecond)
    BY DEF ReplyFindsProbe
  <2>1. /\ pd \in Directives /\ validatePD(pd) /\ ttl \in ProbeTTLs(pd)
        /\ clock \in 0 .. SecondUs - 1 /\ line = LineOf(pd, ttl)
        /\ key = buildProbeKeyFromDirective(pd, ttl, SecondOf(clock))
        /\ found = handleResult(record)
    BY DEF IInv, Way
  <2>2. PICK wait \in 0 .. MaxQueueing, delay \in 0 .. MaxDelay, form \in Forms, fault \in Faults :
          record = RecordOf(line, clock + wait, delay, form, fault)
    BY DEF IInv, Way
  <2>3. record = RecordOf(LineOf(pd, ttl), clock + wait, delay, form, fault)
    BY <2>1, <2>2
  <2>4. IF fault = "none"
        THEN \E s \in 0 .. 2 : found = buildProbeKeyFromDirective(pd, ttl, s)
        ELSE found = None /\ ~(record.complete /\ record.capture # None /\ record.rtt # None)
    BY <2>1, <2>3, RecordKey
  <2>5. CASE fault = "none"
    <3>1. PICK s \in 0 .. 2 : found = buildProbeKeyFromDirective(pd, ttl, s)
      BY <2>4, <2>5
    <3>2. found \in ProbeKeys
      BY <2>1, <3>1, DirectiveKeyType
    <3>3. found # None
      BY <3>2, KeyAssumption DEF KeyAssumption
    <3>4. SecondOf(clock) = 0
      BY <2>1, Rounding, KeyAssumption DEF KeyAssumption
    <3>5. Flow(found) = Flow(key) /\ found.correlationSecond = s /\ key.correlationSecond = 0
      BY <2>1, <3>1, <3>4 DEF Flow, buildProbeKeyFromDirective
    <3> QED
      BY <3>3, <3>5 DEF InWindow
  <2>6. CASE fault # "none"
    BY <2>4, <2>6
  <2> QED
    BY <2>5, <2>6
<1> QED
  BY <1>1, Invariance, PTL

\* buildProbeKeyFromDirective gives one key to two directives only if they ask for
\* the same packet.
THEOREM KeysNamePackets == Spec => []KeyNamesPacket
<1>1. IInv => KeyNamesPacket
  <2> SUFFICES ASSUME IInv, stage = "keyed", InRange(pd),
                      NEW d \in Directives, NEW t \in ProbeTTLs(d), validatePD(d), InRange(d),
                      Flow(buildProbeKeyFromDirective(d, t, 0)) = Flow(key)
               PROVE  /\ d.protocol = pd.protocol /\ d.first = pd.first /\ d.second = pd.second
                      /\ d.dst.name = pd.dst.name /\ t = ttl
    BY DEF KeyNamesPacket
  <2>0. clock \in 0 .. SecondUs - 1
    BY DEF IInv, Way
  <2>1. /\ pd \in Directives /\ validatePD(pd) /\ ttl \in ProbeTTLs(pd) /\ SecondOf(clock) = 0
        /\ key = buildProbeKeyFromDirective(pd, ttl, SecondOf(clock))
    <3>1. SecondOf(clock) = 0
      BY <2>0, Rounding, KeyAssumption DEF KeyAssumption
    <3> QED
      BY <3>1 DEF IInv, Way
  <2>2. \A e \in Directives : InRange(e) => e.first % 65536 = e.first /\ e.second % 65536 = e.second
    BY DirectiveFields, HalfWordFacts DEF InRange
  <2>3. Flow(buildProbeKeyFromDirective(d, t, 0)) =
          <<[name |-> d.dst.name, form |-> "plain"], d.first % 65536, d.second % 65536, t, d.protocol>>
    BY DirectiveFields, DirectiveKey DEF Flow
  <2>4. Flow(key) =
          <<[name |-> pd.dst.name, form |-> "plain"], pd.first % 65536, pd.second % 65536, ttl, pd.protocol>>
    BY <2>1, DirectiveFields, DirectiveKey DEF Flow
  <2> DEFINE Dst(e) == [name |-> e.dst.name, form |-> "plain"]
  <2>5. /\ Dst(d) = Dst(pd) /\ d.first % 65536 = pd.first % 65536
        /\ d.second % 65536 = pd.second % 65536 /\ t = ttl /\ d.protocol = pd.protocol
    BY <2>3, <2>4
  <2>6. d.dst.name = Dst(d).name /\ pd.dst.name = Dst(pd).name
    OBVIOUS
  <2> QED
    BY <2>1, <2>2, <2>5, <2>6
<1> QED
  BY <1>1, Invariance, PTL

\* An accepted directive is probed as it asks (validatePD, processPD's two TTLs and
\* encodeAndSendProbe): at its TTL or the next, never 0, with its own protocol, and
\* with its own header fields if they fit in 16 bits.
THEOREM AsksAreProbed == Spec => []ProbedAsAsked
<1>1. IInv => ProbedAsAsked
  <2> SUFFICES ASSUME IInv, stage = "queued"
               PROVE  /\ line.ttl \in {pd.near, pd.near + 1} \cap (1 .. 255)
                      /\ pd.kind = line.protocol
                      /\ InRange(pd) => line.first = pd.first /\ line.second = pd.second
    BY DEF ProbedAsAsked
  <2>1. pd \in Directives /\ validatePD(pd) /\ ttl \in ProbeTTLs(pd) /\ line = LineOf(pd, ttl)
    BY DEF IInv, Way
  <2>2. pd.near \in TTLs
    BY <2>1, DirectiveFields
  <2>3. ttl \in {pd.near, pd.near + 1} /\ pd.near \in 1 .. 254
    BY <2>1, <2>2, ValidFacts
  <2>4. line.ttl = ttl /\ line.first = pd.first % 65536 /\ line.second = pd.second % 65536
    BY <2>1, <2>2, ValidFacts DEF LineOf
  <2>5. pd.kind = line.protocol
    BY <2>1, <2>2, ValidFacts DEF LineOf, protocolToString
  <2>6. line.ttl \in {pd.near, pd.near + 1} \cap (1 .. 255)
    <3>1. ttl \in 1 .. 255
      BY <2>3
    <3>2. ttl \in {pd.near, pd.near + 1} \cap (1 .. 255)
      BY <2>3, <3>1, Zenon
    <3>3. line.ttl = ttl
      BY <2>4
    <3> QED
      BY <3>2, <3>3, Zenon
  <2>7. InRange(pd) => line.first = pd.first /\ line.second = pd.second
    BY <2>1, <2>4, DirectiveFields, HalfWordFacts DEF InRange
  <2> QED
    BY <2>5, <2>6, <2>7
<1> QED
  BY <1>1, Invariance, PTL

-----------------------------------------------------------------------------
(* The mock orchestrator's directives. *)

\* The agent accepts every directive generatePD makes.
LEMMA GeneratedValid ==
  ASSUME NEW n \in Nat
  PROVE  /\ validatePD(generatePD(n)) /\ generatePD(n).near \in TTLs
         /\ ProbeTTLs(generatePD(n)) = {5 + (n % 16), 6 + (n % 16)}
<1>1. n % 16 \in 0 .. 15
  OBVIOUS
<1>2. generatePD(n).near = 5 + (n % 16)
  BY DEF generatePD, TTLCycle
<1>3. generatePD(n).near \in TTLs /\ generatePD(n).near # 0 /\ generatePD(n).near # 255
  BY <1>1, <1>2 DEF TTLs
<1>4. generatePD(n).agent # ""
  BY DEF generatePD
<1>5. /\ generatePD(n).kind = generatePD(n).protocol
      /\ generatePD(n).protocol \in {"icmp", "icmp6", "udp"}
  BY DEF generatePD, HeaderKind
<1>6. validatePD(generatePD(n))
  BY <1>3, <1>4, <1>5 DEF validatePD, Header
<1> QED
  BY <1>1, <1>2, <1>3, <1>6, ValidFacts

\* Counters less than 144 apart with one destination differ in the parity, which
\* is the protocol, or by two or more in the TTL.
LEMMA Turn ==
  ASSUME NEW n \in Nat, NEW m \in n + 1 .. n + 143, n % 9 = m % 9, n % 2 = m % 2
  PROVE  (n % 16) - (m % 16) \notin -1 .. 1
<1>0. m \in Nat
  OBVIOUS
<1>1. PICK a \in Nat, r \in 0 .. 15 : n = 16 * a + r /\ r = n % 16
  BY Division
<1>2. PICK b \in Nat, s \in 0 .. 15 : m = 16 * b + s /\ s = m % 16
  BY <1>0, Division
<1>3. PICK c \in Nat, d \in Nat, x \in Nat : n = 9 * c + x /\ m = 9 * d + x
  BY <1>0, Division
<1>4. PICK e \in Nat, f \in Nat, y \in Nat : n = 2 * e + y /\ m = 2 * f + y
  <2>1. n = 2 * (n \div 2) + (n % 2) /\ n \div 2 \in Nat /\ n % 2 \in Nat
    BY Division
  <2>2. m = 2 * (m \div 2) + (m % 2) /\ m \div 2 \in Nat
    BY <1>0, Division
  <2> QED
    BY <2>1, <2>2
<1>5. r - s \in -1 .. 1 => r = s
  BY <1>1, <1>2, <1>4
<1>6. r # s
  BY <1>1, <1>2, <1>3
<1> QED
  BY <1>1, <1>2, <1>5, <1>6

\* Every directive of the mock orchestrator is accepted, and neither of its probes
\* shares a key with a probe of the next 143: for every counter of a long session.
THEOREM GeneratedApart == Spec => []FlowsApart
<1>1. IInv => FlowsApart
  <2> SUFFICES ASSUME IInv
               PROVE  FlowsApart
    OBVIOUS
  <2>1. stage = "refused" => pd \notin Generated
    BY GeneratedValid, GeneratorAssumption DEF GeneratorAssumption, Generated, IInv, Way
  <2>2. ASSUME stage = "keyed", NEW n \in Counters, pd = generatePD(n),
               NEW m \in n + 1 .. n + Apart - 1, Flow(key) \in FlowsOf(generatePD(m))
        PROVE  FALSE
    <3>1. n \in Nat /\ m \in Nat /\ m \in n + 1 .. n + 143
      BY GeneratorAssumption DEF GeneratorAssumption
    <3>2. ttl \in {5 + (n % 16), 6 + (n % 16)}
      BY <2>2, <3>1, GeneratedValid DEF IInv, Way
    <3>3. PICK t \in {5 + (m % 16), 6 + (m % 16)} :
            Flow(buildProbeKeyFromDirective(generatePD(m), t, 0)) = Flow(key)
      BY <2>2, <3>1, GeneratedValid DEF FlowsOf
    <3>4. key = buildProbeKeyFromDirective(generatePD(n), ttl, SecondOf(clock))
      BY <2>2 DEF IInv, Way
    <3>5. /\ t = ttl /\ generatePD(m).protocol = generatePD(n).protocol
          /\ generatePD(m).dst.name = generatePD(n).dst.name
      BY <3>3, <3>4 DEF Flow, buildProbeKeyFromDirective, normalizeIPAddress, IPString
    <3>6. n % 9 = m % 9
      BY <3>5 DEF generatePD, DestinationCount
    <3>7. n % 2 = m % 2
      BY <3>1, <3>5 DEF generatePD
    <3>8. (n % 16) - (m % 16) \in -1 .. 1
      BY <3>1, <3>2, <3>3, <3>5
    <3> QED
      BY <3>1, <3>6, <3>7, <3>8, Turn
  <2> QED
    BY <2>1, <2>2 DEF FlowsApart
<1> QED
  BY <1>1, Invariance, PTL
=============================================================================
