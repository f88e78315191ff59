------------------------------ MODULE ProbeKey ------------------------------
(***************************************************************************)
(* How one directive becomes a probe and a reply finds its way back: the   *)
(* checks of validatePD, the TTLs of processPD, the key Probe registers    *)
(* under (buildProbeKeyFromDirective), the line encodeAndSendProbe writes, *)
(* the record caracal prints, and the key handleResult builds from it.     *)
(* CaracalProber abstracts a key to a flow and a second; this module is    *)
(* about what the fields do on the way.                                    *)
(*                                                                         *)
(* An address is a pair of what it names and the form it is in: "plain",   *)
(* or "mapped" (::ffff:a.b.c.d) for an IPv4 address.  Times are caracal's  *)
(* microseconds, scaled by SecondUs and RTTUnit.                           *)
(***************************************************************************)
EXTENDS Integers

CONSTANTS
  Directives,   \* directives that may arrive
  Agents,       \* agent names; "" is the empty one
  SecondUs,     \* microseconds in a second
  RTTUnit,      \* caracalRTTUnit, in microseconds
  MaxQueueing,  \* a packet leaves at most this long after Probe read the clock
  MaxDelay,     \* bound: a reply takes at most this long
  None          \* no value

Protocols == {"unspecified", "icmp", "icmp6", "udp", "other"}
Kinds     == {"none", "icmp", "icmp6", "udp"}
TTLs      == 0 .. 255
HalfWords == 0 .. 2^16 - 1
Forms     == {"plain", "mapped"}

\* The keys of records and directives: a probeKey with the fields in their widths.
ProbeKeys ==
  [dstAddr : [name : {d.dst.name : d \in Directives}, form : {"plain"}],
   first : HalfWords, second : HalfWords, ttl : TTLs,
   protocol : {"icmp", "icmp6", "udp"}, correlationSecond : Int]

ASSUME KeyAssumption ==
  /\ None \notin Int /\ None \notin ProbeKeys
  /\ SecondUs \in Nat \ {0} /\ RTTUnit \in 1 .. SecondUs
  /\ MaxQueueing \in 0 .. 2 * SecondUs - RTTUnit /\ MaxDelay \in Nat
  /\ \A d \in Directives :
       /\ d.agent \in Agents /\ d.near \in TTLs /\ d.protocol \in Protocols
       /\ d.kind \in Kinds /\ d.first \in Nat /\ d.second \in Nat

VARIABLES
  stage,     \* "idle", "received", "accepted", "keyed", "queued", "sent", "done", "refused"
  pd,        \* the directive
  ttl,       \* the TTL of the probe followed
  clock,     \* what Probe read from the clock
  key,       \* the key it registered
  line,      \* the line written to caracal
  departed,  \* when the packet really left
  record,    \* the record caracal printed
  found      \* the key built from it

vars == <<stage, pd, ttl, clock, key, line, departed, record, found>>

\* time.Time's zero value, older than any time caracal reports.
ZeroTime == -1000 * SecondUs

SecondOf(t) == t \div SecondUs

Init ==
  /\ stage = "idle" /\ pd = None /\ ttl = 0 /\ clock = 0
  /\ key = None /\ line = None /\ departed = 0 /\ record = None /\ found = None

-----------------------------------------------------------------------------
(* Directives *)

Header(d, kind) == d.kind = kind

\* Faulty variant: 255 is taken for a TTL like any other.
validatePDWraps(d) ==
  /\ d.agent # "" /\ d.near # 0
  /\ d.protocol \in {"icmp", "icmp6", "udp"} /\ Header(d, d.protocol)

\* An agent, a TTL whose successor is a TTL, and the header of the protocol.
validatePD(d) ==
  /\ d.agent # "" /\ d.near # 0 /\ d.near # 255
  /\ \/ d.protocol = "icmp" /\ Header(d, "icmp")
     \/ d.protocol = "icmp6" /\ Header(d, "icmp6")
     \/ d.protocol = "udp" /\ Header(d, "udp")

\* The two TTLs of processPD, in uint8 arithmetic.
ProbeTTLs(d) == {d.near, (d.near + 1) % 2^8}

\* The header fields as uint16, zeros if the header is not the protocol's.
extractHalfWords(d) ==
  IF d.protocol \in {"icmp", "icmp6", "udp"} /\ Header(d, d.protocol)
  THEN <<d.first % 2^16, d.second % 2^16>>
  ELSE <<0, 0>>

\* net.IP.String: the same text for both lengths of an IPv4 address (external).
IPString(a) == [name |-> a.name, form |-> "plain"]

\* Every text form of an address has the same normal form.
normalizeIPAddress(a) == [name |-> a.name, form |-> "plain"]

\* Faulty variant: the second half-word is left out of the key.
buildProbeKeyFromDirectiveShort(d, t, second) ==
  [dstAddr |-> normalizeIPAddress(IPString(d.dst)), first |-> extractHalfWords(d)[1], second |-> 0,
   ttl |-> t, protocol |-> d.protocol, correlationSecond |-> second]

buildProbeKeyFromDirective(d, t, second) ==
  [dstAddr |-> normalizeIPAddress(IPString(d.dst)), first |-> extractHalfWords(d)[1],
   second |-> extractHalfWords(d)[2], ttl |-> t, protocol |-> d.protocol,
   correlationSecond |-> second]

\* caracal is told the protocol by name ...
protocolToString(p) == IF p = "other" THEN "number" ELSE p

\* ... and reports it by number (external).
ProtocolNumber(name) ==
  CASE name = "icmp" -> 1 [] name = "udp" -> 17 [] name = "icmp6" -> 58 [] OTHER -> 0

-----------------------------------------------------------------------------
(* Records *)

\* The sent time of parseProbeResult: capture time minus the round trip.
SentTime(r) ==
  IF r.rtt = None THEN ZeroTime
  ELSE (IF r.capture = None THEN ZeroTime ELSE r.capture) - r.rtt * RTTUnit

\* Faulty variant: only the sent time is looked at.
parseAcceptsUncaptured(r) == SentTime(r) # ZeroTime

\* parseProbeResult refuses a record without either timestamp.
parseAccepts(r) == r.capture # None /\ SentTime(r) # ZeroTime

\* buildProbeKey parses the fields in their widths and maps the number back.
buildProbeKey(r) ==
  LET protocol == CASE r.protocol = 1 -> "icmp" [] r.protocol = 17 -> "udp"
                    [] r.protocol = 58 -> "icmp6" [] OTHER -> "unsupported"
  IN  IF /\ r.first \in HalfWords /\ r.second \in HalfWords /\ r.ttl \in TTLs
         /\ protocol # "unsupported"
      THEN [dstAddr |-> normalizeIPAddress(r.dst), first |-> r.first, second |-> r.second,
            ttl |-> r.ttl, protocol |-> protocol, correlationSecond |-> SecondOf(SentTime(r))]
      ELSE None

\* handleResult: a record that is short, without times or without a key is dropped.
handleResult(r) == IF r.complete /\ parseAccepts(r) THEN buildProbeKey(r) ELSE None

-----------------------------------------------------------------------------
(* The way of one probe *)

Receive(d) ==
  /\ stage = "idle"
  /\ pd' = d /\ stage' = "received"
  /\ UNCHANGED <<ttl, clock, key, line, departed, record, found>>

Validate ==
  /\ stage = "received"
  /\ stage' = IF validatePD(pd) THEN "accepted" ELSE "refused"
  /\ UNCHANGED <<pd, ttl, clock, key, line, departed, record, found>>

\* processPD calls Probe for the near or the far TTL.
CallProbe(t, now) ==
  /\ stage = "accepted" /\ t \in ProbeTTLs(pd)
  /\ ttl' = t /\ clock' = now
  /\ key' = buildProbeKeyFromDirective(pd, t, SecondOf(now))
  /\ stage' = "keyed"
  /\ UNCHANGED <<pd, line, departed, record, found>>

encodeAndSendProbe ==
  /\ stage = "keyed"
  /\ line' = [dst |-> IPString(pd.dst), first |-> extractHalfWords(pd)[1],
              second |-> extractHalfWords(pd)[2], ttl |-> ttl,
              protocol |-> protocolToString(pd.protocol)]
  /\ stage' = "queued"
  /\ UNCHANGED <<pd, ttl, clock, key, departed, record, found>>

\* caracal sends the packet and later prints a record with the fields of the
\* probe, an address in either form, and times; some may be missing (external).
CaracalReplies(wait, delay, form, fault) ==
  /\ stage = "queued"
  /\ departed' = clock + wait
  /\ record' = [complete |-> fault # "short",
                dst      |-> [name |-> line.dst.name, form |-> form],
                first    |-> line.first, second |-> line.second, ttl |-> line.ttl,
                protocol |-> ProtocolNumber(line.protocol),
                capture  |-> IF fault = "noCapture" THEN None ELSE clock + wait + delay,
                rtt      |-> IF fault = "noRTT" THEN None ELSE delay \div RTTUnit]
  /\ stage' = "sent"
  /\ UNCHANGED <<pd, ttl, clock, key, line, found>>

ReadRecord ==
  /\ stage = "sent"
  /\ found' = handleResult(record)
  /\ stage' = "done"
  /\ UNCHANGED <<pd, ttl, clock, key, line, departed, record>>

Rest == stage \in {"done", "refused"} /\ UNCHANGED vars

Next ==
  \/ \E d \in Directives : Receive(d)
  \/ Validate
  \/ \E t \in TTLs, now \in 0 .. SecondUs - 1 : CallProbe(t, now)
  \/ encodeAndSendProbe
  \/ \E wait \in 0 .. MaxQueueing, delay \in 0 .. MaxDelay, form \in Forms,
        fault \in {"none", "short", "noCapture", "noRTT"} :
       CaracalReplies(wait, delay, form, fault)
  \/ ReadRecord \/ Rest

Spec == Init /\ [][Next]_vars

-----------------------------------------------------------------------------
(* Properties *)

TypeOK ==
  /\ stage \in {"idle", "received", "accepted", "keyed", "queued", "sent", "done", "refused"}
  /\ pd \in Directives \cup {None}
  /\ ttl \in TTLs /\ clock \in Nat /\ departed \in Nat
  /\ key \in ProbeKeys \cup {None} /\ found \in ProbeKeys \cup {None}

\* The key without its second, and the seconds matchAndDeliverResult tries.
Flow(k) == <<k.dstAddr, k.first, k.second, k.ttl, k.protocol>>
InWindow(k, s) == k.correlationSecond - s \in -2 .. 2

\* A reply comes back to the probe it answers: whatever the protocol, the form of
\* the address and the rounding of the times, a record with its times is not
\* dropped, and the key of a record that is not dropped is the registered one, its
\* second inside the window of the search, if the packet left within two seconds
\* (less one unit of caracal's RTT).
ReplyFindsProbe ==
  stage = "done" =>
    /\ record.complete /\ record.capture # None /\ record.rtt # None => found # None
    /\ found # None => Flow(found) = Flow(key) /\ InWindow(found, key.correlationSecond)

InRange(d) == d.first \in HalfWords /\ d.second \in HalfWords

\* Two directives share a key only if they ask for the same packet, as long as
\* their header fields fit in 16 bits.
KeyNamesPacket ==
  stage = "keyed" /\ InRange(pd) =>
    \A d \in Directives : \A t \in ProbeTTLs(d) :
      /\ validatePD(d) /\ InRange(d)
      /\ Flow(buildProbeKeyFromDirective(d, t, 0)) = Flow(key)
      => /\ d.protocol = pd.protocol /\ d.first = pd.first /\ d.second = pd.second
         /\ d.dst.name = pd.dst.name /\ t = ttl

\* An accepted directive is probed at its TTL or one hop behind it, never at TTL 0,
\* with the protocol of its header, never with the zeros that stand for a missing
\* one; and with the fields the header carries, if they fit in 16 bits (larger ones
\* wrap, which the comment above extractHalfWords leaves to the orchestrator).
ProbedAsAsked ==
  stage = "queued" =>
    /\ line.ttl \in {pd.near, pd.near + 1} \cap (1 .. 255)
    /\ pd.kind = line.protocol
    /\ InRange(pd) => line.first = pd.first /\ line.second = pd.second
=============================================================================
