------------------------- MODULE DirectiveGenerator -------------------------
(***************************************************************************)
(* generatePD of the mock orchestrator: the directives it makes from a     *)
(* counter, and what the agent makes of them.                              *)
(***************************************************************************)
EXTENDS ProbeKey

CONSTANTS
  Counters,   \* counters from which directives are followed
  Apart       \* directives fewer than this apart must not share a probe

\* 9 destinations and 16 TTLs: ICMP directives repeat after 144.
ASSUME GeneratorAssumption == Counters \subseteq Nat /\ Apart \in 1 .. 144

\* Six IPv4 destinations, then three IPv6 ones.
DestinationCount == 9
FirstIPv6 == 6

\* Faulty variant: TTLs cycle from 5 to 19.
TTLCycleShort(counter) == 5 + (counter % 15)

\* TTLs cycle from 5 to 20.
TTLCycle(counter) == 5 + (counter % 16)

\* The header generatePD attaches; it fits the protocol.
HeaderKind(counter) ==
  IF counter % 2 = 0 THEN "udp"
  ELSE IF counter % DestinationCount >= FirstIPv6 THEN "icmp6" ELSE "icmp"

\* Even counters give UDP directives with ports, odd ones ICMP or ICMPv6
\* directives with zero half-words.
generatePD(counter) ==
  LET udp == counter % 2 = 0 IN
  [agent    |-> "agent-1",
   near     |-> TTLCycle(counter),
   protocol |-> IF udp THEN "udp"
                ELSE IF counter % DestinationCount >= FirstIPv6 THEN "icmp6" ELSE "icmp",
   kind     |-> HeaderKind(counter),
   first    |-> IF udp THEN 50000 + (counter % 100) ELSE 0,
   second   |-> IF udp THEN 33434 + (counter % 100) ELSE 0,
   dst      |-> [name |-> counter % DestinationCount, form |-> "plain"]]

Generated == {generatePD(n) : n \in Counters}

FlowsOf(d) == {Flow(buildProbeKeyFromDirective(d, t, 0)) : t \in ProbeTTLs(d)}

-----------------------------------------------------------------------------
(* Properties *)

\* Every directive the mock orchestrator makes is probed.  The agent refuses none,
\* and neither probe of one is a probe of another nearby, although far probes reach
\* into the TTL of the next directive and ICMP probes to one destination differ in
\* nothing else: none is a duplicate, and (see SpacedAttribution) none is confused
\* with another, up to Apart / 5 directives a second.
FlowsApart ==
  /\ stage = "refused" => pd \notin Generated
  /\ stage = "keyed" =>
       \A n \in Counters : pd = generatePD(n) =>
         \A m \in n + 1 .. n + Apart - 1 : Flow(key) \notin FlowsOf(generatePD(m))
=============================================================================
