----------------------------- MODULE MCProbeKey -----------------------------
(* Instances of ProbeKey and DirectiveGenerator for TLC: the edges of every  *)
(* field, and the directives of the mock orchestrator.                       *)
EXTENDS DirectiveGenerator

CONSTANTS v4, v6

Address(n, f) == [name |-> n, form |-> f]

\* TTLs, half-words and headers at their limits, two forms of one address.
EdgeDirectives ==
  [agent : Agents, near : {0, 1, 2, 254, 255}, protocol : Protocols, kind : Kinds,
   first : {0, 1, 2^16 + 1}, second : {0, 2^16 - 1},
   dst : {Address(v4, "plain"), Address(v4, "mapped"), Address(v6, "plain")}]

AllDirectives == EdgeDirectives \cup Generated

\* One turn of destinations, TTLs and protocols.
OneTurn == 0 .. 143
=============================================================================
