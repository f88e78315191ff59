--------------------------- MODULE MCAgentPipeline ---------------------------
(* Instances of AgentPipeline for TLC. *)
EXTENDS AgentPipeline

\* Two directives for one destination at consecutive TTLs: the far probe of the
\* first and the near probe of the second are the same probe.
CONSTANTS p1, p2, ttl5, ttl6, ttl7
AdjacentPDs   == {p1, p2}
AdjacentFlows == {ttl5, ttl6, ttl7}
AdjacentNear  == [p \in AdjacentPDs |-> IF p = p1 THEN ttl5 ELSE ttl6]
AdjacentFar   == [p \in AdjacentPDs |-> IF p = p1 THEN ttl6 ELSE ttl7]
=============================================================================
