---------------------------- MODULE MCAgentMain -----------------------------
(* Instances of AgentMain for TLC. *)
EXTENDS AgentMain

\* The hypothesis under which AgentMainProofs proves BackoffSchedule.
ASSUME PowersDouble == IsDoubling(Doubled)
=============================================================================
