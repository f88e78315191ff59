SPECIFICATION Spec
CONSTANTS
  v4 = v4
  v6 = v6
  Directives <- AllDirectives
  Counters <- OneTurn
  Apart = 144
  Agents = {"", "agent-1"}
  SecondUs = 3
  RTTUnit = 2
  MaxQueueing = 4
  MaxDelay = 2
  None = None
INVARIANTS ReplyFindsProbe KeyNamesPacket ProbedAsAsked FlowsApart
