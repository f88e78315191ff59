SPECIFICATION FairSpec
CONSTANTS
  p1 = p1
  p2 = p2
  ttl5 = ttl5
  ttl6 = ttl6
  ttl7 = ttl7
  PDs <- AdjacentPDs
  Flows <- AdjacentFlows
  NearFlow <- AdjacentNear
  FarFlow <- AdjacentFar
  None = None
  PDsBufferSize = 1
  FIEsBufferSize = 1
  MaxFaults = 0
PROPERTY AlwaysFIE
CHECK_DEADLOCK FALSE
