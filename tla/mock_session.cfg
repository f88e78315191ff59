SPECIFICATION FairSpec
CONSTANTS
  MaxSessions = 2
  MaxPDs = 2
  WireSize = 1
  PDsBufferSize = 1
  FIEsBufferSize = 1
  Secrets = {"s1"}
INVARIANTS StatsSound Accounted DepthConserved GaugeRecovers
PROPERTIES Converges HandlerEnds
