SPECIFICATION FairSpec
CONSTANTS
  Calls = {c1, c2}
  Flows = {f1}
  None = None
  WriteQueueSize = 1
  ProbeTimeout = 1
  PipeSize = 1
  ClockSkew <- NoSkew
  MaxReplies = 0
  RegisterStall = 0
  CaracalMayFail = TRUE
  MaxTime = 1
PROPERTY ProbeReturns
