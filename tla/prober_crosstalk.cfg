SPECIFICATION Spec
CONSTANTS
  Calls = {c1, c2}
  Flows = {f1}
  None = None
  WriteQueueSize = 1
  ProbeTimeout = 1
  PipeSize = 1
  ClockSkew <- NoSkew
  MaxReplies = 1
  RegisterStall = 0
  CaracalMayFail = FALSE
  MaxTime = 2
INVARIANT ExactAttribution
