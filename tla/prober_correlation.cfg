SPECIFICATION Spec
CONSTANTS
  Calls = {c1, c2}
  Flows = {f1}
  None = None
  WriteQueueSize = 1
  ProbeTimeout = 1
  PipeSize = 1
  ClockSkew <- NoSkew
  MaxReplies = 1
  RegisterStall = 0
  CaracalMayFail = FALSE
  MaxTime = 5
SYMMETRY CallSymmetry
INVARIANTS CorrelationSound ClosedClean SpacedAttribution
PROPERTIES ImplementsContract 
