SPECIFICATION FairSpec
CONSTANTS
  StartupLog = 4
  StderrPipe = 3
  MaxRuns = 2
INVARIANTS NoOrphan
PROPERTIES BreakdownSpreads
