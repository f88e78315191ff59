SPECIFICATION Spec
CONSTANTS
  StartupLog = 1
  StderrPipe = 1
  MaxRuns = 1
INVARIANT Released
