SPECIFICATION Spec
CONSTANTS
  MaxRuns = 2
  MaxActions = 1
  MaxPipe = 1
CONSTRAINT NothingLapses
INVARIANTS WorkerIsAccounted OneActiveRun
PROPERTIES NoRunOverUncertain
