SPECIFICATION Spec
CONSTANTS
  MaxRuns = 1
  MaxActions = 2
  MaxPipe = 1
INVARIANT HeldIsReconcilable
