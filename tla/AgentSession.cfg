CONSTANTS
  MaxCalls = 2
  MaxRequests = 2
  MaxPrompts = 2
  MaxQueued = 1
  MaxTroubles = 2
SPECIFICATION Spec
INVARIANTS TypeOK RequestIsPaired SavedIsMemory RanIsRecorded
CHECK_DEADLOCK FALSE
