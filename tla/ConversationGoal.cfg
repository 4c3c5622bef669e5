SPECIFICATION Spec
CONSTANTS
  b1 = b1
  Businesses = {b1}
  Legacy = {}
  NoBusiness = NoBusiness
  MaxConvs = 1
  MaxRuns = 2
  MaxNotes = 0
  MaxProposals = 1
INVARIANT SubmittedIsTold
CHECK_DEADLOCK FALSE
