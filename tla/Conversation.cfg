SPECIFICATION Spec
CONSTANTS
  b1 = b1
  b2 = b2
  Businesses = {b1, b2}
  Legacy = {b2}
  NoBusiness = NoBusiness
  MaxConvs = 2
  MaxRuns = 2
  MaxNotes = 1
  MaxProposals = 2
INVARIANTS TypeOK GoalsCoverTheirWords OneGoalPerConversation GoalIsNewest RunsWorkTheConfirmedGoal HandedOnce SessionNamesItsJob
CHECK_DEADLOCK FALSE
