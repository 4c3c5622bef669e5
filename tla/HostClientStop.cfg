SPECIFICATION FairSpec
CONSTANTS
  Calls = {c1}
  NoHost = NoHost
PROPERTY QuitEnds
CHECK_DEADLOCK FALSE
