SPECIFICATION Spec
CONSTANTS
  Calls = {c1, c2}
  NoHost = NoHost
INVARIANTS TypeOK OneHostProcess ServesCurrentSettings StoppedMeansGone WaitsAreFounded
PROPERTY SavingSparesRuns
CHECK_DEADLOCK FALSE
