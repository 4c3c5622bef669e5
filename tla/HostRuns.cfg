SPECIFICATION FairSpec
CONSTANTS
  MaxRuns = 1
  MaxActions = 2
  MaxPipe = 2
INVARIANTS TypeOK NoLiveRowAfterEnd EndedMeansKnown AwaitingIsDecidable
PROPERTIES DispatchWhileRunning RefusedNeverClaimed CancelSettles
