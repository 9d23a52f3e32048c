SPECIFICATION FairSpec
CONSTANTS
  j1 = j1
  w1 = w1
  w2 = w2
  NoWorker = NoWorker
  Tasks <- OneJob
  Unhandled <- NoTask
  Workers <- TwoWorkers
  MaxAttempts = 2
  BatchSize = 2
  FaultKinds <- AllFaults
  MaxFaults = 3
  SharedCache = FALSE
INVARIANT DuplicatesAreBounded
PROPERTY NothingIsLost
\* A lease that is lost when no reaper is left stops everything.
CHECK_DEADLOCK FALSE
