SPECIFICATION Spec
CONSTANTS
  j1 = j1
  w1 = w1
  w2 = w2
  NoWorker = NoWorker
  Tasks <- OneJob
  Unhandled <- NoTask
  Workers <- TwoWorkers
  MaxAttempts = 2
  BatchSize = 2
  FaultKinds <- RecoverableFaults
  MaxFaults = 3
  SharedCache = TRUE
SYMMETRY WorkerSymmetry
INVARIANTS AtMostOneSend PipelineAgrees
PROPERTY ImplementsOnce SendFollowsTable
