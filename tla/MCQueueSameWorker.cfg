SPECIFICATION QueueSpec
CONSTANTS
  t1 = t1
  t2 = t2
  w1 = w1
  w2 = w2
  NoWorker = NoWorker
  Tasks <- OneTask
  Unhandled <- NoTask
  Workers <- OneWorker
  MaxAttempts = 2
  BatchSize = 1
  FaultKinds <- OverrunOnly
  MaxFaults = 1
INVARIANT ReapedLosesLease
