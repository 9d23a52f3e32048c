SPECIFICATION QueueSpec
CONSTANTS
  t1 = t1
  t2 = t2
  w1 = w1
  w2 = w2
  NoWorker = NoWorker
  Tasks <- TwoTasks
  Unhandled <- SecondTask
  Workers <- TwoWorkers
  MaxAttempts = 2
  BatchSize = 2
  FaultKinds <- AllFaults
  MaxFaults = 2
SYMMETRY WorkerSymmetry
INVARIANTS QueueTypeOK OneExecutorPerAttempt RetryBudget
PROPERTIES FencedAcrossWorkers SettledIsFinal
