SPECIFICATION Spec
CONSTANTS
  Callers <- SomeCallers
  Identity <- Ada
  Capacity = 3
  Cost = 2
  TTL = 5
  MaxDelay = 2
  MaxTime = 9
  MaxRewind = 3
CHECK_DEADLOCK FALSE
INVARIANTS BurstsAreBounded
PROPERTIES RefusedOnlyWhenSpent
