SPECIFICATION Spec
CONSTANTS
  c1 = c1
  launch1 = launch1
  launch2 = launch2
  Contacts <- OneContact
  Launches <- TwoLaunches
  Cancels <- NoCancel
  MaxDeaths = 0
INVARIANT OneJobPerContact
CHECK_DEADLOCK FALSE
