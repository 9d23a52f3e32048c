SPECIFICATION DashboardSpec
CONSTANTS
  c1 = c1
  launch1 = launch1
  launch2 = launch2
  cancel1 = cancel1
  cancel2 = cancel2
  Contacts <- OneContact
  Launches <- TwoLaunches
  Cancels <- TwoCancels
  MaxDeaths = 1
  Stories <- SomeStories
  StopTerminalTicks = 2
CONSTRAINTS ReadersWatchOneCancel OneJobHasOutcomes
SYMMETRY RequestSymmetry
INVARIANTS RowsAgree OnlyOverlapMailsTwice CancelledLeavesNothingQueued RunningIsEnqueued FiguresAddUp ShownStatusFits ClosedStreamIsFinal
PROPERTIES StatusFollowsTable JobSettledForGood 
CHECK_DEADLOCK FALSE
