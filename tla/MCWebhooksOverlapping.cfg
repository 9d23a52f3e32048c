SPECIFICATION FairSpec
CONSTANTS
  j1 = j1
  e1 = e1
  e2 = e2
  e3 = e3
  Jobs <- OneJob
  Events <- ThreeEvents
  JobOf <- ThreeJobOf
  Kind <- ThreeKind
  Sweeping = TRUE
  MaxGiveUps = 1
  MaxLosses = 1
INVARIANTS TypeOK Converges EngagementCountedOnce
PROPERTIES DeliveryIsMonotonic EventsAreApplied
CONSTRAINTS OneMishap OpenedAfter
