SPECIFICATION Spec
CONSTANTS
  Emails <- TwoEmails
  GroupNames = {"members"}
  Profiles <- SomeProfiles
  Batches <- SomeBatches
  Imports = {i1, i2}
  Contents <- SomeContents
  Edits = {e1, e2}
  Filters <- SomeFilters
  MaxContacts = 3
  MaxImportRows = 3
  MaxGroups = 2
  MaxVersions = 3
  MaxRequests = 7
SYMMETRY Symmetric
CHECK_DEADLOCK FALSE
INVARIANTS WorkspaceTypeOK AcceptedEditsAreStored PinnedVersionIsSent RightContactsAreMailed ReportIsRight
PROPERTIES ImportsAreApplied
