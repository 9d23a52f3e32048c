SPECIFICATION Spec
CONSTANTS
  Users = {"ada", "bob"}
  Names <- TwoNames
  Patches <- TwoPatches
  Requests = {q1, q2, q3}
  Enlisted = {"viewer", "admin"}
  Starters = {"announcement", "reminder"}
  MaxSessions = 2
  MaxOrgs = 2
  MaxAudit = 3
SYMMETRY Symmetric
CHECK_DEADLOCK FALSE
INVARIANTS OrganizationsAreReachable
PROPERTIES SignedOutIsOut PatchesCompose ChangesAreOnRecord
