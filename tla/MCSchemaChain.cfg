SPECIFICATION Spec
CONSTANTS
  Connections <- BothConnections
  Watched <- AlteredTables
INVARIANTS SchemaMatchesRevision ReleasesKeepInserting
