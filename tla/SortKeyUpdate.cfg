CONSTANTS
  a = a
  b = b
  j1 = j1
  j2 = j2
  j3 = j3
  Ingesters = {a, b}
  Workers = {1, 2}
  Assigned = 1
  Jobs = {j1, j2, j3}
  IngesterOf <- MCIngesterOf
  Columns <- MCColumns
  NoKey = NoKey
  Unresolved = Unresolved
  Idle = Idle
SPECIFICATION FairSpec
CHECK_DEADLOCK FALSE
INVARIANTS FilesFollowCatalogKey KeyUpdatesSerialised
PROPERTIES KeyOnlyExtended JobsComplete
