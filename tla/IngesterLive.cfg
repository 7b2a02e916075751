CONSTANTS
  Ops = {w1}
  Tables = {t1, t2}
  MaxSegments = 3
  MaxCrashes = 0
  PartialFailures = TRUE
  Cancellations = TRUE
  AbandonedPersists = TRUE
  ForeignPersists = FALSE
  FileCap = 3
  PersistCap = 3
  UnbufferedCap = 2
SPECIFICATION FairSpec
CHECK_DEADLOCK FALSE
PROPERTIES SegmentsReclaimed ShutdownCompletes
