CONSTANTS
  Ops = {w1}
  Tables = {t1}
  MaxSegments = 3
  MaxCrashes = 1
  PartialFailures = FALSE
  Cancellations = FALSE
  AbandonedPersists = FALSE
  ForeignPersists = TRUE
  FileCap = 3
  PersistCap = 3
  UnbufferedCap = 2
SPECIFICATION Spec
CHECK_DEADLOCK FALSE
INVARIANT AckedDurable
