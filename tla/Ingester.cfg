CONSTANTS
  Ops = {w1, w2}
  Tables = {t1}
  MaxSegments = 4
  MaxCrashes = 1
  PartialFailures = FALSE
  Cancellations = TRUE
  AbandonedPersists = TRUE
  ForeignPersists = FALSE
  FileCap = 3
  PersistCap = 3
  UnbufferedCap = 2
SPECIFICATION Spec
CHECK_DEADLOCK FALSE
INVARIANTS AckedDurable AckedReadable NumbersUnique
SYMMETRY Symmetry
