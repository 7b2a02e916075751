CONSTANTS
  Jobs = {j1, j2, j3}
  Cancellable = {j1}
  Readers = {q}
  Depth = 1
SPECIFICATION FairSpec
CHECK_DEADLOCK FALSE
INVARIANTS PermitsAccounted AssertionsHold
PROPERTIES CallersServed SaturationClears
