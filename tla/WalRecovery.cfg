CONSTANTS
  MaxOps = 2
  MaxSegments = 5
  MaxCrashes = 2
  Rotators = {periodic, diskFull}
  Tears = {"nothing"}
  CrashTears = {"nothing", "checksum", "length", "frame", "data"}
  HeadlessCrash = TRUE
SPECIFICATION Spec
INVARIANTS ReplayOrder AckedSurvives AckedVisible
PROPERTIES ImplementsDurableLog EveryWriteSettles ComesUp
CHECK_DEADLOCK FALSE
