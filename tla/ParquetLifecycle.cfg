SPECIFICATION Spec
CONSTANTS
  L0 = {f1, f2}
  Outputs = {g1, g2}
  Files = {f1, f2, g1, g2}
  Expiring = {f1}
  Jobs = {j1, j2}
  OSCutoff = 2
  PFCutoff = 2
  WriteDelay = 1
  JobTimeout = 1
  ListLife = 1
  MaxFaults = 1
SYMMETRY MCSymmetry
VIEW MCView
CHECK_DEADLOCK FALSE
INVARIANTS OneJob RowsHaveObjects ReadersFindObjects RowsCovered
