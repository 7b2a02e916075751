CONSTANTS
  SeqNums = {1, 2, 3}
  Segments = {s1, s2}
  FileCap = 1
  PersistCap = 1
  UnbufferedCap = 1
SPECIFICATION Spec
INVARIANT ExactReferences
PROPERTIES RetentionSpec ShutdownWakes
CHECK_DEADLOCK FALSE
