CONSTANTS
  NumUpstreams = 2
  NumProbes = 1
  CountBound = 2
  Writes = {w1}
  NCopies = 2
SPECIFICATION FairSpec
INVARIANT ResultMatchesAcks
PROPERTIES
  NeverResent
  ClosesOnAnswer
  RecoversWithQuorum
