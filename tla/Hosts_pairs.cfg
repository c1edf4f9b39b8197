SPECIFICATION Spec
CONSTANTS
  Candidates <- MCCandidates
  MaxMessages = 3
  FullName <- MCFullName
  MaxHops = 4
  MaxCalls = 5
  MaxUint32 = 100000
  LZ4_MAX_SRC_SIZE = 1
  ZLIB_MAX_SRC_SIZE = 2
INVARIANTS TypeOK AcceptedIsSound Faithful LoopNeedsBoth StarvationNeedsOverlap
PROPERTIES Completes
