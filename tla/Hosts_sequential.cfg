SPECIFICATION Spec
CONSTANTS
  Candidates <- MCSequential
  MaxMessages = 0
  FullName <- MCFullName
  MaxHops = 1
  MaxCalls = 2
  MaxUint32 = 100000
  LZ4_MAX_SRC_SIZE = 1
  ZLIB_MAX_SRC_SIZE = 2
INVARIANTS SequentialUnlessAllowed
