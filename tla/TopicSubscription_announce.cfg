SPECIFICATION FairSpec
CONSTANTS
  a = a
  b = b
  Channels = {a, b}
  Known = {a, b}
  Permanents = {{}, {b}}
  OwnThread = {a}
  Grace = 1
  MaxLink <- MCMaxLink
INVARIANTS TypeOK Mirrored PermanentStays
PROPERTIES GraceRespected Follows
CHECK_DEADLOCK FALSE
