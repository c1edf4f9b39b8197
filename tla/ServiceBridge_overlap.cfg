SPECIFICATION FairSpec
CONSTANTS
  None = None
  Error = Error
  c1 = c1
  c2 = c2
  r1 = r1
  r2 = r2
  First = {r1, r2}
  Second = {}
  Callers <- MCCallers
  Requests <- MCRequests
  gid <- MCgid
  Sequential = FALSE
  Stops = {}
INVARIANTS TypeOK ServerHandlesAccounted
PROPERTIES TimedOutIsReleased
CHECK_DEADLOCK FALSE
