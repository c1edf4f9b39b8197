SPECIFICATION FairSpec
CONSTANTS
  None = None
  Error = Error
  c1 = c1
  c2 = c2
  r1 = r1
  First = {r1}
  Second = {}
  Callers <- MCCallers
  Requests <- MCRequests
  gid <- MCgid
  Sequential = TRUE
  Stops = {"server", "client"}
INVARIANT RunningIsRegistered
PROPERTY EveryCallReturns
CHECK_DEADLOCK FALSE
