SPECIFICATION Spec
CONSTANTS
  None = None
  Error = Error
  c1 = c1
  c2 = c2
  r1 = r1
  r2 = r2
  q1 = q1
  First = {r1, r2}
  Second = {q1}
  Callers <- MCCallers
  Requests <- MCRequests
  gid <- MCgid
  Sequential = TRUE
  Stops = {}
INVARIANTS Isolation MeetsItsCall
CHECK_DEADLOCK FALSE
