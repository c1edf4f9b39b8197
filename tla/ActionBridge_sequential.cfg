SPECIFICATION FairSpec
CONSTANTS
  None = None
  g1 = g1
  Goals = {g1}
  Simultaneous = FALSE
  Stops = {}
  MaxCancels = 2
INVARIANTS TypeOK ExecutingIsServed Faithful
PROPERTIES GoalsEnd
CHECK_DEADLOCK FALSE
