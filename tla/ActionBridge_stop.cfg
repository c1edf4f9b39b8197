SPECIFICATION FairSpec
CONSTANTS
  None = None
  g1 = g1
  Goals = {g1}
  Simultaneous = TRUE
  Stops = {"server", "client"}
  MaxCancels = 1
PROPERTIES EveryCallbackReturns
CHECK_DEADLOCK FALSE
