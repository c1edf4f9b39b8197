SPECIFICATION FairSpec
CONSTANTS
  None = None
  c1 = c1
  Conns = {c1}
  LastManager = 2
INVARIANTS TypeOK StoppedOnce NoZombie StartedIsAuthorised ClosedIsQuiet
PROPERTIES StopsEnd
CHECK_DEADLOCK FALSE
