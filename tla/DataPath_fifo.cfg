SPECIFICATION FairSpec
CONSTANTS
  a = a
  b = b
  x = x
  Channels = {a, b, x}
  OwnSubscriber = {a}
  OwnPublisher = {b}
  Known = {a, b}
  MaxMessages = 2
INVARIANTS TypeOK OneWriter
PROPERTIES Implements Arrives
CHECK_DEADLOCK FALSE
