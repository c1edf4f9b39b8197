SPECIFICATION Spec
CONSTANTS
  MaxAnnouncements = 4
INVARIANTS TypeOK Paced NeverSilent
PROPERTIES Quiet
CHECK_DEADLOCK FALSE
