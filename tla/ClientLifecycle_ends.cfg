SPECIFICATION FairSpec
INVARIANTS TypeOK NothingLeftBehind
PROPERTIES ApplicationEnds
CHECK_DEADLOCK FALSE
