SPECIFICATION FairSpec
CONSTANTS Faults = {"layout", "nohook", "odd"}
INVARIANTS TypeOK Explained LoginConfirmed LoginFreesAll NoDanglingUse
PROPERTIES LoginEnds
CHECK_DEADLOCK FALSE
