CONSTANTS
    Size = 2
    Limit = 2
    N = 2
    MaxTry = 2
    Faults = {"notfound", "errorbody", "truncate", "delete"}
SPECIFICATION FairSpec
INVARIANTS SegmentsDisjoint
PROPERTIES TaskEnds
