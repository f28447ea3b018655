CONSTANTS
    Path = {p1, p2}
    NoPath = NoPath
    MaxId = 3
    MaxOps = 2
SPECIFICATION FairSpec
INVARIANTS TypeOK IdNamesTask OwedIsQueued NoDuplicateRows
PROPERTIES SuspendedStays StartedStays WaitingServed
