CONSTANTS
    Size = 3
    Limit = 2
    N = 2
    MaxTry = 2
    Faults = {"straggler"}
SPECIFICATION Spec
INVARIANTS PublishedComplete
