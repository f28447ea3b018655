CONSTANTS
    Size = 2
    Limit = 2
    N = 2
    MaxTry = 1
    Faults = {"straggler", "errorbody", "torn", "userfile", "longname", "delete"}
SPECIFICATION Spec
INVARIANTS TypeOK
