CONSTANTS
    Handlers = {h1}
    Threads = 2
    MaxAsk = 2
    Waits = {"park"}
    Dangles = FALSE
SPECIFICATION FairSpec
INVARIANTS Quiet JoinSound
PROPERTIES OwnAnswer LoginReturns
