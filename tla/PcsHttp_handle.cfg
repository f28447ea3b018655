SPECIFICATION Spec
CONSTANTS
    Size = 3
    MaxHops = 2
    Like = {}
    Faults = {}
    MaxLen = 6
    MaxParams = 2
    Buffer = 2
INVARIANTS TypeOK AnswerWhole Explained BufferFits
