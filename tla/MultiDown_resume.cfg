CONSTANTS
    Size = 4
    Limit = 3
    N = 2
    MaxTry = 2
    Faults = {"userfile", "delete"}
SPECIFICATION Spec
INVARIANTS PublishedComplete ResumeCovers
PROPERTIES FetchSpec
