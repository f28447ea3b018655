SPECIFICATION Spec
CONSTANTS Period = 2  Again = 1  Requests = {"setsync", "link", "logout"}  MaxReq = 2  Faults = {"api"}
INVARIANTS DbReady LiveDb EmptyMeansEmpty
