SPECIFICATION Spec
CONSTANTS
  Path = {p1, p2, p3, p4}
  NoPath = none
  Twins = {p1, p2}
  Max = 3
  Shown = 2
  MaxId = 5
  MaxWrites = 5
  MaxOps = 2
  Faults = {}
INVARIANTS TypeOK CopyGood FirstShown HistoryBounded
CHECK_DEADLOCK FALSE
