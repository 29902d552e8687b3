SPECIFICATION Spec
CONSTANTS
  None = None
  Req = {r1, r2}
  Front = 1
  Fresh = 1
  Stale = 2
  Slow = 1
  Span = 1
  MaxTime = 4
  MaxSaves = 1
CHECK_DEADLOCK FALSE
SYMMETRY Symmetry
INVARIANTS
  AgeBounded
  SavesSeenInTime
PROPERTIES
  ShowsAnAgedPage
