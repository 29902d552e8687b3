SPECIFICATION Spec
CONSTANTS
  None = None
  Req = {r1}
  Editor = {w1, w2}
  Event = {e1}
  Dates = {1, 3}
  p1 = p1
  p2 = p2
  p3 = p3
  Posters <- MCPosters
  Width <- MCWidth
  Day = 2
  MaxTime = 3
  MaxSaves = 3
SYMMETRY Symmetry
CHECK_DEADLOCK FALSE
INVARIANT NoPageFails
