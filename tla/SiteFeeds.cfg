SPECIFICATION Spec
CONSTANTS
  None = None
  Visitor = {v1, v2}
  First = 2
  More = 2
  SectionSkip = 2
  HomeAbove = 3
  MaxArticles = 5
  Asked = {0, 3, 9}
  Ttl = 2
  Sizes = {1, 6}
  MaxEdits = 1
  MaxTime = 2
SYMMETRY Symmetry
CHECK_DEADLOCK FALSE
INVARIANTS
  TypeOK
  NoItemTwice
  MissedOnlyIfLost
  WalkComplete
PROPERTIES
  ButtonAdds
