SPECIFICATION Spec
CONSTANTS
  None = None
  Editor = {e1, e2, e3}
  Item = {i1}
  Image = {a, b}
  Slug = {s1, s2}
  ByName = "id"
  Lookup = "id"
  Purged = TRUE
  MaxRequests = 5
CHECK_DEADLOCK FALSE
SYMMETRY Symmetry
INVARIANTS
  TypeOK
  MediaMatchRow
  MediaBounded
  NoOrphans
