SPECIFICATION Spec
CONSTANTS
  None = None
  Editor = {e1, e2}
  Item = {i1}
  Image = {a, b, c}
  Slug = {s1, s2}
  ByName = "slug"
  Lookup = "slug"
  Purged = FALSE
  MaxRequests = 3
CHECK_DEADLOCK FALSE
SYMMETRY Symmetry
INVARIANTS
  PictureUnderSlug
