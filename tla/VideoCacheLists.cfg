SPECIFICATION Spec
CONSTANTS
  None = None
  Req = {r1, r2}
  Video = {1, 2}
  Type = {Camer, Sopie}
  Limit = 1
  MaxEdits = 3
SYMMETRY Symmetry
INVARIANTS
  TypeOK
  ListsComplete
  EmptyOnlyByRace
