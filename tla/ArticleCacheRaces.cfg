SPECIFICATION Spec
CONSTANTS
  None = None
  Req = {r1, r2}
  Pages = {json}
  Forgotten = {json}
  DistinctStamps = FALSE
  MaxWrites = 2
  MaxTime = 1
SYMMETRY Symmetry
INVARIANTS
  TypeOK
  StalePageRaced
  VersionFresh
  ReadsAcknowledgedWrites
