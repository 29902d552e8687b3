SPECIFICATION Spec
CONSTANTS
  None = None
  Req = {r1}
  Pub = {p1}
  Ads <- MCAds
  Dimensions = {728, 300, 600}
  Day = 2
  MaxTime = 2
  MaxSaves = 2
INVARIANTS
  DeletedAdsGone
