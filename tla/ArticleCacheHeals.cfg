SPECIFICATION FairSpec
CONSTANTS
  None = None
  Req = {r1, r2}
  Pages = {json}
  Forgotten = {json}
  DistinctStamps = TRUE
  MaxWrites = 1
  MaxTime = 1
PROPERTIES
  KeepsPromise
  PagesHeal
  HealingKept
