SPECIFICATION FairSpec
CONSTANTS
  None = None
  Req = {r1, r2}
  Video = {v1, v2}
  Quota = 1
  MaxDays = 1
  MaxClears = 1
  MaxErrors = 1
  MaxDeaths = 1
INVARIANTS
  TypeOK
  WastedCallsBounded
  NeverEmptyAgain
  PauseEarned
PROPERTIES
  Recovers
