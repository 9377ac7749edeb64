SPECIFICATION FairSpec
CHECK_DEADLOCK FALSE
CONSTANTS
  j1 = j1
  j2 = j2
  Jobs = {j1, j2}
  Tiers = {1, 2}
  TierStep = 2
  Short = 2
  MaxAge = 5
PROPERTIES NoStarvation
