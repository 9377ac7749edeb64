SPECIFICATION Spec
CHECK_DEADLOCK FALSE
CONSTANTS
  r1 = r1
  r2 = r2
  Runs = {r1, r2}
  NoRun = NoRun
  MaxAttempts = 2
  MaxWaits = 1
  MaxManual = 1
  MaxStalled = 1
  MaxCrashes = 1
  MaxCancels = 0
  MaxBlocks = 0
  MaxMishaps = 1
  BlockPhases <- Nowhere
  LongWaits = FALSE
  LongOutages = FALSE
  Apart = FALSE
SYMMETRY RunSymmetry
INVARIANTS NotLost
