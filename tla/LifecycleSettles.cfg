SPECIFICATION FairSpec
CHECK_DEADLOCK FALSE
CONSTANTS
  r1 = r1
  r2 = r2
  Runs = {r1, r2}
  NoRun = NoRun
  MaxAttempts = 2
  MaxWaits = 1
  MaxManual = 2
  MaxStalled = 1
  MaxCrashes = 2
  MaxCancels = 0
  MaxBlocks = 0
  MaxMishaps = 2
  BlockPhases <- Nowhere
  LongWaits = TRUE
  LongOutages = TRUE
  Apart = TRUE
INVARIANTS NotLost SuccessTold
PROPERTIES KeepsContract EventuallySettled
