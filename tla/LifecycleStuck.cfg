SPECIFICATION Spec
CHECK_DEADLOCK FALSE
CONSTANTS
  r1 = r1
  r2 = r2
  Runs = {r1, r2}
  NoRun = NoRun
  MaxAttempts = 1
  MaxWaits = 0
  MaxManual = 1
  MaxStalled = 1
  MaxCrashes = 1
  MaxCancels = 1
  MaxBlocks = 1
  MaxMishaps = 1
  BlockPhases <- WhileArmed
  LongWaits = TRUE
  LongOutages = FALSE
  Apart = FALSE
SYMMETRY RunSymmetry
INVARIANTS TypeOK ExecutedOnce HoldingsOwned Abortable
PROPERTIES NeverUsurped
