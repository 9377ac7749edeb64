SPECIFICATION Spec
CHECK_DEADLOCK FALSE
CONSTANTS
  Overlap = {"idle", "lock", "reservation", "meta", "bull"}
  Viewed = TRUE
  Recovers = TRUE
  MaxSubmits = 2
  MaxCrashes = 1
  MaxCancels = 1
INVARIANTS TypeOK
PROPERTIES NotPulledAway KeptAfterFailure Reclaimed
