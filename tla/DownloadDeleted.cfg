SPECIFICATION Spec
CONSTANTS
  Size = 4
  MaxAttempts = 3
  MaxBreaks = 3
  MaxCrashes = 0
  MaxDeletes = 1
  MaxLate = 0
INVARIANTS InputWhole
