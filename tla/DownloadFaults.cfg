SPECIFICATION FairSpec
CONSTANTS
  Size = 4
  MaxAttempts = 3
  MaxBreaks = 4
  MaxCrashes = 2
  MaxDeletes = 1
  MaxLate = 1
INVARIANTS TypeOK InputIntact NoEarlySurrender NeverShort
PROPERTIES InputUntouched Heals
