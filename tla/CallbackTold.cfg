SPECIFICATION FairSpec
CHECK_DEADLOCK FALSE
CONSTANTS
  failed = failed
  completed = completed
  Outcomes = {failed, completed}
  FromQueue = {completed}
  None = None
  MaxRefusals = 3
  MaxCrashes = 2
INVARIANTS NothingDroppedUntold
PROPERTIES ClientTold
