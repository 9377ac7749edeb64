SPECIFICATION FairSpec
CHECK_DEADLOCK FALSE
CONSTANTS
  j1 = j1
  j2 = j2
  p1 = p1
  p2 = p2
  NoJob = NoJob
  Jobs = {j1, j2}
  Passes = {p1, p2}
  Limit = 1
  Kinds = {"cpu", "user", "upload", "local"}
  MaxCrashes = 1
  MaxCancels = 1
  Racing = FALSE
INVARIANTS HoldersWithinLimit SectionsWithinLimit
PROPERTIES ImplementsSemaphore LeakReclaimed
