SPECIFICATION FairSpec
CHECK_DEADLOCK FALSE
CONSTANTS
  a = a
  b = b
  c1 = c1
  c2 = c2
  NoJob = NoJob
  Jobs = {a, b}
  Callers = {c1, c2}
  MaxRequests = 2
  MaxMishaps = 2
  MaxManual = 1
INVARIANTS TypeOK OneAtWork RefusedStaysOut
  
