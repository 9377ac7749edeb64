SPECIFICATION Spec
CONSTANTS
  small = small
  medium = medium
  big = big
  Jobs <- MCJobs
  Need <- MCNeed
  Capacity = 5
  MinFree = 1
  MaxCrashes = 1
  MaxCancels = 1
  MaxOvertaken = 1
INVARIANTS LedgerExact ReservationsCovered
