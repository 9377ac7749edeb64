SPECIFICATION Spec
CHECK_DEADLOCK FALSE
CONSTANTS
  a = a
  b = b
  c = c
  NoJob = NoJob
  Jobs = {a, b, c}
  MaxMishaps = 2
SYMMETRY VersionSymmetry
INVARIANTS OneWorker AdmittedOnce KeysReleased
PROPERTIES ImplementsSemaphore
