CONSTANTS
  NPROC = 3
  NPIO = 0
  NTHREADS = 1
  GSPEC = TRUE
  MaxCalls = 1
  CallSet <- BathyCalls
SPECIFICATION Spec
INVARIANTS PartsExchanged
