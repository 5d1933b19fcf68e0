CONSTANTS
  NPROC = 2
  NPIO = 0
  NTHREADS = 1
  GSPEC = TRUE
  MaxCalls = 3
  CallSet <- AllCalls
SPECIFICATION FairSpec
PROPERTIES Termination
\* a stuck task violates Termination; the other runs check deadlock
CHECK_DEADLOCK FALSE
