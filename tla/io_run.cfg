CONSTANTS
  NPROC = 3
  NPIO = 0
  NTHREADS = 2
  GSPEC = FALSE
  MaxCalls = 2
  CallSet <- RunCalls
SPECIFICATION Spec
INVARIANTS Placement Completeness Synchronised
PROPERTIES BufferIntact Refinement
