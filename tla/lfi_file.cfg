SPECIFICATION MCSpec
CONSTANTS
  Names = {a, b, c}
  Instances <- MCInstances
SYMMETRY Symmetry
\* A file may be full, and the bounds on the calls reached.
CHECK_DEADLOCK FALSE
INVARIANTS Disjoint Counters
PROPERTIES Refinement DamageOnlyByDeath
