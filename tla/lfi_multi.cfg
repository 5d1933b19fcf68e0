SPECIFICATION MCSpec
CONSTANTS
  A = A
  B = B
  T = T
  Names = {n1, n2}
  Lens = {1}
  Mains = {A, B, T}
  Naming = "absolute"
  Relative = FALSE
  Instances <- MCInstances
SYMMETRY Symmetry
\* The bounds on the calls may be reached.
CHECK_DEADLOCK FALSE
INVARIANTS NeverAborts NoOrphans
PROPERTIES Refinement ToolResult OldOrNew
