SPECIFICATION MCSpec
CONSTANTS
  Environments <- MCEnvironments
  Options <- MCOptions
  Depth = 50
  Inc = 1
  Builds <- MCBuilds
  Main = "main"
  Blocks = {"x", "y"}
  WordLen = 2
  Ranges = 1
\* Programs stop, and the bounds on the calls may be reached.
CHECK_DEADLOCK FALSE
INVARIANTS CallsFollowed ReportsAreRight FirstSignalDecides MemoryAccounts
PROPERTIES ClosesItsOwn HandledEnds OverrunFound
