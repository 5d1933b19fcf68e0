SPECIFICATION MCSpec
CONSTANTS
  f1 = f1
  f2 = f2
  Units = {1, 2}
  Files = {f1, f2}
  MaxFactor = 7
  MaxPredefined = 2
  Asks = TRUE
  Instances <- LibraryCalls
  Block = 2
  Lengths = {0, 2, 4, 6}
  Existing <- NothingOrOlder
\* Programs stop, and one copy, one packing or one sorting is made.
CHECK_DEADLOCK FALSE
INVARIANTS OneLibraryPerUnit ServedByItsKind SubFileFound CopiedIsWhole PackedIsWhole KernelsAgree SortedAsAsked
PROPERTIES FactorAsAnnounced
