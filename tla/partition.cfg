CONSTANTS
  Instances <- AllOfIt
SPECIFICATION FairSpec
INVARIANTS Numbered Balanced WholeRows
PROPERTIES PartitionEnds
