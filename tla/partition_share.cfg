CONSTANTS
  Instances <- Half
SPECIFICATION FairSpec
PROPERTIES PartitionEnds
