CONSTANTS
  Total = 3
  NumModes = 1
  Concurrency = 2
  MaxNodes = 0
  Faults = {"cancel"}
  HashOf <- DistinctHashes
SPECIFICATION FairSpec
PROPERTY TestAllReturns
CHECK_DEADLOCK FALSE
