CONSTANTS
  Total = 2
  NumModes = 1
  Concurrency = 0
  MaxNodes = 0
  Faults = {"port"}
  HashOf <- DistinctHashes
SPECIFICATION Spec
INVARIANT DeadMeansProbed
CHECK_DEADLOCK FALSE
