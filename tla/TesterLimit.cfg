CONSTANTS
  Total = 4
  NumModes = 1
  Concurrency = 2
  MaxNodes = 1
  Faults = {"config", "panic"}
  HashOf <- DistinctHashes
SPECIFICATION FairSpec
INVARIANTS OvershootBound CompleteCoverage
PROPERTY TestAllReturns
