CONSTANTS
  Total = 3
  HashOf <- TwinHashes
  NumModes = 2
  Bound = 2
  MaxNodes = 3
  DryRun = FALSE
  HasDb = TRUE
  MaxRuns = 2
  Faults = {"cancel", "panic", "db", "save", "crash"}
SPECIFICATION Spec
INVARIANTS SavedNotRetested ServedNotListed CollectsWhatPassed DeadDetectedAddsUp
PROPERTY LostOnlyInFallback
CHECK_DEADLOCK FALSE
