CONSTANTS
  Total = 3
  NumModes = 2
  Concurrency = 2
  MaxNodes = 0
  Faults = {"cancel", "port", "panic"}
  HashOf <- TwinHashes
SPECIFICATION Spec
INVARIANTS SlotAccounting ListedWasTried ReportedAndListedHasTwin UnslottedNeverReturns
PROPERTIES ResultsFinal ImplementsPool
CHECK_DEADLOCK FALSE
