CONSTANTS
  MaxBatches = 2
  NumRows = 2
  MaxTotal = 1
  Partial = Partial
  Faults = {"crash", "write", "generate", "query", "answer"}
SPECIFICATION ReportSpec
INVARIANTS DbHoldsOneBatch ExportedIsTrue SummaryTellsTruth HeartbeatTestedFinal
PROPERTIES DbNeverGoesBack HeartbeatStops
CHECK_DEADLOCK FALSE
