CONSTANTS
  Hash = {h1, h2, h3}
  Torn = Torn
  NoFile = NoFile
  MaxRuns = 3
  Faults = {"crash", "open", "scan", "write", "rename"}
SPECIFICATION Spec
INVARIANT NothingTorn
PROPERTIES ReplacedAtOnce KeepsStored
SYMMETRY Symmetry
CHECK_DEADLOCK FALSE
