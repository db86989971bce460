SPECIFICATION Spec
CONSTANTS
  SourceLists <- MixedLists
  MaxSources = 2
  MaxParts = 2
  Workers = 1
  MaxLines = 1
  MaxNested = 1
  Faults = {}
INVARIANT DefaultSourcesUsed
