CONSTANTS
  SourceLists <- ThreeFeeds
  MaxSources = 3
  MaxParts = 3
  Workers = 2
  MaxLines = 1
  MaxNested = 2
  Faults = {"panic"}
SPECIFICATION FairSpec
INVARIANTS TypeOK SlotAccounting EveryLineOnce FetchesWhatIsEnabled
PROPERTY GatherReturns
