CONSTANTS
  MaxSources = 3
  MaxListed = 2
  Torn = Torn
SPECIFICATION FairSpec
INVARIANTS TypeOK CompleteUnlessMixed
PROPERTY ExpandReturns
