CONSTANTS
  Port = {p1, p2}
  Worker = {w1, w2, w3}
  TTL = 2
  MaxStart = 1
  MaxHold = 2
  Panics = TRUE
SPECIFICATION FairSpec
INVARIANT PortsExclusive
PROPERTY LeakedPortsRecover
