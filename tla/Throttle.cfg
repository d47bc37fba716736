CONSTANTS
  p = p
  open = open
  closed = closed
  Peers <- MCPeers
  Rates <- MCRates
  Unlimited = unlimited
  Second = 5
  Times <- MCTimes
  NoBucket = nobucket
  Never = never
SPECIFICATION Spec
INVARIANTS TypeOK WithinRate RefusalsEnd
