SPECIFICATION FairSpec
CONSTANTS
  p1 = p1
  p2 = p2
  a1 = a1
  a2 = a2
  b1 = b1
  b2 = b2
  NoCid = NoCid
  Pid = {p1, p2}
  Cid = {a1, a2, b1}
  PosOf <- MCPosOf
  MaxRetries = 3
  PaperModes = {TRUE, FALSE}
  FaultSets = {{"stop", "manual"}, {"stop", "crash", "dbWrite"}}
INVARIANTS
  TypeOK
  RetryOwnsClaim
  OneClaim
PROPERTIES
  SettledStays
  SettlementEnds
