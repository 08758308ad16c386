SPECIFICATION Spec
CONSTANTS
  p1 = p1
  p2 = p2
  a1 = a1
  a2 = a2
  b1 = b1
  b2 = b2
  NoCid = NoCid
  Pid = {p1}
  Cid = {a1, a2}
  PosOf <- MCPosOf
  MaxRetries = 2
  PaperModes = {FALSE}
  FaultSets = {{"manual"}}
INVARIANT
  WonMeansRedeemed
