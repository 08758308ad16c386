SPECIFICATION Spec
CONSTANTS
  p1 = p1
  p2 = p2
  p3 = p3
  e1 = e1
  e2 = e2
  up = up
  down = down
  up2 = up2
  btc = btc
  NoPid = NoPid
  Event = {e1, e2}
  Token = {up, down, up2}
  Asset = {btc}
  EventOf <- MCEventOf
  TokenOf <- MCTokenOf
  AssetOf <- MCAssetOf
  Pid = {p1, p2, p3}
  PaperMode = TRUE
  TpReevaluate = TRUE
  EventMax = 2
  BotMax = 1
  Faults = {"stop", "crash"}
INVARIANT
  OpenCap
PROPERTY
  PaperSalePriced
