SPECIFICATION FairSpec
CONSTANTS
  p1 = p1
  p2 = p2
  p3 = p3
  e1 = e1
  e2 = e2
  up = up
  down = down
  up2 = up2
  btc = btc
  NoPid = NoPid
  Event = {e1, e2}
  Token = {up, down, up2}
  Asset = {btc}
  EventOf <- MCEventOf
  TokenOf <- MCTokenOf
  AssetOf <- MCAssetOf
  Pid = {p1}
  PaperMode = FALSE
  TpReevaluate = TRUE
  EventMax = 1
  BotMax = 1
  Faults = {"stop"}
PROPERTY
  NoOrphan
