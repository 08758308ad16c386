SPECIFICATION FairSupplySpec
CHECK_DEADLOCK FALSE
CONSTANTS
  btc = btc
  eth = eth
  b0 = b0
  b1 = b1
  e0 = e0
  q0 = q0
  NoEvent = NoEvent
  Event = {b0, b1, e0, q0}
  Asset = {btc, eth}
  AssetOf <- MCAssetOf
  StartOf <- MCStartOf
  Listing <- MCListing
  SlotLen = 2
  Lookahead = 2
  MaxNow = 4
  MaxStarts = 2
  DelistThreshold = 2
  PaperMode = FALSE
  OpenPrice <- MCOpenPrice
  Seeds <- MCSeeds
  Updates <- MCUpdates
  InitSettings <- MCInitSettings
  UserSets = {{"settings"}, {"pause", "credentials"}, {"restart"}}
INVARIANTS
  TypeOK
  RoutesMatchSubs
  SubscribedCoinTracked
  CurrentSlotOwns
  DelistExact
  RangesOrdered
PROPERTIES
  OncePerSlot
  LockLostOnlyByRace
  FetchEnds
