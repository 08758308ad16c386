SPECIFICATION Spec
CONSTANTS
  btc = btc
  b0 = b0
  b1 = b1
  NoEvent = NoEvent
  Event = {b0, b1}
  Asset = {btc}
  AssetOf <- MCAssetOf
  StartOf <- MCStartOf
  Listing <- MCListing
  SlotLen = 2
  Lookahead = 1
  MaxNow = 3
  MaxStarts = 1
  DelistThreshold = 1
  PaperMode = TRUE
  OpenPrice <- MCOpenPrice
  Seeds <- MCSeeds
  Updates = {}
  InitSettings <- MCInitSettings
  UserSets = {{}}
  StaleTicks = 1
  CoinStale = 1
  Quotes <- MCQuotes
  UsdPrices = {9}
  BotMax = 1
  BotMaxChoices = {1, 2}
INVARIANTS
  EntryTypeOK
PROPERTIES
  EntryOnItsEvent
  EntrySound
  ForeignPtbOnlyUnfetched
