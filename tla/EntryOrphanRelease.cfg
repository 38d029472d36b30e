SPECIFICATION Spec
CONSTANTS
  trend = trend
  fut = fut
  cross = cross
  i1 = i1
  i2 = i2
  i3 = i3
  i4 = i4
  i5 = i5
  BTC = BTC
  ETH = ETH
  Bots = {fut}
  Bases = {BTC}
  Intents = {i1}
  NoEntry = NoEntry
  Account <- WalletOf
  BotOf <- BotOfEntry
  BaseOf <- BaseOfEntry
  Notional <- UnitNotional
  Enforcing = {}
  Ceiling = 1
  Orphans <- AllOrphans
  Unsettled = {}
PROPERTIES OrphanReleaseGeneric
CHECK_DEADLOCK FALSE
