SPECIFICATION FairSpec
CONSTANTS
  trend = trend
  fut = fut
  cross = cross
  i1 = i1
  i2 = i2
  i3 = i3
  i4 = i4
  i5 = i5
  BTC = BTC
  ETH = ETH
  Bots = {fut, cross, trend}
  Bases = {BTC, ETH}
  Intents = {i1, i2, i3, i4, i5}
  NoEntry = NoEntry
  Account <- WalletOf
  BotOf <- BotOfEntry
  BaseOf <- BaseOfEntry
  Notional <- UnitNotional
  Enforcing = {trend}
  Ceiling = 1
  Orphans <- AllOrphans
  Unsettled = {i2}
INVARIANTS ReservationSettled
PROPERTIES ManagedClaimKept OwnershipSpec AdmissionCeiling StaleRemovalHarmless AbandonedAdmissionSettles LegacyReservationSettles
CONSTRAINT Apart
CHECK_DEADLOCK FALSE
