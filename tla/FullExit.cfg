SPECIFICATION FairSpec
CONSTANTS
  Lots = 2
  MaxOrders = 2
INVARIANTS FragmentsReal OrderTraceable
PROPERTIES ExitLedgerSpec Settles
CHECK_DEADLOCK FALSE
