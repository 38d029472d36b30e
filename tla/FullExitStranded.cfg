SPECIFICATION Spec
CONSTANTS
  Lots = 2
  MaxOrders = 1
INVARIANT CommittedToFlatten
CHECK_DEADLOCK FALSE
