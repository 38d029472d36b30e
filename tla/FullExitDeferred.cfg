SPECIFICATION FairSpec
CONSTANTS
  Lots = 2
  MaxOrders = 1
PROPERTY KeptForRetry
CHECK_DEADLOCK FALSE
