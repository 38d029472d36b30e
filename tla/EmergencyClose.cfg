CONSTANTS
  MaxSignals = 1
  MaxRequests = 2
  MaxFaults = 1
  MaxOpen = 1
  MaxPasses = 2
SPECIFICATION FairSpec
INVARIANT SoloCloser
INVARIANT PreservedSpared
INVARIANT EndsSettled
PROPERTY RequestObeyed
PROPERTY PreserveEnds
CHECK_DEADLOCK FALSE
