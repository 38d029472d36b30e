CONSTANTS
  scan = scan
  monitor = monitor
  reconcile = reconcile
  futures = futures
  None = None
  Dead = Dead
  Threads = {scan, monitor, reconcile}
  Processes = {futures}
  ProcessOf <- McOneBot
  KeyOf <- McKeys
  FailOpen = {monitor}
  MayFail = TRUE
SPECIFICATION FairSpec
INVARIANT HandoffSuffices
PROPERTY MutexSpec
PROPERTY LateReleaseHarmless
PROPERTY LeaseAccounted
PROPERTY AlwaysCloses
