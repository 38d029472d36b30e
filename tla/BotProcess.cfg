CONSTANTS
  MaxRuns = 3
  Faults = {"spawn", "rollback", "reader", "channel"}
SPECIFICATION FairSpec
INVARIANT Owned
INVARIANT CleanupAlone
INVARIANT KillJustified
PROPERTY CloseNotDowngraded
PROPERTY WatchedStopSettles
CHECK_DEADLOCK FALSE
