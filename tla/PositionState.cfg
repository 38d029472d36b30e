CONSTANTS
  g1 = g1
  g2 = g2
  None = None
  MaxThreads = 2
  Gens = {g1, g2}
  MaxOps = 3
  MaxFaults = 1
  MaxCrashes = 1
  MaxOthers = 1
SPECIFICATION FairSpec
INVARIANT NewestKept
INVARIANT RestartTruth
INVARIANT MirrorHonest
INVARIANT OrderUndisturbed
PROPERTY ClaimKept
PROPERTY PendingSettles
CHECK_DEADLOCK FALSE
