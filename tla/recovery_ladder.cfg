\* Rotations among slot writes, aborted transactions, failed reads, damage, the end
\* of the page, and a load that reads its candidates meanwhile.
SPECIFICATION FairSpec
CONSTANTS
  manual = manual
  Slots = {manual}
  Generations = 3
  None = None
  MaxSaves = 4
  MaxLoads = 1
  MaxWriteFailures = 1
  MaxReadFailures = 1
  MaxDamage = 1
  MaxCrashes = 1
INVARIANTS
  LoadFallsBackToNewest
  LosesAtMostOneIfReadable
  LadderInOrder
PROPERTIES
  QueuedIsRotated
CHECK_DEADLOCK FALSE
