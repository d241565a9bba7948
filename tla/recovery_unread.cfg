\* A read that fails in the middle of a rotation.
SPECIFICATION Spec
CONSTANTS
  manual = manual
  Slots = {manual}
  Generations = 3
  None = None
  MaxSaves = 5
  MaxLoads = 0
  MaxWriteFailures = 0
  MaxReadFailures = 1
  MaxDamage = 0
  MaxCrashes = 0
INVARIANTS
  LosesAtMostOne
CHECK_DEADLOCK FALSE
