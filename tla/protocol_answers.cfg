\* Every queued command is answered while the game runs: retries, a failed tick, a load.
SPECIFICATION FairSpec
CONSTANTS
  c = c
  bad = bad
  CommandIds = {c, bad}
  Malformed = {bad}
  Sections = {}
  Values = {}
  Speeds = {1}
  None = None
  MaxRequests = 2
  MaxInits = 2
  MaxLoads = 1
  MaxControls = 2
  MaxQuiet = 0
  MaxLosses = 0
  MaxThrows = 2
  MaxInbox = 1
  MaxUnread = 1
  MaxOutbox = 0
INVARIANTS
  VerdictReachesItsCaller
PROPERTIES
  AnsweredWhileRunning
CHECK_DEADLOCK FALSE
