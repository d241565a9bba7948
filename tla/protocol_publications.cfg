\* Snapshots, deltas, resynchronisation and saves, with losses, a failed tick,
\* a restart and a load.
SPECIFICATION Spec
CONSTANTS
  c = c
  a = a
  CommandIds = {c}
  Malformed = {}
  Sections = {a}
  Values = {0}
  Speeds = {1}
  None = None
  MaxRequests = 1
  MaxInits = 2
  MaxLoads = 1
  MaxControls = 2
  MaxQuiet = 2
  MaxLosses = 1
  MaxThrows = 1
  MaxInbox = 1
  MaxUnread = 3
  MaxOutbox = 1
INVARIANTS
  HeldIsPublished
  HalfRunIsDropped
CHECK_DEADLOCK FALSE
