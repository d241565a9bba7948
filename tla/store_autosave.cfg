\* A load whose snapshot comes second.
SPECIFICATION Spec
CONSTANTS
  None = None
  MonthsPerYear = 2
  MaxMonth = 1
  MaxRequests = 2
  MaxAutosaves = 2
  MaxCommands = 0
  MaxTicks = 1
  MaxInputs = 2
  MaxLoads = 1
  MaxRestarts = 0
  MaxThrows = 0
  MaxStops = 0
  MaxInbox = 2
INVARIANTS
  AutosavesAreTimely
CHECK_DEADLOCK FALSE
