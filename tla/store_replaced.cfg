\* A worker that stopped with a pause in flight.
SPECIFICATION Spec
CONSTANTS
  None = None
  MonthsPerYear = 2
  MaxMonth = 0
  MaxRequests = 3
  MaxAutosaves = 0
  MaxCommands = 1
  MaxTicks = 0
  MaxInputs = 2
  MaxLoads = 0
  MaxRestarts = 0
  MaxThrows = 0
  MaxStops = 1
  MaxInbox = 2
INVARIANTS
  PauseShownWasAnswered
CHECK_DEADLOCK FALSE
