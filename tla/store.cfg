\* Saves of every kind with a worker that stops; commands, controls and a load with
\* a restart and a failed tick.
SPECIFICATION FairSpec
CONSTANTS
  None = None
  MonthsPerYear = 2
  MaxMonth = 1
  MaxRequests = 3
  MaxAutosaves = 3
  MaxCommands = 2
  MaxTicks = 0
  MaxInputs = 2
  MaxLoads = 1
  MaxRestarts = 1
  MaxThrows = 1
  MaxStops = 1
  MaxInbox = 2
CONSTRAINT SavesOrVerdicts
INVARIANTS
  SaveLandsInItsSlot MajorActionSavedFirst StatusIsOfNewestCommand
PROPERTIES
  RequestsSettle
CHECK_DEADLOCK FALSE
