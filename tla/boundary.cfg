\* Long histories of commands, and short ones that draw, emit, fail, save and load.
SPECIFICATION Spec
CONSTANTS
  p1 = p1
  PlayerIds = {p1}
  Hotels = {0, 1}
  None = None
  LogLimit = 2
  JournalLimit = 1
  MaxDecisions = 4
  MaxDraws = 1
  MaxEvents = 2
  MaxQueue = 2
CONSTRAINT LongHistoriesAreQuiet
INVARIANTS
  StreamsMatchState EventsInOrderOnce OnlyAcceptedCommandsCauseEvents
  AcceptedOnceInWindow OneWinnerPerVersion DecidedInOrder StandingOrdersAreFresh
PROPERTIES
  ImplementsAtomicCommands
CHECK_DEADLOCK FALSE
