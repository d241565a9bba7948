\* Bookings, arrivals, walks, no-shows, an outage, a block and the conversion.
SPECIFICATION Spec
CONSTANTS
  Rooms = {1, 2, 3}
  Opened = {1, 2}
  CategoryOf <- Doubles
  AccountCategory = "double"
  BlockedCategory = "double"
  None = None
  QuantaPerDay = 5
  DemandAt = 2
  CheckoutAt = 3
  ArrivalAt = 4
  WalkAfter = 2
  CheckInQuanta = 1
  CleanQuanta = 1
  RenovationQuanta = 2
  OutageQuanta = {1}
  OverbookingLimit = 0
  RetentionDays = 1
  Nights = {1, 2}
  LeadDays = {0, 1, 2}
  Sizes = {2}
  CommandQuanta = {0}
  Receptionists = {0, 1}
  Housekeepers = {1}
  MaxLabour = 1
  MaxBookings = 2
  MaxBlocks = 1
  MaxOutages = 1
  MaxDay = 2
INVARIANTS
  OccupiedIsStayedIn
  PartyHasItsRooms
  NightsAreNotOversold
  OutOfOrderOnlyInOutage
  ChargedOnceForAbsence
PROPERTIES
  WalkedOnlyWhenShort
CHECK_DEADLOCK FALSE
