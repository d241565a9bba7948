\* Two parties and one receptionist who needs two quanta for each.
SPECIFICATION Spec
CONSTANTS
  Rooms = {1, 2, 3}
  Opened = {1, 2, 3}
  CategoryOf <- Doubles
  AccountCategory = "double"
  BlockedCategory = "double"
  None = None
  QuantaPerDay = 6
  DemandAt = 2
  CheckoutAt = 3
  ArrivalAt = 4
  WalkAfter = 3
  CheckInQuanta = 2
  CleanQuanta = 1
  RenovationQuanta = 3
  OutageQuanta = {1}
  OverbookingLimit = 0
  RetentionDays = 2
  Nights = {1}
  LeadDays = {0, 1}
  Sizes = {2}
  CommandQuanta = {}
  Receptionists = {0, 1}
  Housekeepers = {1}
  MaxLabour = 1
  MaxBookings = 3
  MaxBlocks = 0
  MaxOutages = 0
  MaxDay = 2
INVARIANTS
  DeskServesAtItsRate
CHECK_DEADLOCK FALSE
