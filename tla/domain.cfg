\* The parts of the company, one after the other: money and the bank, the houses of the
\* group, stock and service areas, people, sales, cover, complaints, the city and the terms
\* of the career, the story, the save, and the house as it is described and drawn.
SPECIFICATION DomainSpec
CONSTANTS
  \* FinanceBooks
  StartingCash = 1
  StartingAssets = 3
  StartingDebt = 2
  Openings = {2}
  UsefulLife = 2
  BorrowingLimit = 3
  DaysPerMonth = 2
  MonthsPerYear = 2
  TaxMonth = 1
  Takings = {2}
  Costs = {2}
  Shares <- SharesDef
  Interests = {1}
  Deposits = {1}
  SaleProceeds = {1}
  Terms = {2}
  LoanKinds <- LoanKindsDef
  MaxDealings = 2
  MaxDay = 4
  \* Group
  Flagship = 0
  Schemed = {1}
  ForSale = {2}
  Home = "home"
  Away = "away"
  Brands = {"b"}
  Checklist = {"staff"}
  ShortMonths = {1}
  AuditLimit = 3
  GroupCash = 2
  Price = 1
  Fee = 1
  Profits <- ProfitsDef
  RepairLimit = 0
  MaxOrders = 3
  MaxMonths = 2
  \* Supply
  Beds = {1, 2}
  LinenPieces = 1
  StartingLinen = 1
  LowStock = 1
  Minimum = 2
  LeadTime = 2
  CheckOutTime = 1
  LaundryTime = 2
  BreakfastTime = 0
  DayLength = 3
  MaxTurnround = 1
  MaxPlayerOrders = 1
  MaxOutages = 1
  MaxQuanta = 4
  \* Workforce
  Roles = {"reception"}
  Wages = {1, 2}
  Courses = {"service"}
  Duration = 2
  Entitlement = 2
  OvertimeTolerance = 1
  StartingMorale = 2
  ResignBelow = 2
  MinimumPerRole = 1
  MaxHires = 1
  MaxShiftDays = 2
  MaxStaffing = 3
  ShiftDaysPerMonth = 2
  \* Commercial
  Leads = {1, 2}
  AccountOf <- OneAccount
  Dates = {1, 2, 3}
  Guests = {"anna", "bert"}
  Stays = {1}
  PointsPerNight = 1
  PointValue = 2
  BreakageShare = 2
  SilverNights = 2
  BurnAt = 2
  Durations = {2, 5}
  AttributionLag = 1
  DaysAMonth = 4
  MaxCommercial = 4
  MaxCloses = 2
  \* Risk
  Plant = {1}
  PerilOf <- BoilerBurns
  NewCondition = 2
  FailsBelow = 1
  RepairedCondition = 1
  ServiceGain = 1
  ServiceEvery = 2
  MaxServices = 1
  Policies = {1}
  Perils = {"fire", "loss"}
  Sums = {0, 1}
  Loss = 1
  Rebuild = 1
  Assessments = {2}
  Rules <- Regulations
  RiskMonth = 2
  MaxRiskDays = 4
  MaxCoverChanges = 2
  \* GuestCare
  Parties = {"p1", "p2", "p3"}
  WaitTolerance = 1
  HandledLimit = 1
  GestureCost = 1
  RecoveryLimits = {0, 1}
  FullGoodwill = 2
  ComplaintCosts = 1
  FailureCosts = 2
  WonBack = 1
  CareCash = 2
  \* City
  Rivals = {1, 2}
  RivalRooms = 1
  RivalCash = 1
  RivalDebt = 0
  EntrantRooms = 1
  EntrantCash = 1
  EntrantDebt = 1
  PlayerRooms = 1
  DailyDemands = {2}
  DaysOfMonth = 1
  NightRate = 2
  RoomUpkeep = 1
  DebtRate = 1
  RatePeriod = 2
  BuildCost = 2
  CreditLine = 1
  TargetDebt = 2
  ExpansionRooms = 1
  ExpansionHurdle = 1
  RenovationHurdle = 0
  RenovationCost = 1
  BuildCooldown = 2
  Grudge = 1
  Forgiveness = 1
  NeutralRelation = 1
  BestRelation = 1
  FeedbackDelay = 1
  Effects = {0}
  Technologies = {"internet"}
  ProjectMonths = 1
  ShockMonths = 2
  MonthsAYear = 2
  MaxEntrants = 1
  MaxCityMonths = 2
  \* Story
  Tales = {"bet", "full"}
  BetTale = "bet"
  ChoicesOf <- InvestOrDecline
  CooldownOf <- TwoMonths
  BetMonths = 1
  People = {1}
  ReviewMonth = 2
  MaxStoryMonths = 3
  \* Utilities
  Kinds = {"energy", "waste"}
  ListPrice = 1
  StandingCharge = 1
  Offers = {1}
  Lengths = {2}
  Indexes = {1, 2}
  Savings = {2}
  MaxEfficiency = 2
  FullDraw = 4
  ProjectLength = 2
  Draws = {2}
  UtilityCash = 6
  DaysOfUtilityMonth = 2
  MaxUtilityDays = 5
  \* Facilities
  Seating <- SeatsDef
  KitchenLine = 3
  PerHand = 2
  WasteShare = 4
  Buffer = 5
  TakeUp <- TakeUpDef
  Full = 10
  Outside = {0, 1}
  TreatmentRooms = 1
  SlotsPerRoom = 2
  SpaTakeUp = 5
  DrawPerTreatment = 1
  MeterCapacity = 2
  Spaces = {"kiosk"}
  SpaceCapacity = 1
  SpaceStaff = 1
  SpaceFit = 10
  Promise = 30
  PrepMinutes = 29
  Laws <- LawsDef
  Duties <- DutiesDef
  Regulated = {"facility.breakfast_room"}
  TripsPerCar = 2
  Larder = 4
  Delivery = 2
  DaysOfHouseMonth = 2
  MaxGuests = 2
  MaxQuiet = 1
  MaxHouseDays = 2
  \* Ventures
  Schemes = {"new"}
  Targets = {"old"}
  CityOf <- SameCity
  Whole = 4
  NightsOfYear = 8
  MonthNights <- MonthNightsDef
  MonthsOfYear = 2
  OpeningCapture = 2
  RampMonths = 2
  Ancillary = 1
  Margin = 2
  Hurdle = 2
  Uncertainty = 1
  Multiple = 12
  Plans <- PlansDef
  Tasks = {"staff"}
  Areas = {"roof", "law"}
  AreaCost = 1
  Hidden <- HiddenDef
  OnSale <- OnSaleDef
  SoldOccupancy = 2
  SoldDivisor = 1
  Uplifts = {0, 2}
  Contracts <- ContractsDef
  LeaseRent = 1
  OfficeBase = 1
  OfficePerHouse = 1
  Transfers = {2}
  VentureCash = 8
  MaxDeals = 4
  MaxVentureMonths = 3
  \* Delegation
  DeskOrder <- DeskOrderDef
  Ceilings = {"overtime-cap"}
  Standards = {"service-level"}
  IdRank <- RankDef
  Figures = {0}
  StartingLimit <- WithinLimits
  Allowance = 1
  Inns = {"hotel"}
  StartingCapex = 0
  StartingRepair = 1
  Remedies = {1}
  Losses = {2}
  ResolvedKept = 1
  Doings <- DoingsDef
  MaxChecks = 2
  MaxAskMonths = 1
  MaxAnswers = 2
  \* LedgerHistory
  LedgerAccounts = {"takings", "plant"}
  Classed <- ClassedDef
  AccountRank <- LedgerRank
  DaysPostings <- DaysPostingsDef
  Favours = {2}
  Recent = 1
  Monthly = 4
  LedgerMonth = 2
  LedgerYear = 4
  MaxLedgerDays = 8
  \* SaveFormat
  SaveVersion = 19
  ContentVersion = "1991.1"
  Protocol = 6
  OldVersions = {12, 18}
  Definitions = {"segment.leisure"}
  Foreign = "segment.lunar"
  NoSave = NoSave
  Steps <- StepsDef
  Volumes = {2}
  FullVolume = 1
  Wrapping = 1
  MaxBytes = 4
  SealedRooms = {101, 102}
  MaxPlays = 2
  MaxCarried = 1
  \* Selling
  Channels = {"walkIn", "directPhone", "ota"}
  Commission <- CommissionDef
  Technical = {"ota"}
  BasisPoints = 4
  Rates = {4}
  RatePlans <- PlansSold
  SellingPolicies <- PoliciesSet
  PlainStrategy = 2
  Measures <- MeasuresDef
  Segments <- SegmentsDef
  LeadDays = {0, 1}
  Corporate <- AccountsDef
  AccountRate = 3
  Values = {5}
  MaxEnquiries = 2
  MaxSetting = 2
  MaxSaleDays = 2
  \* Lending
  Position <- PositionDef
  Hotels = 1
  Results <- MonthResults
  Principals = {12}
  LoanLengths = {2, 4}
  Profiles = {"linear", "annuity"}
  RateTypes = {"fixed", "variable"}
  Pledges = {0, 10}
  Macros = {1, 2}
  RateStep = 10000
  YearSteps = 12
  Strong = 10
  LeastCapacity = 20
  RefinanceLine = 30
  LongestTerm = 6
  Extra = 2
  Surcharge = 1
  Penalty = 1
  AdvisoryCost = 2
  Worth = 20
  HeadOfficeFloor = 3
  Reorganisation = 2
  MaxMoves = 2
  MaxLendMonths = 4
  \* MonthClose
  ReportedRooms = 2
  StayKinds <- StayKindsSet
  WageBills = {1}
  Conferences = {4}
  BriefingLimit = 3
  CauseLimit = 2
  NeutralEsteem = 5
  TopEsteem = 10
  WalkCost = 8
  OutageCost = 5
  Satisfactions = {"middling", "bad"}
  ReportDays = 2
  MaxReported = 3
  MaxHappenings = 1
  \* Scene
  FirstRooms = 4
  LastRoom = 5
  PerFloor = 2
  PerWing = 1
  LiftCars = 2
  TripMinutes = 2
  QuantumMinutes = 5
  Transit = 10
  Morning = 10
  Noon = 20
  Dusk = 30
  Night = 40
  DayMinutes = 50
  Seats = 5
  SeatsOfATable = 2
  MaxTables = 8
  RoomsOfParty <- PartiesDef
  Crew <- CrewDef
  MaxChanges = 3
  MaxShown = 5
  \* HotelPicture
  RoomFloor <- RoomFloorDef
  AreaKind <- AreaKindDef
  Walkers = {1}
  MinZoom = 1
  MaxZoom = 3
  TilesFrom = 2
  PeopleFrom = 3
  ButtonZoom = 2
  PeopleBudget = 1
  AlertTargets <- AlertTargetsDef
  MaxScenes = 2
  MaxEvents = 3
  \* Campaign
  OpeningCapital = 40
  OpeningRate = 900
  OpeningDebt = 30
  BankRates = {1100}
  Turned = {"capital", "accuracy"}
  Settings = {5000, 15000}
  ReportCost = 5
  ExpansionCost = 10
  HandlingPerDesk = 6
  BagsPerPorter = 5
  LobbyStates <- HousesDef
  CityMonths <- CityMonthsDef
  OwnRate = 100
  LeastRate = 30
  TopWillingness = 140
  Recoveries <- RecoveriesDef
  MaxTurns = 3
  MaxCampaignMonths = 1
  MaxLobbies = 1
INVARIANTS
  BooksBalance LedgerAgrees LateOnlyIfMissed
  CompanyAgrees MoneyIsAccountedFor HouseRuns RotaIsTheShadow CaredForOnce
  SalesAreKept RisksAreAnswered WorldIsFair StoryHolds FormatHolds PageShowsTheHouse
CHECK_DEADLOCK FALSE
