------------------------------ MODULE MC_Domain ------------------------------
(***************************************************************************)
(* The parts of the company beside one another, for TLC: a behaviour       *)
(* follows one part, chosen at its start, through all it can do, while the *)
(* others rest.  No part here writes what another one reads, so that what  *)
(* a part does it does whichever of the others moved in between.           *)
(***************************************************************************)
EXTENDS MC_FinanceBooks, Group, Workforce, Risk, GuestCare, Story, Ventures,
        Delegation, LedgerHistory, SaveFormat, Lending, MonthClose, Scene,
        HotelPicture, House, Trade

Parts ==
  {"books", "group", "supply", "workforce", "commercial", "risk", "care", "city", "story",
   "utilities", "facilities", "ventures", "delegation", "history", "format", "selling",
   "lending", "report", "scene", "picture", "campaign"}

\* Values of constants.
ProfitsDef == {-1, 0, 1}
OneAccount == [l \in Leads |-> "firm"]
BoilerBurns == [a \in Plant |-> "fire"]
Regulations ==
  {[order |-> 1, area |-> "safety", requirement |-> 2, notice |-> 0, effective |-> 1,
    graceEnds |-> 1, facility |-> "spa", whenDear |-> FALSE],
   [order |-> 2, area |-> "labor", requirement |-> 1, notice |-> 0, effective |-> 0,
    graceEnds |-> 2, facility |-> "spa", whenDear |-> TRUE]}
InvestOrDecline == [d \in Tales |-> {"invest", "decline"}]
TwoMonths == [d \in Tales |-> 2]

SeatsDef == [o \in Outlets |-> IF o = "breakfastRoom" THEN 3 ELSE 2]
TakeUpDef == [breakfastRoom |-> 10, restaurant |-> 6, bar |-> 6, roomService |-> 5]
AllHands == [d \in Departments |-> 1]
DutiesDef ==
  {[hands |-> AllHands, lifts |-> 1],
   [hands |-> [AllHands EXCEPT !["wellness"] = 0, !["reception"] = 0], lifts |-> 0]}
LawsDef == {Open, [closed |-> TRUE, halved |-> FALSE], [closed |-> FALSE, halved |-> TRUE]}

PlansDef ==
  {[rooms |-> 2, adr |-> 4, occupancy |-> 2, investment |-> 4],
   [rooms |-> 1, adr |-> 1, occupancy |-> 2, investment |-> 6]}
HiddenDef == [t \in Targets |-> [a \in Areas |-> IF a = "roof" THEN 2 ELSE 1]]
OnSaleDef == [t \in Targets |-> [rooms |-> 2, annualGop |-> 2, need |-> 1, debt |-> 1]]
SameCity == [h \in Schemes \cup Targets |-> "town"]
MonthNightsDef == <<4, 3>>
ContractsDef ==
  {[kind |-> "owned", terms |-> 0], [kind |-> "lease", terms |-> 1],
   [kind |-> "management", terms |-> 1], [kind |-> "franchise", terms |-> 2]}

DeskOrderDef == <<"fnb", "reception">>
RankDef ==
  [d \in Desks \cup Inns \cup Matters |->
     CASE d \in {"fnb", "overtime-cap"} -> 1
       [] d \in {"reception", "service-level"} -> 2
       [] OTHER -> 3]
WithinLimits == [m \in Matters |-> 1]
Strained == [m \in Matters |-> IF m \in Ceilings THEN 2 ELSE 0]
DoingsDef == {[d \in Desks |-> IF d \in S THEN Strained ELSE WithinLimits] : S \in SUBSET Desks}

DaysPostingsDef ==
  {{}, {[account |-> "takings", amount |-> 2], [account |-> "plant", amount |-> -1]}}
ClassedDef == [takings |-> "operating", plant |-> "investing"]
LedgerRank == [takings |-> 2, plant |-> 1]

StepsDef == <<"price", "bookings">>

CommissionDef == [walkIn |-> 0, directPhone |-> 0, ota |-> 2]
PlansSold ==
  {FlexiblePlan, [FlexiblePlan EXCEPT !.modifier = 3, !.maximum = 1, !.floor = 2, !.closedTo = {"ota"}]}
PoliciesSet ==
  {[OpenPolicy EXCEPT !.authority = 1, !.strategy = 4,
                      !.rules = <<[metric |-> "occupancy", from |-> 2, change |-> 3]>>],
   [OpenPolicy EXCEPT !.authority = 2, !.strategy = 1, !.costLimit = 1, !.floor = 2,
                      !.rules = <<[metric |-> "leadTime", from |-> 1, change |-> -4],
                                  [metric |-> "forecast", from |-> 0, change |-> 4]>>]}
MeasuresDef == [occupancy : {0, 4}, forecast : {0}]
SegmentsDef == {[willing |-> 4, nights |-> 1], [willing |-> 8, nights |-> 2]}
AccountsDef == {[willing |-> 4, nights |-> 1]}

PositionDef ==
  [funds |-> 12, equity |-> 8, property |-> 20, headOffice |-> 4,
   loans |-> <<[principal |-> 12, rate |-> 1, term |-> 3, profile |-> "bullet", rateType |-> "fixed",
               spread |-> 0, start |-> 0, pledge |-> 10]>>]
MonthResults == {-20, 12}

StayKindsSet ==
  {[rooms |-> 1, onTerms |-> FALSE, rate |-> 2], [rooms |-> 2, onTerms |-> TRUE, rate |-> 2]}

PartiesDef == [one |-> 1, two |-> 2]
CrewDef == 1 :> "housekeeping" @@ 2 :> "reception" @@ 3 :> "fnb"

RoomFloorDef == <<1, 2>>
AreaKindDef == [bar |-> "public", laundry |-> "service"]
AlertTargetsDef == {AreaAt("bar"), Street}

Phones == [s \in {"smartphone"} |-> 2500]
AllTaken == [s \in {"smartphone", "personal-computer"} |-> 4000]
QuietLobby ==
  [queue |-> 0, stays |-> 2, due |-> 0, desk |-> 2, condition |-> 80, adoption |-> <<>>, installed |-> {}]
HousesDef ==
  {QuietLobby,
   [QuietLobby EXCEPT !.due = 2, !.stays = 9, !.condition = 50],
   [QuietLobby EXCEPT !.queue = 1, !.adoption = AllTaken, !.installed = {"personal-computer"}],
   [QuietLobby EXCEPT !.queue = 4, !.desk = 0],
   [QuietLobby EXCEPT !.queue = 4, !.adoption = Phones, !.installed = {"smartphone"}],
   [QuietLobby EXCEPT !.queue = 6, !.due = 2, !.adoption = AllTaken,
                      !.installed = {"personal-computer", "smartphone"}]}
CityMonthsDef ==
  {[nights |-> 60, rate |-> 80, occupancy |-> 3000, pressure |-> 9000, interest |-> 500],
   [nights |-> 90, rate |-> 150, occupancy |-> 9500, pressure |-> 14000, interest |-> 1300],
   [nights |-> 60, rate |-> 150, occupancy |-> 3000, pressure |-> 9000, interest |-> 1300]}
RecoveriesDef == {0, 6}

\* The part that is followed begins as its module says, the others have no state at
\* all, or the first of theirs where what they keep to is looked at throughout; the
\* books are kept throughout as well.
Resting == "resting"

DomainInit ==
  /\ focus \in Parts
  /\ BooksInit
  /\ \/ focus = "group" /\ GroupInit
     \/ focus # "group" /\ company = Resting /\ purse = Resting /\ closed = Resting
        /\ orders = Resting /\ brought = Resting /\ sold = Resting
  /\ \/ focus = "supply" /\ SupplyInit
     \/ focus # "supply" /\ rooms = Resting /\ linen = Resting /\ made = Resting
        /\ stock = Resting /\ coming = Resting /\ standing = Resting /\ outage = Resting
        /\ moment = Resting /\ asked = Resting
  /\ \/ focus = "workforce" /\ WorkforceInit
     \/ focus # "workforce" /\ employees = <<>> /\ staff = <<>> /\ shiftDay = Resting
        /\ staffOrders = Resting
  /\ \/ focus = "commercial" /\ CommercialInit
     \/ focus # "commercial" /\ leads = Resting /\ contracts = Resting /\ scheme = Resting
        /\ members = Resting /\ profiles = Resting /\ campaigns = Resting /\ closes = Resting
        /\ dealt = Resting
  /\ RiskInit
  /\ CareInit
  /\ \/ focus = "city" /\ CityInit
     \/ focus # "city" /\ rivals = Resting /\ failed = Resting /\ entrants = Resting
        /\ market = Resting /\ playerNights = Resting /\ world = Resting /\ technology = Resting
        /\ cityDay = Resting
  /\ StoryInit
  /\ focus = "story" \/ onDuty = {}
  /\ \/ focus = "utilities" /\ UtilitiesInit
     \/ focus # "utilities" /\ utilityDay = Resting /\ tariffs = Resting /\ projects = Resting
        /\ standby = Resting /\ meters = Resting /\ till = Resting /\ bought = Resting
        /\ indexNow = Resting
  /\ \/ focus = "facilities" /\ FacilitiesInit
     \/ focus # "facilities" /\ hour = Resting /\ houseDay = Resting /\ guests = Resting
        /\ larder = Resting /\ outlets = Resting /\ spa = Resting /\ drawn = Resting
        /\ trips = Resting /\ units = Resting /\ law = Resting /\ duty = Resting
        /\ shown = Resting /\ facilityBoard = Resting /\ announced = Resting /\ tally = Resting
  /\ \/ focus = "ventures" /\ VenturesInit
     \/ focus # "ventures" /\ month = Resting /\ coffer = Resting /\ schemes = Resting
        /\ reports = Resting /\ held = Resting /\ contract = Resting /\ accounts = Resting
        /\ parted = Resting /\ allotted = Resting /\ history = Resting /\ spentOn = Resting /\ deals = Resting
  /\ \/ focus = "delegation" /\ DelegationInit
     \/ focus # "delegation" /\ period = Resting /\ checks = Resting /\ limits = Resting
        /\ mandate = Resting /\ register = Resting /\ granted = Resting /\ waiting = Resting
        /\ answers = Resting
  /\ \/ focus = "history" /\ LedgerInit
     \/ focus # "history" /\ ledger = Resting /\ opening = Resting /\ lastFlow = Resting
        /\ drawer = Resting /\ days = Resting /\ posted = Resting /\ unread = Resting
        /\ reported = Resting
  /\ FormatInit
  /\ \/ focus = "selling" /\ SellingInit
     \/ focus # "selling" /\ saleDay = Resting /\ price = Resting /\ policy = Resting
        /\ plan = Resting /\ shut = Resting /\ online = Resting /\ sales = Resting
        /\ halted = Resting /\ billed = Resting /\ settings = Resting /\ enquiries = Resting
  /\ \/ focus = "lending" /\ LendingInit
     \/ focus # "lending" /\ funds = Resting /\ unpaid = Resting /\ equity = Resting
        /\ property = Resting /\ loans = Resting /\ conduct = Resting /\ esteem = Resting
        /\ investors = Resting /\ headOffice = Resting /\ result = Resting /\ macroRate = Resting
        /\ outcome = Resting /\ lendMonth = Resting /\ lent = Resting /\ returned = Resting
        /\ vanished = Resting /\ disposed = Resting /\ lendMoves = Resting
  /\ \/ focus = "report" /\ ReportInit
     \/ focus # "report" /\ reportDay = Resting /\ totals = Resting /\ report = Resting
        /\ baseline = Resting /\ regard = Resting /\ cityNights = Resting /\ past = Resting
        /\ happenings = Resting
  /\ \/ focus = "scene" /\ SceneInit
     \/ focus # "scene" /\ scenery = Resting /\ clock = Resting /\ floorPlan = Resting
        /\ figures = Resting /\ cars = Resting /\ situations = Resting /\ fresh = Resting
        /\ before = Resting /\ changes = Resting
  /\ \/ focus = "picture" /\ PictureInit
     \/ focus # "picture" /\ news = Resting /\ camera = Resting /\ selected = Resting
        /\ flagship = Resting /\ scenes = Resting /\ mounts = Resting /\ mounted = Resting
        /\ current = Resting /\ ready = Resting /\ painted = Resting /\ drawnFor = Resting
        /\ followedFor = Resting /\ moved = Resting /\ events = Resting
  /\ \/ focus = "campaign" /\ CampaignInit
     \/ focus # "campaign" /\ terms = Resting /\ funding = Resting /\ debts = Resting
        /\ begun = Resting /\ research = Resting /\ wanted = Resting /\ patience = Resting
        /\ rival = Resting /\ labour = Resting /\ danger = Resting /\ service = Resting
        /\ lobby = Resting /\ floor = Resting /\ stars = Resting /\ starsTold = Resting
        /\ turns = Resting /\ spells = Resting

DomainNext ==
  /\ UNCHANGED focus
  /\ \/ focus = "books" /\ BooksNext
     \/ focus = "group" /\ GroupNext
     \/ focus = "supply" /\ SupplyNext
     \/ focus = "workforce" /\ WorkforceNext
     \/ focus = "commercial" /\ CommercialNext
     \/ focus = "risk" /\ RiskNext
     \/ focus = "care" /\ CareNext
     \/ focus = "city" /\ CityNext
     \/ focus = "story" /\ StoryNext
     \/ focus = "utilities" /\ UtilitiesNext
     \/ focus = "facilities" /\ FacilitiesNext
     \/ focus = "ventures" /\ VenturesNext
     \/ focus = "delegation" /\ DelegationNext
     \/ focus = "history" /\ LedgerNext
     \/ focus = "format" /\ FormatNext
     \/ focus = "selling" /\ SellingNext
     \/ focus = "lending" /\ LendingNext
     \/ focus = "report" /\ ReportNext
     \/ focus = "scene" /\ SceneNext
     \/ focus = "picture" /\ PictureNext
     \/ focus = "campaign" /\ CampaignNext
  /\ focus # "books" => UNCHANGED booksVars
  /\ focus # "group" => UNCHANGED groupVars
  /\ focus # "supply" => UNCHANGED supplyVars
  /\ focus # "workforce" => UNCHANGED workforceVars
  /\ focus # "commercial" => UNCHANGED commercialVars
  /\ focus # "risk" => UNCHANGED riskVars
  /\ focus # "care" => UNCHANGED careVars
  /\ focus # "city" => UNCHANGED cityVars
  /\ focus # "story" => UNCHANGED storyVars
  /\ focus # "utilities" => UNCHANGED utilityVars
  /\ focus # "facilities" => UNCHANGED facilityVars
  /\ focus # "ventures" => UNCHANGED ventureVars
  /\ focus # "delegation" => UNCHANGED delegationVars
  /\ focus # "history" => UNCHANGED ledgerVars
  /\ focus # "format" => UNCHANGED formatVars
  /\ focus # "selling" => UNCHANGED sellingVars
  /\ focus # "lending" => UNCHANGED lendingVars
  /\ focus # "report" => UNCHANGED reportVars
  /\ focus # "scene" => UNCHANGED sceneVars
  /\ focus # "picture" => UNCHANGED pictureVars
  /\ focus # "campaign" => UNCHANGED campaignVars

domainVars ==
  <<focus, booksVars, groupVars, supplyVars, workforceVars, commercialVars, riskVars,
    careVars, cityVars, storyVars, utilityVars, facilityVars, ventureVars,
    delegationVars, ledgerVars, formatVars, sellingVars, lendingVars, reportVars, sceneVars,
    pictureVars, campaignVars>>

DomainSpec == DomainInit /\ [][DomainNext]_domainVars
-----------------------------------------------------------------------------
(* Properties, by department; a part is looked at in its own behaviours,   *)
(* for in the others it rests as it began.  What the rota, the complaints, *)
(* the covers, the story and the saves keep to is checked as their modules *)
(* state it: RotaIsTheShadow, CaredForOnce, RisksAreAnswered, StoryHolds   *)
(* and FormatHolds.                                                        *)

\* What money is told about it adds up: the ledger over years of compaction, the month that
\* is reported, and what the bank lent (history.ts, GameSimulation.ts:3404).
MoneyIsAccountedFor ==
  /\ focus = "history" => LedgerHolds
  /\ focus = "report" => ReportHolds
  /\ focus = "lending" => LendingHolds

\* What the page draws is what the game described, and that is the house (PixiHotelScene.ts,
\* GameSimulation.ts:3918).
PageShowsTheHouse ==
  /\ focus = "scene" => SceneHolds
  /\ focus = "picture" => PictureHolds
=============================================================================
