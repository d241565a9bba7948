---------------------------------- MODULE City ----------------------------------
(***************************************************************************)
(* The city around the house: the nights it splits between all houses each *)
(* morning, the month the rivals close on what they sold, what they        *)
(* remember of the player, the rivals that fail, build and enter, and the  *)
(* world's months: shocks that pass and technology the house adopts.       *)
(*                                                                         *)
(* Money, rates and land are small whole units; how a day's nights are     *)
(* split, the season, wages and the weather are choices made by the        *)
(* environment within what the code allows.                                *)
(***************************************************************************)
EXTENDS Integers, Sequences, FiniteSets, Functions

CONSTANTS
  Rivals,                \* houses the city opens with, numbered from 1
  RivalRooms, RivalCash, RivalDebt,
  EntrantRooms, EntrantCash, EntrantDebt,
  PlayerRooms,
  DailyDemands,          \* nights the city may want on a day
  DaysOfMonth,
  NightRate,             \* what a night brings a rival after its costs
  RoomUpkeep,            \* what holding a room costs a month
  DebtRate, RatePeriod,  \* a month's interest on a debt, rounded half up
  BuildCost,             \* what a room costs to build
  CreditLine,            \* what a lender advances against a room
  TargetDebt,            \* what a strategy will owe against a room
  ExpansionRooms, ExpansionHurdle, RenovationHurdle, RenovationCost,
  BuildCooldown,
  Grudge, Forgiveness, NeutralRelation, BestRelation,
  FeedbackDelay, Effects,
  Technologies, ProjectMonths,
  ShockMonths, MonthsAYear,
  MaxEntrants,           \* bound: houses that enter
  MaxCityMonths          \* bound: months

ASSUME CityAssumption ==
  /\ IsFiniteSet(Rivals) /\ Rivals = 1 .. Cardinality(Rivals)
  /\ DailyDemands \subseteq Nat /\ Effects \subseteq Nat
  /\ {RivalRooms, RivalCash, RivalDebt, EntrantRooms, EntrantCash, EntrantDebt,
      PlayerRooms, NightRate, RoomUpkeep, BuildCost, CreditLine, TargetDebt,
      ExpansionRooms, RenovationCost, BuildCooldown, Grudge, Forgiveness,
      DebtRate, BestRelation, MaxEntrants, MaxCityMonths} \subseteq Nat
  /\ ExpansionHurdle \in Int /\ RenovationHurdle \in Int
  /\ NeutralRelation \in 0 .. BestRelation
  /\ {DaysOfMonth, RatePeriod, FeedbackDelay, ProjectMonths, ShockMonths, MonthsAYear} \subseteq Nat \ {0}

VARIABLES
  rivals,       \* the houses still trading, by id
  failed,       \* houses that have left the city
  entrants,     \* houses that have ever entered
  market,       \* nights sold in the city this month, and the feedback on its way
  playerNights, \* nights the player's ledger has recognised this month
  world,        \* months passed, and shocks not yet over
  technology,   \* projects under way and technologies in use
  cityDay       \* days of the month gone

cityVars == <<rivals, failed, entrants, market, playerNights, world, technology, cityDay>>

AtMost(a, b) == IF a < b THEN a ELSE b
AtLeast(a, b) == IF a > b THEN a ELSE b

Opened(rooms, cash, debt, since) ==
  [rooms |-> rooms, cash |-> cash, debt |-> debt, sold |-> 0,
   status |-> "operate", relation |-> NeutralRelation, since |-> since]

CityInit ==
  /\ rivals = [c \in Rivals |-> Opened(RivalRooms, RivalCash, RivalDebt, BuildCooldown)]
  /\ failed = {} /\ entrants = 0
  /\ market = [sold |-> 0, pipeline |-> [i \in 1 .. FeedbackDelay |-> 0], uplift |-> 0]
  /\ playerNights = 0
  /\ world = [months |-> 0, shocks |-> {}]
  /\ technology = [projects |-> <<>>, adopted |-> {}]
  /\ cityDay = 0
-----------------------------------------------------------------------------
(* A day: the night before is recognised at midnight, the new day's nights *)
(* are split in the morning.                                               *)

TotalRooms(houses) == SumFunction([c \in DOMAIN houses |-> houses[c].rooms])
TotalSold(houses) == SumFunction([c \in DOMAIN houses |-> houses[c].sold])

Player == 0   \* the player's house among the numbered ones

\* No house sells a room it does not have, and nobody is turned away while one
\* is free; the player's part of it is a share, not a sale.
Splits(houses, nights) ==
  {split \in [DOMAIN houses \cup {Player} -> 0 .. nights] :
     /\ \A c \in DOMAIN houses : split[c] <= houses[c].rooms
     /\ split[Player] <= PlayerRooms
     /\ SumFunction(split) = AtMost(nights, TotalRooms(houses) + PlayerRooms)}

SoldToday(houses, split) ==
  [c \in DOMAIN houses |-> [houses[c] EXCEPT !.sold = @ + split[c]]]

Split(market0, houses, split) ==
  [market0 EXCEPT !.sold = @ + SumFunction([c \in DOMAIN houses |-> split[c]])]
-----------------------------------------------------------------------------
(* A rival's month.                                                        *)

InterestOf(debt) == (2 * debt * DebtRate + RatePeriod) \div (2 * RatePeriod)
Profit(c) == c.sold * NightRate - c.rooms * RoomUpkeep - InterestOf(c.debt)
Headroom(c) == AtLeast(0, TargetDebt * c.rooms - c.debt)
Credit(c) == AtMost(CreditLine * c.rooms, Headroom(c))

LifecycleAction(cash, credit, burn) ==
  IF cash + credit < 0 THEN "exit"
  ELSE IF burn > 0 /\ cash < 2 * burn THEN "restructure" ELSE "operate"

\* Debt first, cash for the rest; no build without both together.
ExpansionDebt(c) ==
  AtMost(BuildCost * ExpansionRooms, AtMost(Headroom(c), CreditLine * ExpansionRooms))
ExpansionCash(c) == BuildCost * ExpansionRooms - ExpansionDebt(c)

OverBorrowed(c) == c.debt > TargetDebt * c.rooms

Invested(c, profit, busy) ==
  IF OverBorrowed(c) THEN c
  ELSE IF profit >= ExpansionHurdle * c.rooms
       THEN IF ExpansionCash(c) <= c.cash /\ busy /\ c.since >= BuildCooldown
            THEN [c EXCEPT !.cash = @ - ExpansionCash(c), !.debt = @ + ExpansionDebt(c),
                           !.rooms = @ + ExpansionRooms, !.since = 0]
            ELSE c
       ELSE IF profit >= RenovationHurdle * c.rooms /\ c.cash >= RenovationCost
            THEN [c EXCEPT !.cash = @ - RenovationCost] ELSE c

\* A slip: a house in trouble is given time, and no money.
SettleMonthUnfunded(c, busy) ==
  LET profit == Profit(c)
      closed == [c EXCEPT !.cash = @ + profit]
      status == LifecycleAction(closed.cash, Credit(c), AtLeast(0, -profit))
      after == IF status = "operate" THEN Invested(closed, profit, busy) ELSE closed
  IN  [after EXCEPT !.status = status, !.sold = 0,
                    !.since = AtMost(@ + 1, BuildCooldown)]

SettleMonth(c, busy) ==
  LET profit == Profit(c)
      closed == [c EXCEPT !.cash = @ + profit]
      credit == Credit(c)
      status == LifecycleAction(closed.cash, credit, AtLeast(0, -profit))
      after == CASE status = "operate" -> Invested(closed, profit, busy)
                 [] status = "restructure" ->
                      [closed EXCEPT !.cash = @ + credit, !.debt = @ + credit]
                 [] status = "exit" -> closed
  IN  [after EXCEPT !.status = status, !.sold = 0,
                    !.since = AtMost(@ + 1, BuildCooldown)]

\* Undercutting is resented more than fair play is forgiven.
Remembered(relation, undercut) ==
  IF undercut THEN AtLeast(0, relation - Grudge) ELSE AtMost(BestRelation, relation + Forgiveness)

Survivors(settled, undercut) ==
  [c \in {d \in DOMAIN settled : settled[d].status # "exit"} |->
     [settled[c] EXCEPT !.relation = Remembered(@, undercut)]]

\* An entrant takes a number no house has had.
EntrantId == Cardinality(Rivals) + entrants + 1

WithEntrant(houses, enters) ==
  [c \in DOMAIN houses \cup (IF enters THEN {EntrantId} ELSE {}) |->
     IF c \in DOMAIN houses THEN houses[c]
     ELSE Opened(EntrantRooms, EntrantCash, EntrantDebt, 0)]

\* What conference space does to the city's demand is felt months later.
Matured(m, effect) ==
  [m EXCEPT !.sold = 0, !.uplift = Head(m.pipeline),
            !.pipeline = Append(Tail(m.pipeline), effect)]
-----------------------------------------------------------------------------
(* The world's month.                                                      *)

Passing(shocks) == {[s EXCEPT !.left = @ - 1] : s \in {t \in shocks : t.left > 1}}

StepWorld(strikes) ==
  LET months == world.months + 1
      yearEnds == months % MonthsAYear = 0
  IN  [months |-> months,
       shocks |-> Passing(world.shocks) \cup
         (IF yearEnds /\ strikes THEN {[year |-> months \div MonthsAYear, left |-> ShockMonths]}
          ELSE {})]

AdvanceProjects ==
  LET done == {t \in DOMAIN technology.projects : technology.projects[t] <= 1}
  IN  [projects |-> [t \in DOMAIN technology.projects \ done |-> technology.projects[t] - 1],
       adopted |-> technology.adopted \cup done]

AdoptTechnology(t) ==
  /\ t \notin technology.adopted \cup DOMAIN technology.projects
  /\ technology' = [technology EXCEPT !.projects =
       [u \in DOMAIN @ \cup {t} |-> IF u = t THEN ProjectMonths ELSE @[u]]]
  /\ UNCHANGED <<rivals, failed, entrants, market, playerNights, world, cityDay>>
-----------------------------------------------------------------------------
\* Midnight recognises what the player sold; the morning splits the next day.
CityDay(nights, realised) ==
  /\ cityDay < DaysOfMonth /\ cityDay' = cityDay + 1
  /\ \E split \in Splits(rivals, nights) :
       /\ rivals' = SoldToday(rivals, split)
       /\ market' = [Split(market, rivals, split) EXCEPT !.sold = @ + realised]
  /\ playerNights' = playerNights + realised
  /\ UNCHANGED <<failed, entrants, world, technology>>

\* The morning of the first: the month just ended is closed before a day of
\* the new one trades.
CityMonth(busy, undercut, enters, effect, strikes) ==
  LET settled == [c \in DOMAIN rivals |-> SettleMonth(rivals[c], busy)]
      survivors == Survivors(settled, undercut)
  IN  /\ cityDay = DaysOfMonth /\ cityDay' = 0
      /\ world.months < MaxCityMonths
      /\ enters => entrants < MaxEntrants
      /\ rivals' = WithEntrant(survivors, enters)
      /\ failed' = failed \cup (DOMAIN rivals \ DOMAIN survivors)
      /\ entrants' = entrants + (IF enters THEN 1 ELSE 0)
      /\ market' = Matured(market, effect)
      /\ playerNights' = 0
      /\ world' = StepWorld(strikes)
      /\ technology' = AdvanceProjects

CityNext ==
  \/ \E nights \in DailyDemands, realised \in 0 .. PlayerRooms : CityDay(nights, realised)
  \/ \E busy, undercut, enters, strikes \in BOOLEAN, effect \in Effects :
       CityMonth(busy, undercut, enters, effect, strikes)
  \/ \E t \in Technologies : AdoptTechnology(t)

CitySpec == CityInit /\ [][CityNext]_cityVars
-----------------------------------------------------------------------------
(* Properties.                                                             *)

\* A house still trading has not run out of money: expansionFunding refuses a
\* negative balance by throwing, and a quantum that throws loses its whole step
\* (cityMarket.ts settleCompetitorMonth, competitors/investment.ts).
RivalsAreFunded == \A c \in DOMAIN rivals : rivals[c].cash >= 0

\* What the city has sold is what its houses have: each no more than it had on
\* offer, and the month begins again for all of them at once
\* (allocateCityDay, recordPlayerRoomNights, advanceCityMonth).
NightsAddUp ==
  /\ market.sold = TotalSold(rivals) + playerNights
  /\ \A c \in DOMAIN rivals : rivals[c].sold <= rivals[c].rooms * cityDay

\* A number once given to a house is nobody else's, so what is remembered of one
\* that failed is never held against another (cityMarket.ts newEntrant).
HousesAreNamedOnce ==
  /\ DOMAIN rivals \cap failed = {}
  /\ DOMAIN rivals \cup failed = Rivals \cup
       {Cardinality(Rivals) + i : i \in 1 .. entrants}

CityAgrees == RivalsAreFunded /\ NightsAddUp /\ HousesAreNamedOnce
=============================================================================
