------------------------------- MODULE Ventures -------------------------------
(***************************************************************************)
(* What a house costs the group and what it brings in: the study a scheme  *)
(* is underwritten on, the checklist it opens by, the diligence bought on  *)
(* a house for sale and the price the seller takes, the month of the houses*)
(* the group does not run itself, with their contracts and the head office,*)
(* the money moved into their accounts and out of them, and what is got    *)
(* for them in distress.  Which register a house stands in, and which house*)
(* or city is given up first, is the subject of Group.                     *)
(*                                                                         *)
(* Basis points are scaled: Whole stands for 10,000.  A study counts       *)
(* NightsOfYear nights, a month those it has: MonthNights is the round of  *)
(* the months, however long.  A month number stands for its first day; a   *)
(* house opens on that day or later in the month.  The flagship's account  *)
(* stands in Group and holds nothing here.                                 *)
(***************************************************************************)
EXTENDS Integers, Sequences, FiniteSets, FiniteSetsExt, Functions

CONSTANTS
  Schemes, Targets,     \* the houses that may be built and bought
  CityOf,               \* where each of them stands
  Whole,
  NightsOfYear,         \* DAYS_PER_YEAR
  MonthNights,          \* the nights of the months, one after the other
  MonthsOfYear,
  OpeningCapture, RampMonths,       \* OPENING_CAPTURE_BP, RAMP_UP_MONTHS
  Ancillary,            \* ANCILLARY_REVENUE_SHARE_BP
  Margin,               \* UNDERWRITING_GOP_MARGIN_BP
  Hurdle,               \* DEVELOPMENT_HURDLE_BP
  Uncertainty,          \* FEASIBILITY_UNCERTAINTY_BP
  Multiple,             \* MARKET_GOP_MULTIPLE_BP
  Plans,                \* schemes the player may put forward
  Tasks,                \* OPENING_CHECKLIST
  Areas, AreaCost,      \* DUE_DILIGENCE_AREAS, AREA_COST_MINOR
  Hidden,               \* [target -> [area -> cost of what is wrong there]]
  OnSale,               \* [target -> rooms, annualGop, need, debt]
  SoldOccupancy, SoldDivisor,   \* what a bought house trades at: 6500, 200
  Uplifts,              \* what a brand may add to a house's capture
  Contracts,            \* operating models with their terms
  LeaseRent,                 \* LEASEBACK_ANNUAL_RENT_BASIS_POINTS
  OfficeBase, OfficePerHouse,
  Transfers,            \* sums moved inside the group
  VentureCash, MaxDeals, MaxVentureMonths

VARIABLES
  month,       \* months closed
  coffer,      \* cash, payables, and fees still to come in
  schemes,     \* [scheme -> plan, study, tasks done, open]
  reports,     \* dueDiligence: [target -> areas examined]
  held,        \* managedHotels: [house -> rooms, adr, occupancy, opened, first]
  contract,    \* operatingModels of the houses
  accounts,    \* treasury.hotelCashMinor of the houses
  parted,      \* houses given up: the target stays acquired, the development open
  allotted,    \* ghost: [house -> what was moved into its account, less what out]
  history,     \* ghost: [house -> the months it has traded]
  spentOn,     \* ghost: [house -> what was paid to bring it in]
  deals        \* commands carried out

ventureVars == <<month, coffer, schemes, reports, held, contract, accounts, parted,
                 allotted, history, spentOn, deals>>

ASSUME VenturesAssumption ==
  /\ {Whole, NightsOfYear, MonthsOfYear, RampMonths, SoldDivisor} \subseteq Nat \ {0}
  /\ MonthNights \in Seq(Nat \ {0}) /\ MonthNights # <<>>
  /\ OpeningCapture \in 0 .. Whole /\ Margin \in 0 .. Whole /\ SoldOccupancy \in 0 .. Whole
  /\ {Ancillary, Hurdle, Multiple, AreaCost, LeaseRent, OfficeBase, OfficePerHouse, VentureCash,
      MaxDeals, MaxVentureMonths} \subseteq Nat
  /\ Uncertainty \in 0 .. Whole /\ Uplifts \cup Transfers \subseteq Nat
  /\ IsFiniteSet(Areas) /\ \A t \in Targets, a \in Areas : Hidden[t][a] \in Int
  /\ \A t \in Targets : /\ OnSale[t].rooms \in Nat \ {0}
                         /\ {OnSale[t].annualGop, OnSale[t].need, OnSale[t].debt} \subseteq Int
  /\ Plans \subseteq [rooms : Nat \ {0}, adr : Nat, occupancy : 0 .. Whole, investment : Nat]
  /\ Schemes \cap Targets = {}

-----------------------------------------------------------------------------
(* The study.                                                              *)

Scaled(n, bp) == (n * bp) \div Whole

\* calculateFeasibility: the base case, what it returns on its cost, and the
\* downside; a scheme that costs nothing has no return.
Study(p) ==
  LET base == Scaled(p.adr * p.rooms * NightsOfYear, p.occupancy)
      spread == Scaled(base, Uncertainty)
      Return(revenue) == IF p.investment = 0 THEN -1
                         ELSE (Scaled(revenue, Margin) * Whole) \div p.investment
  IN  [low |-> base - spread, base |-> base, high |-> base + spread,
       onCost |-> Return(base), onCostLow |-> Return(base - spread)]

Viable(p) == Study(p).onCost >= Hurdle
-----------------------------------------------------------------------------
(* The price of a house for sale.                                          *)

\* valueHotel.
EquityValue(t) ==
  Scaled(OnSale[t].annualGop, Multiple) - OnSale[t].need - OnSale[t].debt

\* runDueDiligence: what is wrong in the areas examined.
Liability(t, areas) == SumFunctionOnSet(Hidden[t], areas)

\* acquisitionFloorMinor: only what the buyer paid to find is a lever.
Floor(t) ==
  LET found == IF t \in DOMAIN reports THEN Liability(t, reports[t]) ELSE 0
  IN  Max({0, EquityValue(t) - found})
-----------------------------------------------------------------------------
(* The month of a house.                                                   *)

\* monthsOpen, at the first day of a month.
MonthsOpen(h, now) ==
  IF h.first THEN Max({0, now - h.opened}) ELSE Max({0, now - h.opened - 1})

\* daysInMonth.
NightsOf(now) == MonthNights[(now % Len(MonthNights)) + 1]

\* Slip: a house that has come of age starts over.
RampAnew(age) == OpeningCapture + ((age % RampMonths) * (Whole - OpeningCapture)) \div RampMonths

\* rampUpDemandFactorBasisPoints.
Ramp(age) ==
  IF age >= RampMonths THEN Whole
  ELSE OpeningCapture + (age * (Whole - OpeningCapture)) \div RampMonths

\* managedHotelMonth: age and brand act on capture, never on price.
Month(h, now, uplift) ==
  LET available == h.rooms * NightsOf(now)
      capture == Min({Whole, (h.occupancy * Ramp(MonthsOpen(h, now)) * (Whole + uplift))
                               \div (Whole * Whole)})
      sold == Scaled(available, capture)
      room == sold * h.adr
      other == Scaled(room, Ancillary)
      gop == Scaled(room + other, Margin)
  IN  [available |-> available, sold |-> sold, room |-> room, other |-> other, gop |-> gop,
       expense |-> room + other - gop, uplift |-> uplift]

\* monthlyOwnershipPostings: income is positive.
Posting(c, room) ==
  CASE c.kind = "owned" -> 0
    [] c.kind = "lease" -> -c.terms
    [] c.kind = "management" -> Scaled(room, c.terms)
    [] c.kind = "franchise" -> -Scaled(room, c.terms)
-----------------------------------------------------------------------------
VenturesInit ==
  /\ month = 0 /\ coffer = [cash |-> VentureCash, owed |-> 0, due |-> 0]
  /\ schemes = <<>> /\ reports = <<>> /\ held = <<>>
  /\ contract = <<>> /\ accounts = <<>> /\ parted = {} /\ allotted = <<>>
  /\ history = <<>> /\ spentOn = <<>>
  /\ deals = 0

Deal == deals < MaxDeals /\ deals' = deals + 1

Put(f, k, v) == [x \in DOMAIN f \cup {k} |-> IF x = k THEN v ELSE f[x]]

PaidFor(h) == IF h \in DOMAIN spentOn THEN spentOn[h] ELSE 0

\* Spend: what the cash does not cover is owed.
PaidOut(c, n) ==
  LET paid == Min({n, c.cash})
  IN  [c EXCEPT !.cash = @ - paid, !.owed = @ + n - paid]

SpendOn(h, n) ==
  /\ coffer' = PaidOut(coffer, n)
  /\ spentOn' = Put(spentOn, h, PaidFor(h) + n)

\* admitHotel: the house, its contract and its account, in one step.
Admit(h, house) ==
  /\ held' = Put(held, h, house)
  /\ contract' = Put(contract, h, [kind |-> "owned", terms |-> 0])
  /\ accounts' = Put(accounts, h, 0)
  /\ allotted' = Put(allotted, h, 0)
  /\ history' = Put(history, h, <<>>)

\* START_DEVELOPMENT.
StartScheme(s, p) ==
  /\ Deal
  /\ s \notin DOMAIN schemes \cup DOMAIN held
  /\ Viable(p) /\ coffer.cash >= p.investment
  /\ SpendOn(s, p.investment)
  /\ schemes' = Put(schemes, s, [plan |-> p, study |-> Study(p), done |-> {}, open |-> FALSE])
  /\ UNCHANGED <<month, reports, held, contract, accounts, parted, allotted, history>>

\* COMPLETE_PRE_OPENING_TASK.
CompleteTask(s, item) ==
  /\ Deal /\ s \in DOMAIN schemes /\ ~schemes[s].open
  /\ schemes' = [schemes EXCEPT ![s].done = @ \cup {item}]
  /\ UNCHANGED <<month, coffer, reports, held, contract, accounts, parted, allotted, history,
                 spentOn>>

\* OPEN_DEVELOPMENT: its rate is what the study took in a room and night of the
\* year, sold or not.
OpenScheme(s, first) ==
  LET p == schemes[s].plan
  IN  /\ Deal /\ s \in DOMAIN schemes
      /\ ~schemes[s].open /\ schemes[s].done = Tasks
      /\ schemes' = [schemes EXCEPT ![s].open = TRUE]
      /\ Admit(s, [rooms |-> p.rooms,
                   adr |-> schemes[s].study.base \div (p.rooms * NightsOfYear),
                   occupancy |-> p.occupancy, opened |-> month, first |-> first])
      /\ UNCHANGED <<month, coffer, reports, parted, spentOn>>

\* RUN_DUE_DILIGENCE: the new report replaces the one before.
Inspect(t, areas) ==
  /\ Deal /\ t \notin DOMAIN held \cup parted
  /\ areas # {} /\ coffer.cash >= Cardinality(areas) * AreaCost
  /\ SpendOn(t, Cardinality(areas) * AreaCost)
  /\ reports' = Put(reports, t, areas)
  /\ UNCHANGED <<month, schemes, held, contract, accounts, parted, allotted, history>>

\* ACQUIRE_HOTEL: bought as a house of four years.
Buy(t, price) ==
  /\ Deal /\ t \notin DOMAIN held \cup parted
  /\ price >= Floor(t) /\ coffer.cash >= price
  /\ SpendOn(t, price)
  /\ Admit(t, [rooms |-> OnSale[t].rooms,
               adr |-> Max({1, OnSale[t].annualGop \div (OnSale[t].rooms * SoldDivisor)}),
               occupancy |-> SoldOccupancy, opened |-> month - RampMonths - 1, first |-> FALSE])
  /\ UNCHANGED <<month, schemes, reports, parted>>

\* SET_OPERATING_MODEL.
Sign(h, c) ==
  /\ Deal /\ h \in DOMAIN held
  /\ contract' = [contract EXCEPT ![h] = c]
  /\ UNCHANGED <<month, coffer, schemes, reports, held, accounts, parted, allotted, history,
                 spentOn>>

\* syncTreasury: what no house has been given is the head office's.
HeadOfficeHas == coffer.cash - SumFunction(accounts)

\* TRANSFER_INTERNAL_FUNDING: neither side may be short before, nor be left short.
MoveFunding(h, n, direction) ==
  LET up == IF direction = "fund" THEN n ELSE -n
  IN  /\ Deal /\ h \in DOMAIN accounts
      /\ HeadOfficeHas >= 0 /\ accounts[h] >= 0
      /\ n <= IF direction = "fund" THEN HeadOfficeHas ELSE accounts[h]
      /\ accounts' = [accounts EXCEPT ![h] = @ + up]
      /\ allotted' = [allotted EXCEPT ![h] = @ + up]
      /\ UNCHANGED <<month, coffer, schemes, reports, held, contract, parted, history,
                     spentOn>>
-----------------------------------------------------------------------------
(* Measures of a company in distress.                                      *)

OwesMore == coffer.cash < coffer.owed

\* disposalProceedsMinor: a year of the last month, at the multiple.
Fetches(h) ==
  IF history[h] = <<>> THEN 0
  ELSE Scaled(history[h][Len(history[h])].gop * MonthsOfYear, Multiple)

\* retireHotelFromCompany: the houses leave every register, and what their
\* accounts held is the head office's.
Retire(leaving, dropped) ==
  LET staying == DOMAIN held \ leaving
  IN  /\ held' = Restrict(held, staying) /\ contract' = Restrict(contract, staying)
      /\ accounts' = Restrict(accounts, staying) /\ allotted' = Restrict(allotted, staying)
      /\ history' = Restrict(history, staying)
      /\ parted' = (parted \cup leaving) \ dropped
      /\ schemes' = Restrict(schemes, DOMAIN schemes \ dropped)
      /\ spentOn' = Restrict(spentOn, DOMAIN spentOn \ dropped)

\* "sell-hotel".
SellHouse(h) ==
  /\ Deal /\ OwesMore /\ h \in DOMAIN held /\ Fetches(h) > 0
  /\ Retire({h}, {})
  /\ coffer' = [coffer EXCEPT !.cash = @ + Fetches(h)]
  /\ UNCHANGED <<month, reports>>

\* "asset-sale": sold and leased back.
LeaseBack(h) ==
  /\ Deal /\ OwesMore /\ h \in DOMAIN held /\ Fetches(h) > 0
  /\ contract[h].kind = "owned"
  /\ contract' = [contract EXCEPT ![h] = [kind |-> "lease",
                     terms |-> Scaled(Fetches(h), LeaseRent) \div MonthsOfYear]]
  /\ coffer' = [coffer EXCEPT !.cash = @ + Fetches(h)]
  /\ UNCHANGED <<month, schemes, reports, held, accounts, parted, allotted, history, spentOn>>

\* "market-exit": the houses of a city, and what is being built or was built there.
LeaveCity(city) ==
  LET leaving == {h \in DOMAIN held : CityOf[h] = city}
      dropped == {s \in DOMAIN schemes : CityOf[s] = city}
  IN  /\ Deal /\ OwesMore /\ \E h \in leaving : Fetches(h) > 0
      /\ Retire(leaving, dropped)
      /\ coffer' = [coffer EXCEPT !.cash = @ + SumFunction([h \in leaving |-> Fetches(h)])]
      /\ UNCHANGED <<month, reports>>
-----------------------------------------------------------------------------

\* runCompanyMonth, of the houses: each trades, its account gets its profit;
\* contracts and the head office are the group's to pay.
CloseHouses(uplift) ==
  LET traded == [h \in DOMAIN held |-> Month(held[h], month, uplift[h])]
      Posted(sign) == SumFunction([h \in DOMAIN held |->
                        Max({0, sign * Posting(contract[h], traded[h].room)})])
      profit == SumFunction([h \in DOMAIN held |-> traded[h].gop])
      office == OfficeBase + (Cardinality(DOMAIN held) + 1) * OfficePerHouse
  IN  /\ month < MaxVentureMonths /\ month' = month + 1
      /\ coffer' = [PaidOut([coffer EXCEPT !.cash = @ + profit], Posted(-1) + office)
                     EXCEPT !.due = @ + Posted(1)]
      /\ accounts' = [h \in DOMAIN held |-> accounts[h] + traded[h].gop]
      /\ history' = [h \in DOMAIN held |-> Append(history[h], traded[h])]
      /\ UNCHANGED <<schemes, reports, held, contract, parted, allotted, spentOn, deals>>

VenturesNext ==
  \/ \E s \in Schemes, p \in Plans : StartScheme(s, p)
  \/ \E s \in Schemes, item \in Tasks : CompleteTask(s, item)
  \/ \E s \in DOMAIN schemes, first \in BOOLEAN : OpenScheme(s, first)
  \/ \E t \in Targets, areas \in SUBSET Areas : Inspect(t, areas)
  \/ \E t \in Targets : \E price \in {Floor(t), Floor(t) + 1} : Buy(t, price)
  \/ \E h \in DOMAIN held, c \in Contracts : Sign(h, c)
  \/ \E h \in DOMAIN held, n \in Transfers, direction \in {"fund", "sweep"} :
       MoveFunding(h, n, direction)
  \/ \E h \in DOMAIN held : SellHouse(h) \/ LeaseBack(h)
  \/ \E city \in {CityOf[h] : h \in DOMAIN held} : LeaveCity(city)
  \/ \E uplift \in [DOMAIN held -> Uplifts] : CloseHouses(uplift)

VenturesSpec == VenturesInit /\ [][VenturesNext]_ventureVars
-----------------------------------------------------------------------------
(* Properties.                                                             *)

\* A young hotel sells fewer rooms, not cheaper ones (managedHotels.ts:330): from
\* one month to a later one that is no shorter a house sells no less, unless its
\* brand gives less.
HousesRipen ==
  \A h \in DOMAIN history : \A i, j \in DOMAIN history[h] :
    /\ i < j /\ history[h][i].available <= history[h][j].available
    /\ history[h][i].uplift <= history[h][j].uplift
    => history[h][i].sold <= history[h][j].sold

\* A scheme is paid for once, in full, and opens complete (preOpening.ts): while it
\* is open its house stands, or was given up, at the sum the study cleared.
SchemesArePaidOnce ==
  \A s \in DOMAIN schemes :
    /\ schemes[s].open <=> s \in DOMAIN held \cup parted
    /\ schemes[s].open => schemes[s].done = Tasks
    /\ spentOn[s] = schemes[s].plan.investment
    /\ schemes[s].study.onCostLow <= schemes[s].study.onCost

\* What is found in a house for sale takes no more off its price than putting it
\* right costs, so that price and findings together are its worth or more.
PricesAreFloored ==
  \A t \in Targets \cap DOMAIN held :
    LET looked == IF t \in DOMAIN reports THEN reports[t] ELSE {}
    IN  spentOn[t] + Liability(t, looked) >= EquityValue(t) + Cardinality(looked) * AreaCost

\* A portfolio house is never a hidden money printer (managedHotels.ts:14), and no
\* transfer leaves it unable to pay (internalFunding.ts:55): its account holds the
\* profits it published and what was moved into it, less what was moved out, and is
\* never overdrawn.
AccountsAreEarned ==
  /\ DOMAIN accounts = DOMAIN held /\ DOMAIN contract = DOMAIN held
  /\ \A h \in DOMAIN held :
       /\ accounts[h] = SumFunction([i \in DOMAIN history[h] |-> history[h][i].gop]) + allotted[h]
       /\ accounts[h] >= 0

VenturesHold ==
  HousesRipen /\ SchemesArePaidOnce /\ PricesAreFloored /\ AccountsAreEarned

\* What a house that has come of age makes of the nights it has is what its scheme
\* was underwritten on, less what is rounded off: the rate it opens at already counts
\* its empty nights, which its month then counts again.
EarnsItsStudy ==
  \A s \in DOMAIN schemes \cap DOMAIN held : \A i \in DOMAIN history[s] :
    MonthsOpen(held[s], held[s].opened + i - 1) >= RampMonths =>
      (history[s][i].room + 1) * held[s].rooms * NightsOfYear
        >= schemes[s].study.base * history[s][i].available
=============================================================================
