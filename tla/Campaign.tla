------------------------------- MODULE Campaign -------------------------------
(***************************************************************************)
(* The terms a career is played on, and where they land: the opening       *)
(* capital and loan before the first quantum, the market report and the    *)
(* forecast drawn from it, the guests' patience, the city's month, and the *)
(* lobby and the stars the house shows in between.                         *)
(*                                                                         *)
(* Levers are basis points, Neutral the standard game.  Money is small     *)
(* whole units; what the market, the guests and the house's other parts    *)
(* bring is the environment's choice.                                      *)
(***************************************************************************)
EXTENDS Integers, Sequences, FiniteSets, FiniteSetsExt, Functions

CONSTANTS
  OpeningCapital, OpeningRate, OpeningDebt,
  BankRates,          \* rates a new loan may be taken at
  Turned,             \* sandbox levers that are turned, of Levers
  Settings,           \* what a lever may be set to
  ReportCost, ExpansionCost,
  HandlingPerDesk, BagsPerPorter,
  LobbyStates,             \* what the lobby may find: the queue, the stays and those due out,
                      \* receptionists, condition, technology taken up and put in
  CityMonths,         \* what a month may bring: nights, rate, occupancy, pressure, interest
  OwnRate, LeastRate, TopWillingness,
  Recoveries,         \* goodwill a complaint put right may move
  MaxTurns, MaxCampaignMonths, MaxLobbies

Difficulties == {"beginner", "standard", "expert"}
Levers == {"volatility", "crises", "aggression", "capital", "speed", "building", "accuracy"}
Neutral == 10000

\* The scale wage pressure moves on.
LeastPressure == 7500
TopPressure == 15000

ASSUME CampaignAssumption ==
  /\ {OpeningCapital, OpeningRate, OpeningDebt, ReportCost, ExpansionCost, HandlingPerDesk,
      BagsPerPorter, LeastRate, TopWillingness, MaxTurns, MaxCampaignMonths,
      MaxLobbies} \subseteq Nat
  /\ BankRates \cup Settings \subseteq Nat /\ Turned \subseteq Levers
  /\ \A h \in LobbyStates :
       /\ DOMAIN h = {"queue", "stays", "due", "desk", "condition", "adoption", "installed"}
       /\ {h.queue, h.stays, h.due, h.desk, h.condition} \subseteq Nat
  /\ CityMonths \subseteq
       [nights : Nat, rate : Nat \ {0}, occupancy : Nat, pressure : LeastPressure .. TopPressure, interest : Nat]
  /\ OwnRate \in 1 .. TopWillingness /\ Recoveries \subseteq Int

VARIABLES
  terms,        \* narrative.campaign: difficulty and sandbox
  funding,      \* cash, contributed capital, the ledger's capital, the cost of what was bought
  debts,        \* s.loans
  begun,        \* the first quantum has run
  research,     \* information quality, and the forecast drawn from it
  wanted,       \* room nights the market's demand comes to
  patience,     \* guestSatisfaction
  rival,        \* a competing house: rate, appeal, relation
  labour,       \* wage pressure
  danger,       \* the year's risk of a crisis, and whether it came
  service,        \* queue, stays, receptionists, technology: what the lobby has to cope with
  lobby, floor, \* the derived lobby; floor space built for a profile
  stars, starsTold,  \* classification; the stars last announced
  turns, spells \* commands before the first quantum, and since: both bounded

campaignVars ==
  <<terms, funding, debts, begun, research, wanted, patience, rival, labour, danger, service,
    lobby, floor, stars, starsTold, turns, spells>>
settingVars == <<debts, wanted, rival, labour, danger>>
placeVars == <<service, lobby, floor, stars, starsTold>>

Small(a, b) == IF a < b THEN a ELSE b
Large(a, b) == IF a > b THEN a ELSE b
Bounded(least, most, v) == Large(least, Small(most, v))
\* Math.round of a / b, for b > 0: halves up.
RoundedHalfUp(a, b) == (2 * a + b) \div (2 * b)
-----------------------------------------------------------------------------
(* The levers.                                                             *)

ScaledBy(v, bp) == (v * bp) \div Neutral

InverselyScaled(v, bp) == (v * Neutral) \div bp

Preset(d) ==
  CASE d = "beginner" ->
         [capital |-> 14000, spread |-> 7500, tolerance |-> 12000, accuracy |-> 12000,
          scarcity |-> 8000, buffer |-> 13000, aggression |-> 8500, frequency |-> 9000,
          assistance |-> 14000]
    [] d = "standard" ->
         [capital |-> 10000, spread |-> 10000, tolerance |-> 10000, accuracy |-> 10000,
          scarcity |-> 10000, buffer |-> 10000, aggression |-> 10000, frequency |-> 10000,
          assistance |-> 10000]
    [] d = "expert" ->
         [capital |-> 7500, spread |-> 13000, tolerance |-> 8500, accuracy |-> 8000,
          scarcity |-> 12000, buffer |-> 7500, aggression |-> 11500, frequency |-> 11500,
          assistance |-> 6000]

DefaultSandbox == [l \in Levers |-> Neutral]
Standard == [difficulty |-> "standard", sandbox |-> DefaultSandbox]
Of(t) == Preset(t.difficulty)

\* The capital the difficulty gives is not rounded before the sandbox scales it; taken
\* from a base of whole thousands it is whole anyway.
OpeningUnder(t) == ScaledBy(ScaledBy(OpeningCapital, Of(t).capital), t.sandbox["capital"])
RateUnder(t) == ScaledBy(OpeningRate, Of(t).spread)

\* Only a knock is scaled; goodwill is what was earned.
Tolerated(delta, t) ==
  IF delta >= 0 THEN delta ELSE -InverselyScaled(-delta, Of(t).tolerance)

\* Rounded up, so help is never free.
ReportFee(t) == (ReportCost * Neutral + Of(t).assistance - 1) \div Of(t).assistance

Known(quality, t) ==
  Bounded(0, 100,
    ScaledBy(Bounded(0, 100, ScaledBy(quality, Of(t).accuracy)), t.sandbox["accuracy"]))

WagePressure(pressure, t) == Bounded(LeastPressure, TopPressure, ScaledBy(pressure, Of(t).scarcity))
UndercutBelow(base, t) == Bounded(0, Neutral, ScaledBy(base, Of(t).aggression))

\* crisisRiskBp of a macro state, the buffer, then the sandbox's frequency.
RawRisk(interest) ==
  Bounded(0, Neutral, RoundedHalfUp(40 * 4 * interest + 25 * 3000 + 35 * 3 * interest, 100))
RiskOfCrisis(interest, t) ==
  Bounded(0, Neutral,
    ScaledBy(Bounded(0, Neutral, InverselyScaled(RawRisk(interest), Of(t).buffer)),
           t.sandbox["crises"]))
-----------------------------------------------------------------------------
(* The market report.                                                      *)

\* forecastBand: never a number, however much is spent.
ForecastBand(base, quality) ==
  LET spread == Large(RoundedHalfUp(base * 2, 100), RoundedHalfUp(base * (100 - quality) * 40, 10000))
  IN  [low |-> Large(0, base - spread), base |-> base, high |-> base + spread]

ForecastUnder(base, quality, t) == ForecastBand(base, Known(quality, t))

\* One report more on the saturating curve; spending is in hundredths of a report.
QualityAfterReport(q) ==
  IF q = 100 THEN q
  ELSE LET spent == RoundedHalfUp(q * 200, 100 - q) + 100
       IN  Small(100, Large(q + 1, RoundedHalfUp(100 * spent, spent + 200)))
-----------------------------------------------------------------------------
(* The rival's price.                                                      *)

\* An aggressive house: at the market, and hungry when its beds are empty.
Appetite(t) == Bounded(0, Neutral, ScaledBy(2000, t.sandbox["aggression"]))

Adjustment(occupancy, t) ==
  IF occupancy < 6000 THEN -RoundedHalfUp(Appetite(t) * (6000 - occupancy), 6000)
  ELSE IF occupancy > 8500
       THEN RoundedHalfUp(Appetite(t) * Small(Neutral, occupancy - 8500), 3000) ELSE 0

AskedRate(observed, occupancy, t) ==
  Large(LeastRate, RoundedHalfUp(observed * (Neutral + Adjustment(occupancy, t)), Neutral))

Retaliation(relation) == IF relation >= 50 THEN 0 ELSE RoundedHalfUp((50 - relation) * 1500, 50)

RememberedBy(r, atRate, t) ==
  IF OwnRate * Neutral < atRate * UndercutBelow(9000, t)
  THEN Large(0, r.relation - 12) ELSE Small(100, r.relation + 3)

RivalAfter(r, atRate, occupancy, t) ==
  LET relation == RememberedBy(r, atRate, t)
      asked == AskedRate(atRate, occupancy, t)
  IN  [relation |-> relation,
       rate |-> Large(1, Small(RoundedHalfUp(TopWillingness * r.appeal, Neutral),
                               RoundedHalfUp(asked * (Neutral - Retaliation(relation)), Neutral))),
       appeal |-> Large(4000, r.appeal - 20)]
-----------------------------------------------------------------------------
(* The lobby.                                                              *)

Sources == {"arrival", "orientation", "waiting", "reception", "checkout", "baggage", "concierge"}

Options ==
  {[of |-> "personal-computer", needs |-> 3000, handles |-> {"reception", "checkout"}, takes |-> 4000],
   [of |-> "smartphone", needs |-> 2500, handles |-> {"arrival", "reception"}, takes |-> 3500],
   [of |-> "smartphone", needs |-> 4000, handles |-> {"reception", "orientation"}, takes |-> 3000]}

\* What the world has taken up and the house has put in.
InstalledOptions(h) ==
  {o \in Options : o.of \in DOMAIN h.adoption /\ h.adoption[o.of] >= o.needs /\ o.of \in h.installed}

\* The same party counts as arriving, as finding its way, as waiting and at the desk.
Demand(h) ==
  [s \in Sources |->
     CASE s \in {"arrival", "orientation", "waiting", "reception"} -> h.queue
       [] s = "checkout" -> h.due
       [] s = "baggage" -> 2 * h.queue
       [] s = "concierge" -> h.stays \div 4]

DeflectedBy(h, s) ==
  SumFunction([o \in {p \in InstalledOptions(h) : s \in p.handles} |-> o.takes])

LeftFor(h) ==
  [s \in Sources |-> Demand(h)[s] - (Demand(h)[s] * Small(7000, DeflectedBy(h, s))) \div Neutral]

TotalOf(demand) == SumFunction(demand)

Throughput(h) ==
  LET left == LeftFor(h)
      deskShort == Large(0, TotalOf(left) - left["baggage"] - h.desk * HandlingPerDesk)
      bagShort == Large(0, left["baggage"] - (h.desk \div 2) * BagsPerPorter)
  IN  [served |-> TotalOf(left) - (deskShort + bagShort), unserved |-> deskShort + bagShort,
       cause |-> IF deskShort + bagShort = 0 THEN "none"
                 ELSE IF deskShort >= bagShort THEN "desk" ELSE "bags"]
-----------------------------------------------------------------------------
(* The stars.                                                              *)

StarStandards ==
  <<[room |-> 25, reception |-> 25, maintenance |-> 25, facilities |-> 0],
    [room |-> 40, reception |-> 40, maintenance |-> 40, facilities |-> 15],
    [room |-> 60, reception |-> 60, maintenance |-> 60, facilities |-> 40],
    [room |-> 75, reception |-> 75, maintenance |-> 75, facilities |-> 65],
    [room |-> 88, reception |-> 90, maintenance |-> 88, facilities |-> 85]>>

Fails(scores, band) == {s \in DOMAIN band : scores[s] < band[s]}

\* All or nothing per band, and the first band missed says what is in the way.
Classify(scores) ==
  LET missed == {n \in DOMAIN StarStandards : Fails(scores, StarStandards[n]) # {}}
  IN  IF missed = {} THEN [stars |-> Len(StarStandards), blockedBy |-> {}]
      ELSE [stars |-> Min(missed) - 1, blockedBy |-> Fails(scores, StarStandards[Min(missed)])]

ScoresOf(h, sqm) ==
  [room |-> h.condition, maintenance |-> h.condition,
   reception |-> Large(0, 100 - 10 * h.queue), facilities |-> Small(100, RoundedHalfUp(sqm, 5))]
-----------------------------------------------------------------------------
CampaignInit ==
  /\ terms = Standard
  /\ funding = [cash |-> OpeningCapital, contributed |-> OpeningCapital,
                posted |-> OpeningCapital, bought |-> 0]
  /\ debts = <<[opening |-> TRUE, rate |-> OpeningRate, agreed |-> OpeningRate]>>
  /\ begun = FALSE
  /\ service \in LobbyStates /\ service.queue = 0 /\ service.installed = {}
  /\ \E first \in CityMonths :
       /\ wanted = first.nights
       /\ research = [quality |-> 0, forecast |-> ForecastBand(first.nights, 0)]
       /\ rival = [rate |-> OwnRate, appeal |-> Neutral, relation |-> 50]
       /\ labour = first.pressure
  /\ patience = 60
  /\ danger = [risk |-> 0, came |-> FALSE]
  /\ lobby = [served |-> 0, unserved |-> 0, cause |-> "none"]
  /\ floor = 0 /\ stars = [stars |-> 0, blockedBy |-> {}] /\ starsTold = 0
  /\ turns = 0 /\ spells = [lobbies |-> 0, months |-> 0]

\* The capital follows the terms by the difference between two openings, never by an opening.
OpenedUnder(f, was, is) ==
  LET delta == OpeningUnder(is) - OpeningUnder(was)
  IN  [f EXCEPT !.cash = @ + delta, !.contributed = @ + delta, !.posted = @ + delta]

\* SET_CAMPAIGN_DIFFICULTY: the first loan, whichever it is, gets the rate the opening one
\* has under the difficulty.
SetDifficulty(d) ==
  LET chosen == [terms EXCEPT !.difficulty = d]
  IN  /\ ~begun
      /\ terms' = chosen
      /\ funding' = OpenedUnder(funding, terms, chosen)
      /\ debts' = IF debts = <<>> THEN debts ELSE [debts EXCEPT ![1].rate = RateUnder(chosen)]
      /\ UNCHANGED <<begun, research, wanted, patience, rival, labour, danger, placeVars>>

SetSandbox(l, v) ==
  LET chosen == [terms EXCEPT !.sandbox[l] = v]
  IN  /\ ~begun
      /\ l = "speed" => v >= 1
      /\ terms' = chosen
      /\ funding' = OpenedUnder(funding, terms, chosen)
      /\ UNCHANGED <<settingVars, begun, research, patience, placeVars>>

\* Loans before the first quantum: the first one repaid, another one taken.
RepayFirst ==
  /\ debts # <<>> /\ funding.cash >= OpeningDebt
  /\ debts' = Tail(debts)
  /\ funding' = [funding EXCEPT !.cash = @ - OpeningDebt, !.bought = @ + OpeningDebt]
  /\ UNCHANGED <<terms, begun, research, wanted, patience, rival, labour, danger, placeVars>>

TakeNewLoan(rate) ==
  /\ Len(debts) < 2
  /\ debts' = Append(debts, [opening |-> FALSE, rate |-> rate, agreed |-> rate])
  /\ funding' = [funding EXCEPT !.cash = @ + OpeningDebt, !.bought = @ - OpeningDebt]
  /\ UNCHANGED <<terms, begun, research, wanted, patience, rival, labour, danger, placeVars>>

BuyResearch ==
  /\ research.quality < 100 /\ funding.cash >= ReportFee(terms)
  /\ funding' = [funding EXCEPT !.cash = @ - ReportFee(terms), !.bought = @ + ReportFee(terms)]
  /\ research' = [quality |-> QualityAfterReport(research.quality),
                  forecast |-> ForecastUnder(wanted, QualityAfterReport(research.quality), terms)]
  /\ UNCHANGED <<settingVars, terms, begun, patience, placeVars>>

ExpandFacility ==
  /\ funding.cash >= ExpansionCost
  /\ funding' = [funding EXCEPT !.cash = @ - ExpansionCost, !.bought = @ + ExpansionCost]
  /\ floor' = floor + 60
  /\ UNCHANGED <<settingVars, terms, begun, research, patience, service, lobby, stars, starsTold>>

\* Goodwill moves within its scale: moveSatisfaction.
GoodwillAfter(score, delta, t) == Bounded(0, 100, score + Tolerated(delta, t))

\* A quantum: complaints are raised and put right, then the lobby and the stars are drawn
\* from the house as the quantum left it.
LobbyQuantum(h, sorry) ==
  /\ spells.lobbies < MaxLobbies
  /\ begun' = TRUE
  /\ service' = h
  /\ patience' = IF h.queue = 0 THEN patience
                 ELSE GoodwillAfter(GoodwillAfter(patience, -4, terms), sorry, terms)
  /\ lobby' = Throughput(h)
  /\ stars' = Classify(ScoresOf(h, floor))
  /\ starsTold' = IF stars'.stars # stars.stars THEN stars'.stars ELSE starsTold
  /\ spells' = [spells EXCEPT !.lobbies = @ + 1]
  /\ UNCHANGED <<settingVars, terms, funding, research, floor, turns>>

\* The city's month: the rival remembers, prices; wages and the forecast are drawn anew.
\* At the year's end the world's risk of a crisis, too.
MonthPasses(c, crisis) ==
  /\ begun /\ spells.months < MaxCampaignMonths
  /\ wanted' = c.nights
  /\ research' = [research EXCEPT !.forecast = ForecastUnder(c.nights, research.quality, terms)]
  /\ rival' = RivalAfter(rival, c.rate, c.occupancy, terms)
  /\ labour' = WagePressure(c.pressure, terms)
  /\ danger' = [risk |-> RiskOfCrisis(c.interest, terms), came |-> crisis]
  /\ crisis => RiskOfCrisis(c.interest, terms) > 0
  /\ spells' = [spells EXCEPT !.months = @ + 1]
  /\ UNCHANGED <<terms, funding, debts, begun, patience, placeVars, turns>>

CampaignNext ==
  \/ /\ turns < MaxTurns
     /\ turns' = turns + 1 /\ UNCHANGED spells
     /\ \/ \E d \in Difficulties : SetDifficulty(d)
        \/ \E l \in Turned, v \in Settings : SetSandbox(l, v)
        \/ RepayFirst
        \/ \E rate \in BankRates : TakeNewLoan(rate)
        \/ BuyResearch
        \/ ExpandFacility
  \/ \E h \in LobbyStates, sorry \in Recoveries : LobbyQuantum(h, sorry)
  \/ \E c \in CityMonths, crisis \in BOOLEAN : MonthPasses(c, crisis)

CampaignSpec == CampaignInit /\ [][CampaignNext]_campaignVars
-----------------------------------------------------------------------------
(* Properties.                                                             *)

\* However the terms were tried out, in whatever order and with whatever bought between,
\* what the owners put in is the opening of the terms that stand, the ledger has posted it,
\* and the cash is what is left of it.
CapitalIsTheTerms ==
  /\ funding.contributed = OpeningUnder(terms) /\ funding.posted = funding.contributed
  /\ funding.cash = funding.contributed - funding.bought

\* The opening loan costs what the difficulty discloses, not what an earlier choice made
\* of it.
OpeningLoanIsAtItsTerms ==
  \A i \in DOMAIN debts : debts[i].opening => debts[i].rate = RateUnder(terms)

\* What stays open: the difficulty is written over a loan that was taken at another rate,
\* once it stands first (GameSimulation.ts:1259).
TakenAtItsRate == \A i \in DOMAIN debts : ~debts[i].opening => debts[i].rate = debts[i].agreed

\* What stays open: a chosen opening smaller than what was already spent leaves less than
\* nothing in the bank.
CashIsNotOwed == funding.cash >= 0

\* A harder game is a harder world: under the same sandbox no lever of a harder difficulty
\* gives more, costs less, tells more or forgives more.
Easier(d) == CASE d = "expert" -> "standard" [] d = "standard" -> "beginner"
HarderIsHarder ==
  terms.difficulty # "beginner" =>
    LET easier == [terms EXCEPT !.difficulty = Easier(@)]
    IN  /\ OpeningUnder(terms) <= OpeningUnder(easier) /\ RateUnder(terms) >= RateUnder(easier)
        /\ ReportFee(terms) >= ReportFee(easier)
        /\ \A q \in {10, 50, 100} : Known(q, terms) <= Known(q, easier)
        /\ \A knock \in 1 .. 8 : Tolerated(-knock, terms) <= Tolerated(-knock, easier)
        /\ \A c \in CityMonths : RiskOfCrisis(c.interest, terms) >= RiskOfCrisis(c.interest, easier)
        /\ \A c \in CityMonths : WagePressure(c.pressure, terms) >= WagePressure(c.pressure, easier)
        /\ UndercutBelow(9000, terms) >= UndercutBelow(9000, easier)

\* What stays open: that an intolerant city takes the knock a complaint gives harder than
\* the standard one does (difficultyEffects.ts:57), which truncation undoes.
IntolerantMindsMore == Tolerated(-4, [terms EXCEPT !.difficulty = "expert"]) < -4

\* The forecast shown is the band of the demand there is, at the quality paid for and under
\* the terms that stand, and never a number; a report more never widens it.  Before the
\* first month the terms may have been changed since it was drawn.
ForecastIsHonest ==
  /\ research.forecast.low <= research.forecast.base
  /\ research.forecast.base > 25 => research.forecast.low < research.forecast.high
  /\ spells.months > 0 => research.forecast = ForecastUnder(wanted, research.quality, terms)
  /\ ForecastUnder(wanted, QualityAfterReport(research.quality), terms).high
       <= ForecastUnder(wanted, research.quality, terms).high

\* The lobby serves what it has hands for: it is never better at everything than people
\* are, never serves more than came, and technology never makes it worse.
LobbyServes ==
  /\ lobby.served >= 0 /\ lobby.unserved >= 0
  /\ \A s \in Sources : LeftFor(service)[s] >= (Demand(service)[s] * 3) \div 10
  /\ lobby.unserved <= Throughput([service EXCEPT !.installed = {}]).unserved
  /\ lobby.cause = "none" <=> lobby.unserved = 0

\* The stars are those of the house as it stands, every band below them is met, what blocks
\* the next one is named, and the last announcement was of them.
StarsAreEarned ==
  /\ starsTold = stars.stars
  /\ begun => \A n \in 1 .. stars.stars :
                service.condition >= StarStandards[n].room /\ 100 - 10 * service.queue >= StarStandards[n].reception
  /\ begun /\ stars.stars < Len(StarStandards) => stars.blockedBy # {}

\* The rival asks what somebody in the city would pay, and emptier beds never make it dearer.
RivalIsReasonable ==
  /\ rival.rate \in 1 .. Large(LeastRate, TopWillingness) /\ rival.appeal >= 4000
  /\ \A c, d \in CityMonths :
       c.occupancy <= d.occupancy =>
         AskedRate(c.rate, c.occupancy, terms) <= AskedRate(c.rate, d.occupancy, terms)
  /\ labour \in LeastPressure .. TopPressure /\ danger.risk \in 0 .. Neutral
  /\ patience \in 0 .. 100

CampaignHolds ==
  /\ CapitalIsTheTerms /\ OpeningLoanIsAtItsTerms /\ HarderIsHarder
  /\ ForecastIsHonest /\ LobbyServes /\ StarsAreEarned /\ RivalIsReasonable
=============================================================================
