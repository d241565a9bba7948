----------------------------- MODULE Utilities -----------------------------
(***************************************************************************)
(* Energy, water and waste (game/utilities/consumption.ts and              *)
(* utilityCommands.ts, with the day's bill and the month's close of        *)
(* GameSimulation.ts): a contract each, its validity, its price lock and   *)
(* the efficiency installed under it, projects that install more, meters.  *)
(*                                                                         *)
(* Days are counted; a close comes at the end of every DaysOfUtilityMonth. *)
(* Efficiency is in steps of which FullDraw would save everything.         *)
(***************************************************************************)
EXTENDS Integers, FiniteSets, Functions

CONSTANTS Kinds,              \* UTILITY_KINDS
          ListPrice,          \* the municipal unit price
          StandingCharge,     \* one contract's, a month
          Offers,             \* unit prices a supplier may ask
          Lengths,            \* days a contract may run
          Indexes,            \* world.macro.energyPriceIndexBp, in whole multiples
          Savings,            \* efficiency one project may install
          MaxEfficiency,      \* MAX_EFFICIENCY_BP
          FullDraw,           \* 10,000 basis points
          ProjectLength,      \* months a project takes
          Draws,              \* units one day may use
          UtilityCash,       \* cash at the start
          DaysOfUtilityMonth, MaxUtilityDays

ASSUME UtilitiesAssumption ==
    /\ {MaxEfficiency, FullDraw, ProjectLength, DaysOfUtilityMonth} \subseteq Nat \ {0}
    /\ MaxEfficiency < FullDraw
    /\ Savings \subseteq 1 .. MaxEfficiency
    /\ {"energy", "waste"} \subseteq Kinds

VARIABLES
    utilityDay,   \* calendar.dateKey, in days
    tariffs,    \* utilityContracts
    projects,     \* efficiencyProjects
    standby,      \* standbyPower
    meters,       \* meters
    till,        \* finance.cashMinor; what it cannot cover becomes a payable
    bought,       \* ghost: the savings paid for, by kind
    indexNow      \* ghost: the index the last close priced with

utilityVars == << utilityDay, tariffs, projects, standby, meters, till,
                  bought, indexNow >>

(* createUtilityContracts. *)
Municipal == [supplier |-> "municipal", price |-> ListPrice, base |-> ListPrice,
              lock |-> "fixed", until |-> MaxUtilityDays + 1, efficiency |-> 0]

UtilitiesInit ==
    /\ utilityDay = 0
    /\ tariffs = [k \in Kinds |-> Municipal]
    /\ projects = {}
    /\ standby = FALSE
    /\ meters = [k \in Kinds |-> 0]
    /\ till = UtilityCash
    /\ bought = [k \in Kinds |-> 0]
    /\ indexNow = 1

InForce(k) == utilityDay < tariffs[k].until

(* activeUtilityContract: outside its validity the municipal one is billed. *)
Billed(k) == IF InForce(k) THEN tariffs[k] ELSE Municipal

Paid(cash, amount) == IF cash < amount THEN 0 ELSE cash - amount

(***************************************************************************)
(* The player: utilityCommands.ts.                                         *)
(***************************************************************************)

(* signUtilityContract: the house keeps what is installed in it. *)
Signed(k, price, lock, until) ==
    [supplier |-> "private", price |-> price, base |-> price, lock |-> lock,
     until |-> until, efficiency |-> tariffs[k].efficiency]

(* SIGN_UTILITY_CONTRACT. Both tariffs would be running today, so they
   overlap whatever day the new one is dated from. *)
SignUtilityContract(k, price, lock, days) ==
    /\ InForce(k) => tariffs[k].supplier = "municipal"
    /\ tariffs' = [tariffs EXCEPT ![k] = Signed(k, price, lock, utilityDay + days)]
    /\ UNCHANGED << utilityDay, projects, standby, meters, till, bought, indexNow >>

MayInvest(k, saving) ==
    /\ tariffs[k].efficiency + saving <= MaxEfficiency
    /\ ~ \E p \in projects : p.kind = k
    /\ till >= saving

(* INVEST_IN_EFFICIENCY, a unit of money for a step of saving. *)
InvestInEfficiency(k, saving) ==
    /\ MayInvest(k, saving)
    /\ till' = till - saving
    /\ projects' = projects \cup
         {[kind |-> k, started |-> utilityDay, saving |-> saving, months |-> ProjectLength]}
    /\ bought' = [bought EXCEPT ![k] = @ + saving]
    /\ UNCHANGED << utilityDay, tariffs, standby, meters, indexNow >>

(***************************************************************************)
(* The day and the month: GameSimulation.                                  *)
(***************************************************************************)
(* utilityUsageMinor: what is saved is not billed, units rounded down. *)
UsageCost(k, units) ==
    ((units * (FullDraw - Billed(k).efficiency)) \div FullDraw) * Billed(k).price

(* repriceFloatingContract. *)
PricedAt(c, index) ==
    IF c.lock = "floating" THEN [c EXCEPT !.price = c.base * index] ELSE c

Advanced == { [p EXCEPT !.months = @ - 1] : p \in projects }

SumSavings(ps) == SumFunction([p \in ps |-> p.saving])

(* applyEfficiencyInvestment, for every project of a kind that completes. *)
Installed(c, ps) ==
    LET sum == c.efficiency + SumSavings(ps)
    IN  [c EXCEPT !.efficiency = IF sum > MaxEfficiency THEN MaxEfficiency ELSE sum]

(* closeMonth: standing charges, then prices, then projects, then power. *)
CloseUtilities(cash, index) ==
    LET done == { p \in Advanced : p.months = 0 }
        standing[n \in 0 .. Cardinality(Kinds)] ==
            IF n = 0 THEN cash ELSE Paid(standing[n - 1], StandingCharge)
    IN  /\ till' = standing[Cardinality(Kinds)]
        /\ tariffs' = [k \in Kinds |->
             Installed(PricedAt(tariffs[k], index), { p \in done : p.kind = k })]
        /\ projects' = Advanced \ done
        /\ standby' = (standby \/ \E p \in done : p.kind = "energy")
        /\ indexNow' = index

(* The day: what each kind drew, billed and metered (billUtilities). *)
UtilityDay(k, units, index) ==
    /\ utilityDay < MaxUtilityDays
    /\ utilityDay' = utilityDay + 1
    /\ meters' = [meters EXCEPT ![k] = @ + units]
    /\ bought' = bought
    /\ LET left == Paid(till, UsageCost(k, units))
       IN  IF (utilityDay + 1) % DaysOfUtilityMonth = 0
           THEN CloseUtilities(left, index)
           ELSE /\ till' = left
                /\ UNCHANGED << tariffs, projects, standby, indexNow >>

UtilitiesNext ==
    \/ \E k \in Kinds, price \in Offers, lock \in {"fixed", "floating"}, days \in Lengths :
         SignUtilityContract(k, price, lock, days)
    \/ \E k \in Kinds, saving \in Savings : InvestInEfficiency(k, saving)
    \/ \E k \in Kinds, units \in Draws, index \in Indexes : UtilityDay(k, units, index)

UtilitiesSpec == UtilitiesInit /\ [][UtilitiesNext]_utilityVars

(***************************************************************************)
(* What must hold.                                                         *)
(***************************************************************************)
(* What was paid for is in the house or being built, once, and never past
   what physics allows, however often the supplier changes or lapses. *)
EfficiencyIsPaidFor ==
    \A k \in Kinds :
        /\ tariffs[k].efficiency + SumSavings({ p \in projects : p.kind = k }) = bought[k]
        /\ bought[k] <= MaxEfficiency

(* A floating price is the signed price at the last close's index, or still
   the signed one; a fixed price never moves. *)
PricesFollowTheIndex ==
    \A k \in Kinds : tariffs[k].price \in
        {tariffs[k].base} \cup
        (IF tariffs[k].lock = "floating" THEN {tariffs[k].base * indexNow} ELSE {})

(* The generators run in a house that has had its energy project finished. *)
UtilitiesAgree ==
    /\ EfficiencyIsPaidFor
    /\ PricesFollowTheIndex
    /\ standby <=> tariffs["energy"].efficiency > 0
=============================================================================
