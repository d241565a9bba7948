-------------------------------- MODULE Lending --------------------------------
(***************************************************************************)
(* What the bank thinks of the company and what it lends: the standing     *)
(* that sets the rate and the limit, the loans with what is pledged for    *)
(* them, their instalments month by month, and, in distress, the measures  *)
(* headquarters has against closing down.                                  *)
(*                                                                         *)
(* Rates are in steps of RateStep basis points, so that a month's interest *)
(* is principal * rate / YearSteps.  FinanceBooks has the same loans as    *)
(* the books see them; here are the sums.                                  *)
(***************************************************************************)
EXTENDS Integers, Sequences, FiniteSets, SequencesExt

CONSTANTS
  Position,            \* [funds, equity, property, hq]: the position at the start
  Hotels,            \* how many houses the group has
  Results,           \* what a month may bring or cost
  Principals, LoanLengths, Profiles, RateTypes, Pledges,
  Macros,            \* the market's rate, in steps
  RateStep, YearSteps,
  Strong,            \* 500 000: a result the bank likes
  LeastCapacity,     \* 1 000 000
  RefinanceLine,        \* what refinancing goes up to
  LongestTerm,       \* 600 months
  Extra,             \* months a turnaround adds
  Surcharge, Penalty,\* steps a refinancing, a turnaround adds to the rate
  AdvisoryCost,
  Worth,             \* valueCompany
  HeadOfficeFloor, Reorganisation,
  MaxMoves, MaxLendMonths

ASSUME LendingAssumption ==
  /\ Principals \cup LoanLengths \cup {RateStep, YearSteps, LongestTerm, Extra} \subseteq Nat \ {0}
  /\ Pledges \cup Macros \cup {Hotels, Strong, LeastCapacity, RefinanceLine, Surcharge, Penalty,
                               AdvisoryCost, HeadOfficeFloor, Reorganisation, MaxMoves,
                               MaxLendMonths} \subseteq Nat
  /\ Results \subseteq Int /\ Worth \in Int
  /\ Profiles \subseteq {"linear", "annuity", "bullet"}
  /\ RateTypes \subseteq {"fixed", "variable"}

VARIABLES
  funds, unpaid,   \* finance.cashMinor, payableMinor
  equity,          \* contributed and retained, as the accounts have it
  property,        \* statements.fixedAssetsMinor
  loans,           \* state.loans
  conduct,         \* finance.paymentHistory
  esteem,          \* the group's reputation
  investors,       \* investorStakeBasisPoints, in hundredths
  headOffice,      \* headquarters.baseMonthlyCostMinor
  result,          \* the month's operating result so far
  macroRate,          \* world.macro.interestBp
  outcome,         \* narrative.career, of the last reading
  lendMonth,
  lent, returned, \* ghosts: what was lent, what came back
  vanished,        \* ghost: draws added to no loan
  disposed,        \* ghost: fixed assets that went
  lendMoves

lendingVars ==
  <<funds, unpaid, equity, property, loans, conduct, esteem, investors, headOffice, result,
    macroRate, outcome, lendMonth, lent, returned, vanished, disposed, lendMoves>>

Highest(a, b) == IF a > b THEN a ELSE b
Lowest(a, b) == IF a < b THEN a ELSE b
Within(low, high, n) == Highest(low, Lowest(high, n))
RoundedDiv(n, d) == (2 * n + d) \div (2 * d)

Outstanding ==
  LET upTo[n \in 0 .. Len(loans)] == IF n = 0 THEN 0 ELSE upTo[n - 1] + loans[n].principal
  IN  upTo[Len(loans)]
Pledged ==
  LET upTo[n \in 0 .. Len(loans)] == IF n = 0 THEN 0 ELSE upTo[n - 1] + loans[n].pledge
  IN  upTo[Len(loans)]
-----------------------------------------------------------------------------
(* The standing: calculateCreditStanding.                                  *)

Coverage(pledge) ==
  IF Outstanding = 0 THEN 10000 ELSE (pledge * 10000) \div Outstanding

Leverage == (Outstanding * 10000) \div Highest(1, funds + Highest(0, equity))

CashFlowPoints == IF result > Strong THEN 15 ELSE IF result > 0 THEN 8 ELSE IF result < 0 THEN -15 ELSE 0
LeveragePoints == IF Leverage = 0 THEN 15 ELSE IF Leverage < 3000 THEN 10 ELSE IF Leverage < 6000 THEN 0 ELSE -15
SizePoints == IF Hotels >= 5 THEN 15 ELSE IF Hotels >= 2 THEN 8 ELSE 0
EsteemPoints == IF esteem >= 80 THEN 10 ELSE IF esteem >= 60 THEN 5 ELSE IF esteem < 40 THEN -10 ELSE 0
CoveragePoints(pledge) ==
  LET c == Coverage(pledge)
  IN  IF c >= 15000 THEN 10 ELSE IF c >= 10000 THEN 5 ELSE IF c < 5000 THEN -10 ELSE 0
ConductPoints ==
  IF conduct.missed = 0 /\ conduct.onTime > 0
  THEN Lowest(15, 2 * conduct.onTime)
  ELSE -(5 * conduct.missed + 10 * conduct.inARow)

Score(added) ==
  Within(0, 100, 50 + CashFlowPoints + LeveragePoints + SizePoints + EsteemPoints
                    + CoveragePoints(Pledged + added) + ConductPoints)

Spread(added) == RoundedDiv(1000 - 9 * Score(added), RateStep)

CreditLimit(added) ==
  RoundedDiv(Highest(LeastCapacity, 3 * funds + 2 * Highest(0, equity) + Pledged + added)
            * (Score(added) + 20), 100)
-----------------------------------------------------------------------------
(* A loan's next instalment: the first row of debtSchedule over what is    *)
(* left of the term.                                                       *)

Power[base \in Nat, n \in Nat] == IF n = 0 THEN 1 ELSE base * Power[base, n - 1]

\* annuityTargetInstalment.
Target(p, rate, left) ==
  IF rate <= 0 THEN p \div left
  ELSE LET up == Power[YearSteps + rate, left]
           down == Power[YearSteps, left]
       IN  RoundedDiv(p * rate * up, YearSteps * (up - down))

InterestOn(l) == RoundedDiv(l.principal * l.rate, YearSteps)

Instalment(l, left) ==
  [interest |-> InterestOn(l),
   principal |-> IF left = 1 THEN l.principal
                 ELSE CASE l.profile = "linear" -> l.principal \div left
                        [] l.profile = "annuity" ->
                             Within(0, l.principal, Target(l.principal, l.rate, left) - InterestOn(l))
                        [] OTHER -> 0]

Remaining(l, at) == Highest(1, l.term - Highest(0, at - l.start))

\* A loan at a variable rate is drawn anew at the market's rate of the month.
Redrawn(l, at) ==
  IF l.rateType = "variable"
  THEN [l EXCEPT !.rate = Highest(0, macroRate + l.spread), !.term = Remaining(l, at), !.start = at]
  ELSE l

\* A cost the cash does not cover is owed: spend.
Charged(a, cost) ==
  LET paid == Lowest(cost, Highest(0, a.funds))
  IN  [a EXCEPT !.funds = @ - paid, !.unpaid = @ + cost - paid]

\* One loan on the first of the month: judged, charged and repaid as far as cash goes.
ServicedLoan(a, loan, at) ==
  LET l == Redrawn(loan, at)
      due == Instalment(l, Remaining(l, at))
      met == a.funds >= due.interest + due.principal
      judged == IF met THEN [a EXCEPT !.conduct.onTime = @ + 1, !.conduct.inARow = 0]
                ELSE [a EXCEPT !.conduct.missed = @ + 1, !.conduct.inARow = @ + 1]
      charged == Charged(judged, due.interest)
      paid == Lowest(due.principal, Highest(0, charged.funds))
      left == [l EXCEPT !.principal = @ - paid]
  IN  [charged EXCEPT !.funds = @ - paid, !.returned = @ + paid, !.equity = @ - due.interest,
                      !.loans = IF left.principal > 0 THEN Append(@, left) ELSE @]
-----------------------------------------------------------------------------
(* Distress.                                                               *)

NetFunds == funds - unpaid
CreditHeadroom == Highest(0, RefinanceLine - Outstanding)
InvestorRoom == IF Worth > 0 THEN (Worth * (49 - investors)) \div 100 ELSE 0
Reschedulable(l) == l.principal > 0 /\ l.term < LongestTerm

\* Whether a measure is to be had: careerFacts and validateRecoveryPath.
Possible(path) ==
  CASE path = "refinance" -> CreditHeadroom > 0
    [] path = "restructure" -> headOffice > HeadOfficeFloor
    [] path = "investor" -> InvestorRoom > 0
    [] path = "turnaround" -> \E i \in DOMAIN loans : Reschedulable(loans[i])

Paths == {"refinance", "restructure", "investor", "turnaround"}

\* assessCareerOutcome of the position as it is.
Reading ==
  LET open == {p \in Paths : Possible(p)}
  IN  [distress |-> IF NetFunds >= 0 THEN "healthy"
                    ELSE IF open # {} THEN "recoverable" ELSE "terminal",
       paths |-> IF NetFunds < 0 THEN open ELSE {}]
-----------------------------------------------------------------------------
LendingInit ==
  /\ funds = Position.funds /\ unpaid = 0 /\ equity = Position.equity /\ property = Position.property
  /\ loans = Position.loans /\ conduct = [onTime |-> 0, missed |-> 0, inARow |-> 0]
  /\ esteem = 50 /\ investors = 0 /\ headOffice = Position.headOffice /\ result = 0
  /\ macroRate \in Macros /\ outcome = [distress |-> "healthy", paths |-> {}] /\ lendMonth = 0
  /\ lent = FoldLeft(LAMBDA sum, l : sum + l.principal, 0, Position.loans)
  /\ returned = 0 /\ vanished = 0 /\ disposed = 0 /\ lendMoves = 0

Moving == lendMoves < MaxMoves /\ lendMoves' = lendMoves + 1 /\ UNCHANGED <<lendMonth, macroRate>>

\* The month's trading so far.
TradeMonth(amount) ==
  LET a == IF amount >= 0 THEN [funds |-> funds + amount, unpaid |-> unpaid]
           ELSE Charged([funds |-> funds, unpaid |-> unpaid], -amount)
  IN  /\ Moving
      /\ funds' = a.funds /\ unpaid' = a.unpaid
      /\ equity' = equity + amount /\ result' = result + amount
      /\ UNCHANGED <<property, loans, conduct, esteem, investors, headOffice, outcome, lent,
                     returned, vanished, disposed>>

\* TAKE_LOAN: what is pledged may not be pledged already, what is owed may not pass
\* the limit.
BorrowFromBank(p, term, profile, rateType, pledge) ==
  /\ Moving
  /\ pledge <= Highest(0, property - Pledged)
  /\ Outstanding + p <= CreditLimit(pledge)
  /\ loans' = Append(loans,
       [principal |-> p, rate |-> macroRate + Spread(pledge), term |-> term, profile |-> profile,
        rateType |-> rateType, spread |-> IF rateType = "variable" THEN Spread(pledge) ELSE 0,
        start |-> lendMonth, pledge |-> pledge])
  /\ funds' = funds + p /\ lent' = lent + p
  /\ UNCHANGED <<unpaid, equity, property, result, conduct, esteem, investors, headOffice,
                 outcome, returned, vanished, disposed>>

RepayBank(i, amount) ==
  /\ Moving
  /\ amount <= loans[i].principal /\ amount <= funds
  /\ loans' = IF amount = loans[i].principal THEN RemoveAt(loans, i)
              ELSE [loans EXCEPT ![i].principal = @ - amount]
  /\ funds' = funds - amount /\ returned' = returned + amount
  /\ UNCHANGED <<unpaid, equity, property, result, conduct, esteem, investors, headOffice,
                 outcome, lent, vanished, disposed>>

\* A stake in the story's bet, carried as a fixed asset, comes due: no longer carried.
DisposeAsset(amount) ==
  /\ Moving
  /\ amount <= property
  /\ property' = property - amount /\ disposed' = disposed + amount
  /\ UNCHANGED <<funds, unpaid, equity, loans, conduct, esteem, investors, headOffice, result,
                 outcome, lent, returned, vanished>>

\* TAKE_RECOVERY_MEASURE: in distress only, and what was to be had when it is taken,
\* whatever the last reading offered.  A reading follows each.
Measure(path) == Moving /\ NetFunds < 0 /\ Possible(path)

\* What is needed, up to the line, on the oldest loan; with none left the money comes
\* and nothing is owed for it.
RefinanceLoans ==
  LET amount == Lowest(CreditHeadroom, -NetFunds)
  IN  /\ Measure("refinance")
      /\ funds' = funds + amount /\ lent' = lent + amount
      /\ loans' = IF loans = <<>> THEN loans
                  ELSE [loans EXCEPT ![1].principal = @ + amount, ![1].rate = @ + Surcharge]
      /\ vanished' = vanished + IF loans = <<>> THEN amount ELSE 0
      /\ UNCHANGED <<unpaid, equity, property, result, conduct, esteem, investors, headOffice,
                     returned, disposed>>
      /\ outcome' = Reading'

ReorganiseHeadOffice ==
  LET a == Charged([funds |-> funds, unpaid |-> unpaid], Reorganisation)
  IN  /\ Measure("restructure")
      /\ headOffice' = Highest(HeadOfficeFloor, headOffice - headOffice \div 4)
      /\ funds' = a.funds /\ unpaid' = a.unpaid /\ equity' = equity - Reorganisation
      /\ result' = result - Reorganisation
      /\ UNCHANGED <<property, loans, conduct, esteem, investors, lent, returned, vanished,
                     disposed>>
      /\ outcome' = Reading'

TakeInInvestor ==
  LET amount == Lowest(-NetFunds, InvestorRoom)
      stake == Lowest(49 - investors, Highest(1, (amount * 100) \div Worth))
  IN  /\ Measure("investor")
      /\ investors' = investors + stake
      /\ esteem' = Highest(0, esteem - 2)
      /\ funds' = funds + amount /\ equity' = equity + amount
      /\ UNCHANGED <<unpaid, property, result, loans, conduct, headOffice, lent, returned,
                     vanished, disposed>>
      /\ outcome' = Reading'

\* The first loan that is not at the longest term runs on, at a price.
Turnaround ==
  LET i == CHOOSE n \in DOMAIN loans :
             Reschedulable(loans[n]) /\ \A m \in 1 .. (n - 1) : ~Reschedulable(loans[m])
      a == Charged([funds |-> funds, unpaid |-> unpaid], AdvisoryCost)
  IN  /\ Measure("turnaround")
      /\ loans' = [loans EXCEPT ![i].term = @ + Lowest(Extra, LongestTerm - @),
                                ![i].rate = @ + Penalty]
      /\ esteem' = Highest(0, esteem - 2)
      /\ funds' = a.funds /\ unpaid' = a.unpaid /\ equity' = equity - AdvisoryCost
      /\ result' = result - AdvisoryCost
      /\ UNCHANGED <<property, conduct, investors, headOffice, lent, returned, vanished, disposed>>
      /\ outcome' = Reading'

\* The first of a month: the loans in order, what is owed, headquarters' cost; a new
\* month's result, the reputation drifts back, and the company's position is read.
NextLendMonth(rate) ==
  LET at == lendMonth + 1
      start == [funds |-> funds, unpaid |-> unpaid, equity |-> equity, conduct |-> conduct,
                loans |-> <<>>, returned |-> returned]
      served == FoldLeft(LAMBDA a, l : ServicedLoan(a, l, at), start, loans)
      settled == Lowest(served.unpaid, Highest(0, served.funds))
      a == Charged([served EXCEPT !.funds = @ - settled, !.unpaid = @ - settled], headOffice)
  IN  /\ lendMonth < MaxLendMonths /\ lendMonth' = at
      /\ funds' = a.funds /\ unpaid' = a.unpaid /\ equity' = a.equity - headOffice
      /\ conduct' = a.conduct /\ loans' = a.loans /\ returned' = a.returned
      /\ result' = 0
      /\ esteem' = IF esteem > 50 THEN esteem - 1 ELSE IF esteem < 50 THEN esteem + 1 ELSE 50
      /\ macroRate' = rate
      /\ UNCHANGED <<property, investors, headOffice, lent, vanished, disposed, lendMoves>>
      /\ outcome' = Reading'

LendingNext ==
  \/ \E amount \in Results : TradeMonth(amount)
  \/ \E p \in Principals, term \in LoanLengths, profile \in Profiles, type \in RateTypes,
        pledge \in Pledges : BorrowFromBank(p, term, profile, type, pledge)
  \/ \E i \in DOMAIN loans : \E amount \in Principals \cup {loans[i].principal} :
       RepayBank(i, amount)
  \/ \E amount \in Pledges \ {0} : DisposeAsset(amount)
  \/ RefinanceLoans
  \/ ReorganiseHeadOffice
  \/ TakeInInvestor
  \/ Turnaround
  \/ \E rate \in Macros : NextLendMonth(rate)

LendingSpec == LendingInit /\ [][LendingNext]_lendingVars
-----------------------------------------------------------------------------
(* Properties.                                                             *)

\* What was lent is owed or has come back, through instalments, redrawing, extensions
\* and early repayment, but for what a refinancing drew with no loan to add it to
\* (recovery.ts:307).
LentIsOwedOrReturned == Outstanding + returned + vanished = lent

\* A loan whose time is up is gone, however it is repaid, at whatever rate and whatever was
\* added to it, unless an instalment was missed on the way.
RepaidInTime ==
  \A i \in DOMAIN loans :
    lendMonth - loans[i].start >= loans[i].term => conduct.missed > 0

\* The same house secures one loan: more is pledged than is there only where something
\* has gone since (companyCommands.ts:325).
PledgedOnce == Pledged <= property + disposed

LendingHolds ==
  /\ LentIsOwedOrReturned
  /\ RepaidInTime
  /\ PledgedOnce
=============================================================================
