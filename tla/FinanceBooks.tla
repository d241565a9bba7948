----------------------------- MODULE FinanceBooks -----------------------------
(***************************************************************************)
(* The money of the company: cash and the ledger that explains it, what is *)
(* owed and owing, the loans, and the balance sheet drawn from them.       *)
(*                                                                         *)
(* Every posting is an operator from books to books, so that a day of the  *)
(* finance phase is their composition, in the order the phase runs them.   *)
(* The ledger is the sum of its entries.  Invoices and receivables are kept*)
(* as two totals, what has fallen due and what has not: they are settled in*)
(* order, as far as the cash goes, so a total is settled as its parts are. *)
(* The date they fall due is a day away.  A quantum that leaves the sheet  *)
(* unbalanced throws (assertInvariants) and the game stops there; the model*)
(* plays on, which only adds states to those its properties hold in.       *)
(***************************************************************************)
EXTENDS Integers

CONSTANTS
  StartingCash, StartingAssets, StartingDebt,
  Openings,        \* what a difficulty starts the career with
  UsefulLife,      \* months an asset is written down over
  BorrowingLimit,      \* what the bank lends in all
  DaysPerMonth, MonthsPerYear, TaxMonth,
  Takings,         \* what a day's stays bring in, at once or on terms
  Costs,           \* what a purchase, a wage bill, a bill for overheads is
  Shares,          \* what the commercial spaces bring in, or cost, a month
  Interests,       \* what a month's interest is
  Deposits,        \* what a group pays ahead
  SaleProceeds,        \* what the sale of a hotel raises
  Terms,           \* months a loan runs
  LoanKinds,       \* how principal is repaid and interest set
  MaxDealings,     \* bound: commands that move money
  MaxDay           \* bound: days played

ASSUME BooksAssumption ==
  /\ {StartingCash, StartingAssets, StartingDebt, BorrowingLimit, MaxDealings,
      MaxDay} \subseteq Nat
  /\ {UsefulLife, DaysPerMonth, MonthsPerYear} \subseteq Nat \ {0}
  /\ TaxMonth \in Nat /\ Openings \subseteq Nat
  /\ Takings \subseteq Nat /\ Costs \subseteq Nat /\ Interests \subseteq Nat
  /\ Deposits \subseteq Nat /\ SaleProceeds \subseteq Nat
  /\ Shares \subseteq Int /\ Terms \subseteq Nat \ {0}
  /\ LoanKinds \subseteq [pay : {"bullet", "linear", "annuity"},
                          rate : {"fixed", "variable"}]

VARIABLES
  books,      \* the money, in one record
  day,        \* days since the start
  block,      \* a group's block: its deposit and when it is released
  claim,      \* an insurance claim, filed or not
  stake,      \* what is invested in a venture
  dealings    \* commands that have moved money

booksVars == <<books, day, block, claim, stake, dealings>>

Smaller2(m, n) == IF m < n THEN m ELSE n
Larger2(m, n) == IF m < n THEN n ELSE m
-----------------------------------------------------------------------------
(* Postings.                                                               *)

AccountClass(account) ==
  CASE account \in {"roomRevenue", "otherRevenue", "commercialSpaces",
                    "insuranceSettlement"} -> "revenue"
    [] account = "capital" -> "equity"
    [] account = "interest" -> "financing"
    [] account = "capex" -> "capital"
    [] account \in {"investment", "disposal"} -> "investing"
    [] account \in {"loan", "loanPrincipal"} -> "borrowing"
    [] account = "tax" -> "tax"
    [] account \in {"groupDeposit", "receivableCollection"} -> "settlement"
    [] OTHER -> "operating"

Earn(b, amount, account) ==
  [b EXCEPT !.cash = @ + amount,
            !.ledger = @ + amount,
            !.retained = @ + (IF AccountClass(account) = "revenue" THEN amount ELSE 0),
            !.contributed = @ + (IF AccountClass(account) = "equity" THEN amount ELSE 0),
            !.payable = @ + (IF account = "groupDeposit" THEN amount ELSE 0)]

\* A slip: what is not paid for is not yet a cost.
SpendWhatIsPaid(b, amount, account) ==
  LET paid == Smaller2(amount, b.cash)
      class == AccountClass(account)
  IN  [b EXCEPT !.cash = @ - paid,
                !.ledger = @ - paid,
                !.retained = @ - (IF class \in {"operating", "financing", "revenue"}
                                  THEN paid ELSE 0),
                !.assets = @ + (IF account \in {"capex", "investment"}
                                THEN amount ELSE 0),
                !.payable = @ + (amount - paid)]

\* A cost is recognised in full; what the cash does not cover becomes a payable.
Spend(b, amount, account) ==
  LET paid == Smaller2(amount, b.cash)
      class == AccountClass(account)
  IN  [b EXCEPT !.cash = @ - paid,
                !.ledger = @ - paid,
                !.retained = @ - (IF class \in {"operating", "financing", "revenue"}
                                  THEN amount ELSE 0),
                !.assets = @ + (IF account \in {"capex", "investment"}
                                THEN amount ELSE 0),
                !.payable = @ + (amount - paid)]

RecogniseRevenueOnTerms(b, amount) ==
  [b EXCEPT !.receivable = @ + amount, !.owing.later = @ + amount,
            !.retained = @ + amount]

SettleReceivablesDue(b) ==
  LET collected == Earn(b, b.owing.due, "receivableCollection")
  IN  [collected EXCEPT !.receivable = @ - b.owing.due, !.owing.due = 0]

\* A slip: a settlement that is not posted.
SettlePayablesUnposted(b) ==
  LET paid == Larger2(0, Smaller2(b.payable, b.cash))
  IN  [b EXCEPT !.payable = @ - paid, !.cash = @ - paid]

SettlePayables(b) ==
  LET paid == Larger2(0, Smaller2(b.payable, b.cash))
  IN  [b EXCEPT !.payable = @ - paid, !.cash = @ - paid, !.ledger = @ - paid]

SettleSupplierInvoicesDue(b) ==
  LET paid == Larger2(0, Smaller2(b.suppliers.due, b.cash))
  IN  [b EXCEPT !.suppliers.due = @ - paid, !.cash = @ - paid, !.ledger = @ - paid]

\* The two entries of a release offset each other.  What the payable no longer
\* holds of the deposit is earned without ever having been owed.
ReleaseDeposit(b, deposit) ==
  [b EXCEPT !.payable = Larger2(0, @ - deposit),
            !.retained = @ + deposit,
            !.unbooked = @ - (deposit - Smaller2(deposit, b.payable))]
-----------------------------------------------------------------------------
(* Loans.                                                                  *)

NoLoan == [principal |-> 0, start |-> 0, term |-> 1,
           kind |-> [pay |-> "bullet", rate |-> "fixed"]]

Debt(b) == b.first.principal + b.second.principal

\* A loan that is paid off leaves the list, and those behind it move up.
DropRepaid(b) ==
  IF b.first.principal = 0
  THEN [b EXCEPT !.first = b.second, !.second = NoLoan]
  ELSE b

AddLoan(b, loan) ==
  IF b.first.principal = 0
  THEN [b EXCEPT !.first = loan]
  ELSE [b EXCEPT !.second = loan]

\* A slip: the month of the draw is counted twice.
MonthsLeftAndOne(loan, month) == Larger2(1, loan.term + 1 - (month - loan.start))

MonthsLeft(loan, month) == Larger2(1, loan.term - (month - loan.start))

\* The principal of the next instalment: the last one takes what is left.
ScheduledPrincipal(loan, month) ==
  LET left == MonthsLeft(loan, month)
  IN  IF left = 1 THEN {loan.principal}
      ELSE CASE loan.kind.pay = "bullet" -> {0}
             [] loan.kind.pay = "linear" -> {loan.principal \div left}
             [] OTHER -> 0 .. loan.principal

PayInstalment(b, which, interest, principal) ==
  LET onTime == b.cash >= interest + principal
      counted == IF onTime THEN b ELSE [b EXCEPT !.missed = @ + 1]
      charged == Spend(counted, interest, "interest")
      paid == Smaller2(principal, charged.cash)
      settled == Spend(charged, paid, "loanPrincipal")
  IN  IF which = "first"
      THEN [settled EXCEPT !.first.principal = @ - paid]
      ELSE [settled EXCEPT !.second.principal = @ - paid]

\* A loan at a variable rate is drawn anew over what is left of its term.
Repriced(loan, month) ==
  IF loan.principal > 0 /\ loan.kind.rate = "variable"
  THEN [loan EXCEPT !.start = month, !.term = MonthsLeft(loan, month)]
  ELSE loan

RepriceLoans(b, month) ==
  [b EXCEPT !.first = Repriced(@, month), !.second = Repriced(@, month)]

\* The instalments due on the first of a month, oldest loan first.
Serviced(b, month) ==
  {DropRepaid(PayInstalment(PayInstalment(RepriceLoans(b, month), "first", i, p), "second", j, q)) :
     i \in (IF b.first.principal > 0 THEN Interests ELSE {0}),
     p \in ScheduledPrincipal(b.first, month),
     j \in (IF b.second.principal > 0 THEN Interests ELSE {0}),
     q \in ScheduledPrincipal(b.second, month)}
-----------------------------------------------------------------------------
(* The close of a month, and the midnight it follows.                      *)

Depreciation(b) ==
  Larger2(0, Smaller2(StartingAssets \div UsefulLife, StartingAssets - b.depreciated))

ChargeInsuranceAndDepreciation(b, premium, period) ==
  IF b.lastDepreciation = period
  THEN b
  ELSE [Spend(b, premium, "insurancePremium") EXCEPT
          !.retained = @ - Depreciation(b),
          !.depreciated = @ + Depreciation(b),
          !.lastDepreciation = period]

RunCommercialSpaceMonth(b, share) ==
  IF share >= 0 THEN Earn(b, share, "commercialSpaces")
                ELSE Spend(b, -share, "commercialSpaces")

MonthOfYear(period) == 1 + (period % MonthsPerYear)

PayTax(b, period) ==
  IF MonthOfYear(period) = TaxMonth
  THEN [Spend(b, b.tax, "tax") EXCEPT !.tax = 0]
  ELSE b

AccrueTax(b, period, charge) ==
  IF MonthOfYear(period) = MonthsPerYear
  THEN [b EXCEPT !.tax = @ + charge, !.retained = @ - charge]
  ELSE b

\* The stake was paid when the bet was taken; the return alone moves now.
ResolveOpportunity(b, invested, outcome) ==
  Earn([b EXCEPT !.assets = @ - invested, !.retained = @ + outcome],
       invested + outcome, "investment")

StartMonth(b) == [b EXCEPT !.openingCash = b.cash, !.openingLedger = b.ledger]

CloseMonth(b, period, bill, share, charge, invested, outcome) ==
  LET standing == Spend(b, bill, "utilities")
      spaces == RunCommercialSpaceMonth(standing, share)
      written == ChargeInsuranceAndDepreciation(spaces, bill, period)
      taxed == AccrueTax(PayTax(written, period), period, charge)
  IN  StartMonth(ResolveOpportunity(taxed, invested, outcome))

FallDue(b) ==
  [b EXCEPT !.owing = [due |-> @.due + @.later, later |-> 0],
            !.suppliers = [due |-> @.due + @.later, later |-> 0]]

Traded(b, cash, onTerms, wages) ==
  Spend(RecogniseRevenueOnTerms(Earn(FallDue(b), cash, "roomRevenue"), onTerms),
        wages, "wages")

Settled(b, settlement, deposit) ==
  LET paid == SettleSupplierInvoicesDue(SettlePayables(b))
      claimed == Earn(paid, settlement, "insuranceSettlement")
  IN  SettleReceivablesDue(ReleaseDeposit(claimed, deposit))
-----------------------------------------------------------------------------
NoBlock == [deposit |-> 0, release |-> 0]

BooksInit ==
  /\ \E term \in Terms :
       books =
         [cash |-> StartingCash, ledger |-> 0, opening |-> StartingCash, receivable |-> 0,
          owing |-> [due |-> 0, later |-> 0], assets |-> StartingAssets,
          depreciated |-> 0, lastDepreciation |-> -1, payable |-> 0,
          suppliers |-> [due |-> 0, later |-> 0], tax |-> 0,
          first |-> [principal |-> StartingDebt, start |-> 0, term |-> term,
                     kind |-> NoLoan.kind],
          second |-> NoLoan,
          contributed |-> StartingCash + StartingAssets - StartingDebt,
          retained |-> 0, openingCash |-> StartingCash, openingLedger |-> 0,
          missed |-> 0, unbooked |-> 0]
  /\ day = 0 /\ block = NoBlock /\ claim = FALSE /\ stake = 0 /\ dealings = 0

Dealing == dealings < MaxDealings /\ dealings' = dealings + 1

Take(amount) ==
  /\ Dealing /\ books' = Earn(books, amount, "otherRevenue")
  /\ UNCHANGED <<day, block, claim, stake>>

Pay(amount, account) ==
  /\ Dealing /\ books' = Spend(books, amount, account)
  /\ UNCHANGED <<day, block, claim, stake>>

BuySuppliesOnAccount(cost) ==
  /\ Dealing
  /\ books' = [books EXCEPT !.retained = @ - cost, !.suppliers.later = @ + cost]
  /\ UNCHANGED <<day, block, claim, stake>>

AcceptGroupContract(deposit, release) ==
  /\ Dealing /\ block = NoBlock
  /\ books' = Earn(books, deposit, "groupDeposit")
  /\ block' = [deposit |-> deposit, release |-> release]
  /\ UNCHANGED <<day, claim, stake>>

FileClaim ==
  /\ Dealing /\ ~claim /\ claim' = TRUE
  /\ UNCHANGED <<books, day, block, stake>>

Invest(amount) ==
  /\ Dealing /\ stake = 0 /\ stake' = amount
  /\ books' = Spend(books, amount, "investment")
  /\ UNCHANGED <<day, block, claim>>

TakeLoan(amount, term, kind) ==
  /\ Dealing /\ books.second.principal = 0
  /\ Debt(books) + amount <= BorrowingLimit
  /\ books' = Earn(AddLoan(books, [principal |-> amount, start |-> day \div DaysPerMonth,
                                   term |-> term, kind |-> kind]), amount, "loan")
  /\ UNCHANGED <<day, block, claim, stake>>

RepayLoan(amount) ==
  /\ Dealing /\ amount <= books.first.principal /\ amount <= books.cash
  /\ books' = DropRepaid(Spend([books EXCEPT !.first.principal = @ - amount],
                               amount, "loan"))
  /\ UNCHANGED <<day, block, claim, stake>>

NetLiquidity(b) ==
  b.cash + b.owing.due - b.payable - (b.suppliers.due + b.suppliers.later)

Distress == NetLiquidity(books) < 0

\* With no loan left to add the draw to, it is drawn all the same.
Refinance ==
  LET drawn == Smaller2(BorrowingLimit - Debt(books), -NetLiquidity(books))
      drawnOn == IF books.first.principal > 0
                 THEN [books EXCEPT !.first.principal = @ + drawn]
                 ELSE [books EXCEPT !.unbooked = @ + drawn]
  IN  /\ Dealing /\ Distress /\ Debt(books) < BorrowingLimit
      /\ books' = Earn(drawnOn, drawn, "loan")
      /\ UNCHANGED <<day, block, claim, stake>>

\* What the hotel sold is worth in the books stays in them.
SellHotelInDistress(proceeds) ==
  /\ Dealing /\ Distress
  /\ books' = Earn([books EXCEPT !.unbooked = @ + proceeds], proceeds, "disposal")
  /\ UNCHANGED <<day, block, claim, stake>>

AdmitInvestor ==
  /\ Dealing /\ Distress
  /\ books' = Earn(books, -NetLiquidity(books), "capital")
  /\ UNCHANGED <<day, block, claim, stake>>

\* Until the career starts, what it starts with follows the difficulty chosen,
\* whatever has been spent of it.
SetCampaignDifficulty(opening) ==
  LET delta == opening - books.opening
  IN  /\ Dealing /\ day = 0
      /\ books' = [books EXCEPT !.opening = opening, !.cash = @ + delta,
                                !.contributed = @ + delta, !.ledger = @ + delta]
      /\ UNCHANGED <<day, block, claim, stake>>

RunFinance(cash, onTerms, wages, settlement, bill, share, charge, outcome) ==
  LET today == day + 1
      monthRolled == today % DaysPerMonth = 0
      month == today \div DaysPerMonth
      traded == Traded(books, cash, onTerms, wages)
      released == block # NoBlock /\ block.release <= today
      deposit == IF released THEN block.deposit ELSE 0
      collected == IF claim THEN settlement ELSE 0
  IN  /\ day < MaxDay /\ day' = today
      /\ claim' = FALSE
      /\ block' = IF released THEN NoBlock ELSE block
      /\ stake' = IF monthRolled THEN 0 ELSE stake
      /\ IF monthRolled
         THEN \E serviced \in Serviced(traded, month) :
                books' = CloseMonth(Settled(serviced, collected, deposit), month - 1,
                                    bill, share, charge, stake,
                                    IF stake > 0 THEN outcome ELSE 0)
         ELSE books' = Settled(traded, collected, deposit)
      /\ UNCHANGED dealings

\* What a claim is settled with, a tax charge and what a venture comes to: asked for where
\* the day has one.
Settlements == IF claim THEN Takings \cup {0} ELSE {0}
Outcomes == IF (day + 1) % DaysPerMonth = 0 THEN {0, 1} ELSE {0}

BooksNext ==
  \/ \E n \in Takings : Take(n)
  \/ \E n \in Costs, account \in {"maintenance", "capex"} : Pay(n, account)
  \/ \E n \in Costs : BuySuppliesOnAccount(n)
  \/ \E n \in Deposits, ahead \in 1 .. 2 : AcceptGroupContract(n, day + ahead)
  \/ FileClaim
  \/ \E n \in Costs : Invest(n)
  \/ \E n \in Costs, term \in Terms, kind \in LoanKinds : TakeLoan(n, term, kind)
  \/ \E n \in 1 .. books.first.principal : RepayLoan(n)
  \/ Refinance
  \/ \E n \in SaleProceeds : SellHotelInDistress(n)
  \/ AdmitInvestor
  \/ \E opening \in Openings : SetCampaignDifficulty(opening)
  \/ \E cash, onTerms \in Takings \cup {0}, settlement \in Settlements,
        wages, bill \in Costs, share \in Shares, charge, outcome \in Outcomes :
       RunFinance(cash, onTerms, wages, settlement, bill, share, charge, outcome)

BooksSpec == BooksInit /\ [][BooksNext]_booksVars
-----------------------------------------------------------------------------
(* Properties.                                                             *)

Net(b) ==
  (b.cash + b.receivable + b.assets - b.depreciated)
    - (b.payable + b.suppliers.due + b.suppliers.later + b.tax + Debt(b))
    - (b.contributed + b.retained)

\* Through every purchase, shortfall, instalment, accrual and close the balance
\* sheet is out by no more than the three entries it is known to lack: a deposit
\* released after it was paid away, a hotel sold that stays among the assets,
\* and a refinancing drawn on no loan (GameSimulation.earn, spend, runFinance).
BooksBalance == Net(books) = books.unbooked

\* Cash is only ever moved through the ledger: the whole ledger explains the
\* cash there is, the entries since a month opened the month's change in it,
\* which is what its cash flow statement says.
CashIsTheLedger ==
  /\ books.cash = StartingCash + books.ledger
  /\ books.cash - books.openingCash = books.ledger - books.openingLedger

\* What is carried as receivable is what the debtors on the list owe.
ReceivablesAreTheList ==
  books.receivable = books.owing.due + books.owing.later

LedgerAgrees == CashIsTheLedger /\ ReceivablesAreTheList

\* A loan outlives its term only after an instalment the cash did not cover,
\* whatever is added to it, repaid early or paid short in between.
LateOnlyIfMissed ==
  \A loan \in {books.first, books.second} :
    (loan.principal > 0 /\ day \div DaysPerMonth >= loan.start + Larger2(1, loan.term - 1))
      => books.missed > 0

\* As asserted after every command and quantum: assets are what is owed and
\* what belongs to the owners.
BalanceSheetBalances == Net(books) = 0
=============================================================================
