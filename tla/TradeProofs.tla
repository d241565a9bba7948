----------------------------- MODULE TradeProofs -----------------------------
(***************************************************************************)
(* The money of the company, its trade and its registers, for any amounts, *)
(* any number of loans' terms, days and dealings, any houses, rivals,      *)
(* guests, leads and lots, any rates and any difficulty.                   *)
(*                                                                         *)
(* The books: the balance sheet is out by exactly what is known to be      *)
(* missing from it, the ledger explains the cash, and the receivables are  *)
(* those on the list.  A book is sound when the three hold of it and its   *)
(* numbers are integers.  Each posting makes a sound book of a sound one,  *)
(* so a day of the finance phase, which is a composition of postings,      *)
(* does too.                                                               *)
(*                                                                         *)
(* The loans: postings leave the list of loans alone, and an instalment    *)
(* that is paid leaves nothing to owe or at least a month of the term to   *)
(* owe it in.                                                              *)
(*                                                                         *)
(* The trade: the scheme's debt is the sum of its members' points, and     *)
(* the city's nights the sum of what its houses sold; both follow a        *)
(* change of one term of a sum (DataInduction).  A price is a product of   *)
(* bounded factors, and so are a difficulty's terms: their bounds follow   *)
(* factor by factor.                                                       *)
(*                                                                         *)
(* The company: the registers are read off the portfolio, a managed month  *)
(* is a function of the house's age, and the register of questions is a    *)
(* set with one question to an id, sorted by rank.                         *)
(***************************************************************************)
EXTENDS FinanceBooks, Trade, DataInduction, SequenceTheorems, FiniteSetTheorems,
        TLAPS

-----------------------------------------------------------------------------
(* The books.                                                              *)

LoanBooks == [principal : Int, start : Int, term : Int, kind : LoanKinds \cup {NoLoan.kind}]
Totals == [due : Int, later : Int]

BookRecords ==
  [cash : Int, ledger : Int, opening : Int, receivable : Int, owing : Totals, assets : Int,
   depreciated : Int, lastDepreciation : Int, payable : Int, suppliers : Totals,
   tax : Int, first : LoanBooks, second : LoanBooks, contributed : Int, retained : Int,
   openingCash : Int, openingLedger : Int, missed : Int, unbooked : Int]

\* The three facts, of a book that has integers in every column.
Sound(b) ==
  /\ b \in BookRecords
  /\ Net(b) = b.unbooked
  /\ b.cash - b.ledger = StartingCash
  /\ b.openingCash - b.openingLedger = StartingCash
  /\ b.receivable = b.owing.due + b.owing.later

LEMMA Classes ==
  /\ \A a \in {"roomRevenue", "otherRevenue", "commercialSpaces", "insuranceSettlement"} :
       AccountClass(a) = "revenue"
  /\ AccountClass("capital") = "equity"
  /\ AccountClass("interest") = "financing"
  /\ AccountClass("capex") = "capital"
  /\ \A a \in {"investment", "disposal"} : AccountClass(a) = "investing"
  /\ \A a \in {"loan", "loanPrincipal"} : AccountClass(a) = "borrowing"
  /\ AccountClass("tax") = "tax"
  /\ \A a \in {"groupDeposit", "receivableCollection"} : AccountClass(a) = "settlement"
  /\ \A a \in {"maintenance", "wages", "utilities", "insurancePremium"} :
       AccountClass(a) = "operating"
  BY DEF AccountClass

LEMMA Columns ==
  ASSUME NEW b \in BookRecords
  PROVE  /\ b.cash \in Int /\ b.ledger \in Int /\ b.opening \in Int /\ b.receivable \in Int
         /\ b.owing \in Totals /\ b.owing.due \in Int /\ b.owing.later \in Int
         /\ b.assets \in Int /\ b.depreciated \in Int /\ b.lastDepreciation \in Int
         /\ b.payable \in Int /\ b.tax \in Int /\ b.contributed \in Int /\ b.retained \in Int
         /\ b.suppliers \in Totals /\ b.suppliers.due \in Int /\ b.suppliers.later \in Int
         /\ b.first \in LoanBooks /\ b.first.principal \in Int
         /\ b.second \in LoanBooks /\ b.second.principal \in Int
         /\ b.openingCash \in Int /\ b.openingLedger \in Int
         /\ b.missed \in Int /\ b.unbooked \in Int
PROOF
  <1>1. /\ b.cash \in Int /\ b.ledger \in Int /\ b.opening \in Int /\ b.receivable \in Int
        /\ b.owing \in Totals /\ b.assets \in Int /\ b.depreciated \in Int
        /\ b.lastDepreciation \in Int /\ b.payable \in Int /\ b.tax \in Int
        /\ b.contributed \in Int /\ b.retained \in Int /\ b.suppliers \in Totals
        /\ b.first \in LoanBooks /\ b.second \in LoanBooks
        /\ b.openingCash \in Int /\ b.openingLedger \in Int
        /\ b.missed \in Int /\ b.unbooked \in Int
    BY DEF BookRecords
  <1>2. \A t \in Totals : t.due \in Int /\ t.later \in Int
    BY DEF Totals
  <1>3. \A l \in LoanBooks : l.principal \in Int
    BY DEF LoanBooks
  <1>4. QED BY <1>1, <1>2, <1>3

\* What a posting may not disturb.
LEMMA StaysSound ==
  ASSUME NEW b, Sound(b), NEW c \in BookRecords,
         NEW d \in Int, Net(c) = Net(b) + d, c.unbooked = b.unbooked + d,
         c.cash - c.ledger = b.cash - b.ledger,
         c.openingCash = b.openingCash, c.openingLedger = b.openingLedger,
         c.receivable - (c.owing.due + c.owing.later)
           = b.receivable - (b.owing.due + b.owing.later)
  PROVE  Sound(c)
PROOF
  <1>1. b \in BookRecords /\ Net(b) = b.unbooked /\ b.cash - b.ledger = StartingCash
        /\ b.openingCash - b.openingLedger = StartingCash
        /\ b.receivable = b.owing.due + b.owing.later
    BY DEF Sound
  <1>2. Net(c) = c.unbooked /\ c.receivable = c.owing.due + c.owing.later
    <2>2. /\ b.receivable \in Int /\ b.owing.due \in Int /\ b.owing.later \in Int
          /\ c.receivable \in Int /\ c.owing.due \in Int /\ c.owing.later \in Int
      BY <1>1, Columns
    <2>3. Net(c) = c.unbooked
      BY <1>1
    <2>4. c.receivable = c.owing.due + c.owing.later
      BY SMTT(40), <1>1, <2>2
    <2>5. QED BY <2>3, <2>4
  <1>3. QED BY <1>1, <1>2 DEF Sound

-----------------------------------------------------------------------------
(* Postings: the books with an amount added to each of these columns.      *)

Posted(b, cash, assets, written, payable, tax, capital, retained, unbooked) ==
  [b EXCEPT !.cash = @ + cash, !.ledger = @ + cash, !.assets = @ + assets,
            !.depreciated = @ + written, !.payable = @ + payable, !.tax = @ + tax,
            !.contributed = @ + capital, !.retained = @ + retained,
            !.unbooked = @ + unbooked]

LEMMA PostedIsABook ==
  ASSUME NEW b \in BookRecords, NEW cash \in Int, NEW assets \in Int, NEW written \in Int,
         NEW payable \in Int, NEW tax \in Int, NEW capital \in Int, NEW retained \in Int,
         NEW unbooked \in Int
  PROVE  Posted(b, cash, assets, written, payable, tax, capital, retained, unbooked)
           \in BookRecords
PROOF
  <1>1. /\ b.cash + cash \in Int /\ b.ledger + cash \in Int /\ b.assets + assets \in Int
        /\ b.depreciated + written \in Int /\ b.payable + payable \in Int
        /\ b.tax + tax \in Int /\ b.contributed + capital \in Int
        /\ b.retained + retained \in Int /\ b.unbooked + unbooked \in Int
    BY Columns
  <1>2. QED BY <1>1, Zenon DEF BookRecords, Posted

\* A posting that balances.
LEMMA PostedIsSound ==
  ASSUME NEW b, Sound(b), NEW cash \in Int, NEW assets \in Int, NEW written \in Int,
         NEW payable \in Int, NEW tax \in Int, NEW capital \in Int, NEW retained \in Int,
         NEW unbooked \in Int,
         cash + assets - written - payable - tax - capital - retained = unbooked
  PROVE  Sound(Posted(b, cash, assets, written, payable, tax, capital, retained, unbooked))
PROOF
  <1> DEFINE c == Posted(b, cash, assets, written, payable, tax, capital, retained, unbooked)
  <1>1. b \in BookRecords /\ c \in BookRecords
    BY PostedIsABook DEF Sound
  <1>2. c = [b EXCEPT !.cash = @ + cash, !.ledger = @ + cash, !.assets = @ + assets,
               !.depreciated = @ + written, !.payable = @ + payable, !.tax = @ + tax,
               !.contributed = @ + capital, !.retained = @ + retained,
               !.unbooked = @ + unbooked]
    BY DEF Posted
  <1> HIDE DEF c
  <1>3. /\ c.cash = b.cash + cash /\ c.ledger = b.ledger + cash
        /\ c.assets = b.assets + assets /\ c.depreciated = b.depreciated + written
        /\ c.payable = b.payable + payable /\ c.tax = b.tax + tax
        /\ c.contributed = b.contributed + capital /\ c.retained = b.retained + retained
        /\ c.unbooked = b.unbooked + unbooked
        /\ c.receivable = b.receivable /\ c.owing = b.owing /\ c.suppliers = b.suppliers
        /\ c.first = b.first /\ c.second = b.second
        /\ c.openingCash = b.openingCash /\ c.openingLedger = b.openingLedger
    BY ZenonT(60), <1>1, <1>2 DEF BookRecords
  <1>4. /\ b.cash \in Int /\ b.ledger \in Int /\ b.receivable \in Int /\ b.assets \in Int
        /\ b.depreciated \in Int /\ b.payable \in Int /\ b.suppliers.due \in Int
        /\ b.suppliers.later \in Int /\ b.tax \in Int /\ b.first.principal \in Int
        /\ b.second.principal \in Int /\ b.contributed \in Int /\ b.retained \in Int
    BY <1>1, Columns
  <1>5. c.cash - c.ledger = b.cash - b.ledger
    BY <1>3, <1>4
  <1>6. Net(c) = Net(b) + unbooked
    <2>1. Net(c) = Net(b) + (cash + assets - written - payable - tax - capital - retained)
      BY <1>3, <1>4, SMTT(30) DEF Net, Debt
    <2>2. QED BY <2>1
  <1>8. Sound(c)
    BY <1>1, <1>3, <1>5, <1>6, StaysSound
  <1>9. QED BY <1>8 DEF c

\* Whatever the account, money taken in is a posting.
LEMMA EarnIsPosted ==
  ASSUME NEW b \in BookRecords, NEW n \in Int, NEW a
  PROVE  Earn(b, n, a) = Posted(b, n, 0, 0, IF a = "groupDeposit" THEN n ELSE 0, 0,
                                IF AccountClass(a) = "equity" THEN n ELSE 0,
                                IF AccountClass(a) = "revenue" THEN n ELSE 0, 0)
PROOF
  <1>1. /\ b.assets + 0 = b.assets /\ b.depreciated + 0 = b.depreciated
        /\ b.tax + 0 = b.tax /\ b.unbooked + 0 = b.unbooked
    BY Columns
  <1>2. QED BY ZenonT(60), <1>1 DEF Earn, Posted, BookRecords

LEMMA EarnIsSound ==
  ASSUME NEW b, Sound(b), NEW n \in Int,
         NEW a \in {"roomRevenue", "otherRevenue", "commercialSpaces", "insuranceSettlement",
                    "capital", "groupDeposit"}
  PROVE  Sound(Earn(b, n, a))
PROOF
  <1> DEFINE owed == IF a = "groupDeposit" THEN n ELSE 0
             capital == IF AccountClass(a) = "equity" THEN n ELSE 0
             earned == IF AccountClass(a) = "revenue" THEN n ELSE 0
  <1>1. owed \in Int /\ capital \in Int /\ earned \in Int
        /\ n + 0 - 0 - owed - 0 - capital - earned = 0
    BY Classes
  <1>2. Earn(b, n, a) = Posted(b, n, 0, 0, owed, 0, capital, earned, 0)
    BY EarnIsPosted DEF Sound
  <1> HIDE DEF owed, capital, earned
  <1>3. 0 \in Int
    OBVIOUS
  <1>4. Sound(Posted(b, n, 0, 0, owed, 0, capital, earned, 0))
    BY <1>1, <1>3, PostedIsSound, Zenon
  <1>5. QED BY <1>2, <1>4

\* What is paid out, and what becomes a payable.
LEMMA SpendIsPosted ==
  ASSUME NEW b \in BookRecords, NEW n \in Int, NEW a
  PROVE  LET paid == Smaller2(n, b.cash)
             bought == IF a \in {"capex", "investment"} THEN n ELSE 0
             cost == IF AccountClass(a) \in {"operating", "financing", "revenue"}
                     THEN n ELSE 0
         IN  Spend(b, n, a) = Posted(b, -paid, bought, 0, n - paid, 0, 0, -cost, 0)
PROOF
  <1> DEFINE paid == Smaller2(n, b.cash)
             bought == IF a \in {"capex", "investment"} THEN n ELSE 0
             cost == IF AccountClass(a) \in {"operating", "financing", "revenue"}
                     THEN n ELSE 0
  <1>1. /\ b.depreciated + 0 = b.depreciated /\ b.tax + 0 = b.tax
        /\ b.contributed + 0 = b.contributed /\ b.unbooked + 0 = b.unbooked
        /\ b.cash + (-paid) = b.cash - paid /\ b.ledger + (-paid) = b.ledger - paid
        /\ b.retained + (-cost) = b.retained - cost
    BY Columns DEF Smaller2
  <1>2. Spend(b, n, a) = [b EXCEPT !.cash = @ - paid, !.ledger = @ - paid,
                                   !.retained = @ - cost, !.assets = @ + bought,
                                   !.payable = @ + (n - paid)]
    BY DEF Spend
  <1> HIDE DEF paid, bought, cost
  <1>3. Spend(b, n, a) = Posted(b, -paid, bought, 0, n - paid, 0, 0, -cost, 0)
    <2>1. Posted(b, -paid, bought, 0, n - paid, 0, 0, -cost, 0)
            = [b EXCEPT !.cash = b.cash - paid, !.ledger = b.ledger - paid,
                        !.assets = b.assets + bought, !.depreciated = b.depreciated,
                        !.payable = b.payable + (n - paid), !.tax = b.tax,
                        !.contributed = b.contributed, !.retained = b.retained - cost,
                        !.unbooked = b.unbooked]
      BY <1>1 DEF Posted
    <2>2. QED BY <1>2, <2>1, ZenonT(40) DEF BookRecords
  <1>4. QED BY <1>3 DEF paid, bought, cost

LEMMA SpendIsSound ==
  ASSUME NEW b, Sound(b), NEW n \in Int,
         NEW a \in {"maintenance", "wages", "utilities", "insurancePremium", "interest",
                    "commercialSpaces", "capex", "investment"}
  PROVE  Sound(Spend(b, n, a))
PROOF
  <1> DEFINE paid == Smaller2(n, b.cash)
             bought == IF a \in {"capex", "investment"} THEN n ELSE 0
             cost == IF AccountClass(a) \in {"operating", "financing", "revenue"}
                     THEN n ELSE 0
  <1>1. b \in BookRecords
    BY DEF Sound
  <1>2. bought \in Int /\ cost \in Int /\ bought + cost = n
    BY Classes
  <1>3. paid \in Int
    BY <1>1, Columns DEF Smaller2
  <1>4. Spend(b, n, a) = Posted(b, -paid, bought, 0, n - paid, 0, 0, -cost, 0)
    BY <1>1, SpendIsPosted
  <1> HIDE DEF paid, bought, cost
  <1>5. -paid \in Int /\ n - paid \in Int /\ -cost \in Int
        /\ -paid + bought - 0 - (n - paid) - 0 - 0 - (-cost) = 0
    BY <1>2, <1>3
  <1>6. 0 \in Int
    OBVIOUS
  <1>7. Sound(Posted(b, -paid, bought, 0, n - paid, 0, 0, -cost, 0))
    BY <1>2, <1>5, <1>6, PostedIsSound, Zenon
  <1>8. QED BY <1>4, <1>7

LEMMA SettlePayablesIsSound == ASSUME NEW b, Sound(b) PROVE Sound(SettlePayables(b))
PROOF
  <1> DEFINE paid == Larger2(0, Smaller2(b.payable, b.cash))
  <1>1. b \in BookRecords
    BY DEF Sound
  <1>2. paid \in Int
    BY <1>1, Columns DEF Larger2, Smaller2
  <1>3. SettlePayables(b) = [b EXCEPT !.payable = @ - paid, !.cash = @ - paid,
                                      !.ledger = @ - paid]
    BY DEF SettlePayables
  <1> HIDE DEF paid
  <1>4. /\ b.assets + 0 = b.assets /\ b.depreciated + 0 = b.depreciated
        /\ b.tax + 0 = b.tax /\ b.unbooked + 0 = b.unbooked
        /\ b.contributed + 0 = b.contributed /\ b.retained + 0 = b.retained
        /\ b.cash + (-paid) = b.cash - paid /\ b.ledger + (-paid) = b.ledger - paid
        /\ b.payable + (-paid) = b.payable - paid
    BY <1>1, <1>2, Columns
  <1>5. SettlePayables(b) = Posted(b, -paid, 0, 0, -paid, 0, 0, 0, 0)
    <2>1. Posted(b, -paid, 0, 0, -paid, 0, 0, 0, 0)
            = [b EXCEPT !.cash = b.cash - paid, !.ledger = b.ledger - paid,
                        !.assets = b.assets, !.depreciated = b.depreciated,
                        !.payable = b.payable - paid, !.tax = b.tax,
                        !.contributed = b.contributed, !.retained = b.retained,
                        !.unbooked = b.unbooked]
      BY <1>4 DEF Posted
    <2>2. QED BY <1>1, <1>3, <2>1, ZenonT(40) DEF BookRecords
  <1>6. 0 \in Int /\ -paid \in Int /\ -paid + 0 - 0 - (-paid) - 0 - 0 - 0 = 0
    BY <1>2
  <1>7. Sound(Posted(b, -paid, 0, 0, -paid, 0, 0, 0, 0))
    BY <1>6, PostedIsSound, Zenon
  <1>8. QED BY <1>5, <1>7

LEMMA ReleaseDepositIsSound ==
  ASSUME NEW b, Sound(b), NEW n \in Int PROVE Sound(ReleaseDeposit(b, n))
PROOF
  <1> DEFINE owed == Larger2(0, b.payable - n) - b.payable
             missing == -(n - Smaller2(n, b.payable))
  <1>1. b \in BookRecords
    BY DEF Sound
  <1>2. /\ owed \in Int /\ missing \in Int /\ 0 \in Int
        /\ 0 + 0 - 0 - owed - 0 - 0 - n = missing
        /\ b.payable + owed = Larger2(0, b.payable - n)
        /\ b.unbooked + missing = b.unbooked - (n - Smaller2(n, b.payable))
    BY <1>1, Columns DEF Larger2, Smaller2
  <1>3. /\ b.assets + 0 = b.assets /\ b.depreciated + 0 = b.depreciated
        /\ b.tax + 0 = b.tax /\ b.contributed + 0 = b.contributed
        /\ b.cash + 0 = b.cash /\ b.ledger + 0 = b.ledger
    BY <1>1, Columns
  <1>4. ReleaseDeposit(b, n) = [b EXCEPT !.payable = b.payable + owed,
                                         !.retained = b.retained + n,
                                         !.unbooked = b.unbooked + missing]
    BY <1>2 DEF ReleaseDeposit
  <1> HIDE DEF owed, missing
  <1>5. ReleaseDeposit(b, n) = Posted(b, 0, 0, 0, owed, 0, 0, n, missing)
    <2>1. Posted(b, 0, 0, 0, owed, 0, 0, n, missing)
            = [b EXCEPT !.cash = b.cash, !.ledger = b.ledger,
                        !.assets = b.assets, !.depreciated = b.depreciated,
                        !.payable = b.payable + owed, !.tax = b.tax,
                        !.contributed = b.contributed, !.retained = b.retained + n,
                        !.unbooked = b.unbooked + missing]
      BY <1>3 DEF Posted
    <2>2. QED BY <1>1, <1>4, <2>1, ZenonT(40) DEF BookRecords
  <1>6. Sound(Posted(b, 0, 0, 0, owed, 0, 0, n, missing))
    BY <1>2, PostedIsSound, Zenon
  <1>7. QED BY <1>5, <1>6

LEMMA ResolveOpportunityIsSound ==
  ASSUME NEW b, Sound(b), NEW n \in Int, NEW m \in Int
  PROVE  Sound(ResolveOpportunity(b, n, m))
PROOF
  <1> DEFINE c == [b EXCEPT !.assets = @ - n, !.retained = @ + m]
  <1>1. b \in BookRecords
    BY DEF Sound
  <1>2. b.assets - n \in Int /\ b.retained + m \in Int /\ b.assets + (-n) = b.assets - n
    BY <1>1, Columns
  <1>3. c \in BookRecords
    BY <1>1, <1>2, Zenon DEF BookRecords
  <1>4. AccountClass("investment") = "investing"
    BY Classes
  <1>5. ResolveOpportunity(b, n, m) = Posted(c, n + m, 0, 0, 0, 0, 0, 0, 0)
    BY <1>3, <1>4, EarnIsPosted DEF ResolveOpportunity
  <1>6. /\ b.depreciated + 0 = b.depreciated /\ b.payable + 0 = b.payable
        /\ b.tax + 0 = b.tax /\ b.contributed + 0 = b.contributed
        /\ b.unbooked + 0 = b.unbooked
        /\ (b.assets - n) + 0 = b.assets + (-n) /\ (b.retained + m) + 0 = b.retained + m
    BY <1>1, Columns
  <1>7. Posted(c, n + m, 0, 0, 0, 0, 0, 0, 0) = Posted(b, n + m, -n, 0, 0, 0, 0, m, 0)
    BY ZenonT(60), <1>1, <1>6 DEF Posted, BookRecords
  <1>8. 0 \in Int /\ n + m \in Int /\ -n \in Int /\ (n + m) + (-n) - 0 - 0 - 0 - 0 - m = 0
    OBVIOUS
  <1>9. Sound(Posted(b, n + m, -n, 0, 0, 0, 0, m, 0))
    BY <1>8, PostedIsSound, Zenon
  <1>10. QED BY <1>5, <1>7, <1>9

-----------------------------------------------------------------------------
(* Columns the balance sheet is not drawn from.                            *)

LEMMA AsideIsSound ==
  ASSUME NEW b, Sound(b), NEW last \in Int, NEW missed \in Int, NEW opening \in Int
  PROVE  Sound([b EXCEPT !.lastDepreciation = last, !.missed = missed, !.opening = opening])
PROOF
  <1> DEFINE c == [b EXCEPT !.lastDepreciation = last, !.missed = missed, !.opening = opening]
  <1>1. b \in BookRecords
    BY DEF Sound
  <1>2. c \in BookRecords
    BY <1>1, Zenon DEF BookRecords
  <1>3. /\ c.cash = b.cash /\ c.ledger = b.ledger /\ c.receivable = b.receivable
        /\ c.owing = b.owing /\ c.assets = b.assets /\ c.depreciated = b.depreciated
        /\ c.payable = b.payable /\ c.suppliers = b.suppliers /\ c.tax = b.tax
        /\ c.first = b.first /\ c.second = b.second /\ c.contributed = b.contributed
        /\ c.retained = b.retained /\ c.openingCash = b.openingCash
        /\ c.openingLedger = b.openingLedger /\ c.unbooked = b.unbooked
    BY <1>1 DEF BookRecords
  <1> HIDE DEF c
  <1>4. Net(c) = Net(b)
    BY <1>3 DEF Net, Debt
  <1>5. Sound(c)
    BY <1>2, <1>3, <1>4 DEF Sound
  <1>6. QED BY <1>5 DEF c

LEMMA ChargeIsSound ==
  ASSUME NEW b, Sound(b), NEW premium \in Int, NEW span \in Int
  PROVE  Sound(ChargeInsuranceAndDepreciation(b, premium, span))
PROOF
  <1> DEFINE c == Spend(b, premium, "insurancePremium")
             n == Depreciation(b)
             d == [c EXCEPT !.retained = c.retained - n, !.depreciated = c.depreciated + n]
  <1>1. b \in BookRecords /\ Sound(c) /\ c \in BookRecords
    <2>1. Sound(c)
      BY SpendIsSound
    <2>2. QED BY <2>1 DEF Sound
  <1>2. n \in Int
    <2>1. b.depreciated \in Int /\ StartingAssets \div UsefulLife \in Int /\ StartingAssets \in Int
      BY <1>1, Columns, BooksAssumption
    <2>2. QED BY <2>1 DEF Depreciation, Larger2, Smaller2
  <1>3. c.depreciated = b.depreciated
    <2>1. Spend(b, premium, "insurancePremium").depreciated = b.depreciated
      BY <1>1 DEF Spend, BookRecords
    <2>2. QED BY <2>1
  <1> HIDE DEF c, n
  <1>4. Sound(d)
    <2>1. /\ c.cash + 0 = c.cash /\ c.ledger + 0 = c.ledger /\ c.assets + 0 = c.assets
          /\ c.payable + 0 = c.payable /\ c.tax + 0 = c.tax
          /\ c.contributed + 0 = c.contributed /\ c.unbooked + 0 = c.unbooked
          /\ c.retained + (-n) = c.retained - n
      BY <1>1, <1>2, Columns
    <2>2. Posted(c, 0, 0, n, 0, 0, 0, -n, 0)
            = [c EXCEPT !.cash = c.cash, !.ledger = c.ledger, !.assets = c.assets,
                        !.depreciated = c.depreciated + n, !.payable = c.payable,
                        !.tax = c.tax, !.contributed = c.contributed,
                        !.retained = c.retained - n, !.unbooked = c.unbooked]
      BY <2>1 DEF Posted
    <2>3. d = Posted(c, 0, 0, n, 0, 0, 0, -n, 0)
      BY <1>1, <2>2, Zenon DEF BookRecords
    <2>4. 0 \in Int /\ -n \in Int /\ 0 + 0 - n - 0 - 0 - 0 - (-n) = 0
      BY <1>2
    <2>5. Sound(Posted(c, 0, 0, n, 0, 0, 0, -n, 0))
      BY <1>1, <1>2, <2>4, PostedIsSound, Zenon
    <2>6. QED BY <2>3, <2>5
  <1> HIDE DEF d
  <1>5. d \in BookRecords /\ d.missed \in Int /\ d.opening \in Int
    BY <1>4, Columns DEF Sound
  <1>6. Sound([d EXCEPT !.lastDepreciation = span, !.missed = d.missed,
                        !.opening = d.opening])
    BY <1>4, <1>5, AsideIsSound, Zenon
  <1>7. [d EXCEPT !.lastDepreciation = span, !.missed = d.missed, !.opening = d.opening]
          = [d EXCEPT !.lastDepreciation = span]
    BY <1>5, Zenon DEF BookRecords
  <1>8. [d EXCEPT !.lastDepreciation = span]
          = [c EXCEPT !.retained = @ - n, !.depreciated = @ + n, !.lastDepreciation = span]
    BY <1>1, Zenon DEF d, BookRecords
  <1>9. CASE b.lastDepreciation = span
    BY <1>9 DEF ChargeInsuranceAndDepreciation
  <1>10. CASE b.lastDepreciation # span
    <2>1. ChargeInsuranceAndDepreciation(b, premium, span)
            = [c EXCEPT !.retained = @ - n, !.depreciated = @ + n, !.lastDepreciation = span]
      BY <1>10 DEF ChargeInsuranceAndDepreciation, c, n
    <2>2. QED BY <1>6, <1>7, <1>8, <2>1
  <1>11. QED BY <1>9, <1>10

LEMMA PayTaxIsSound ==
  ASSUME NEW b, Sound(b), NEW span \in Int PROVE Sound(PayTax(b, span))
PROOF
  <1> DEFINE paid == Smaller2(b.tax, b.cash)
             c == Spend(b, b.tax, "tax")
             d == [c EXCEPT !.tax = 0]
  <1>1. b \in BookRecords /\ b.tax \in Int /\ b.cash \in Int /\ b.payable \in Int
    BY Columns DEF Sound
  <1>2. paid \in Int
    BY <1>1 DEF Smaller2
  <1>3. AccountClass("tax") = "tax"
    BY Classes
  <1>4. c = [b EXCEPT !.cash = b.cash - paid, !.ledger = b.ledger - paid,
                      !.retained = b.retained - 0, !.assets = b.assets + 0,
                      !.payable = b.payable + (b.tax - paid)]
    BY <1>3 DEF Spend
  <1> HIDE DEF c, paid
  <1>5. /\ b.assets + 0 = b.assets /\ b.depreciated + 0 = b.depreciated
        /\ b.retained + 0 = b.retained /\ b.retained - 0 = b.retained
        /\ b.contributed + 0 = b.contributed /\ b.unbooked + 0 = b.unbooked
        /\ b.cash + (-paid) = b.cash - paid /\ b.ledger + (-paid) = b.ledger - paid
        /\ b.tax + (-b.tax) = 0
    BY <1>1, <1>2, Columns
  <1>6. c = [b EXCEPT !.cash = b.cash - paid, !.ledger = b.ledger - paid,
                      !.retained = b.retained, !.assets = b.assets,
                      !.payable = b.payable + (b.tax - paid)]
    BY <1>4, <1>5
  <1>7. Posted(b, -paid, 0, 0, b.tax - paid, -b.tax, 0, 0, 0)
          = [b EXCEPT !.cash = b.cash - paid, !.ledger = b.ledger - paid,
                      !.assets = b.assets, !.depreciated = b.depreciated,
                      !.payable = b.payable + (b.tax - paid), !.tax = 0,
                      !.contributed = b.contributed, !.retained = b.retained,
                      !.unbooked = b.unbooked]
    BY <1>5 DEF Posted
  <1>8. d = Posted(b, -paid, 0, 0, b.tax - paid, -b.tax, 0, 0, 0)
    BY <1>1, <1>6, <1>7, Zenon DEF BookRecords
  <1>9. /\ 0 \in Int /\ -paid \in Int /\ b.tax - paid \in Int /\ -b.tax \in Int
        /\ -paid + 0 - 0 - (b.tax - paid) - (-b.tax) - 0 - 0 = 0
    BY <1>1, <1>2
  <1>10. Sound(Posted(b, -paid, 0, 0, b.tax - paid, -b.tax, 0, 0, 0))
    BY <1>9, PostedIsSound, Zenon
  <1>11. Sound(d)
    BY <1>8, <1>10
  <1>12. PayTax(b, span) \in {b, d}
    BY DEF PayTax, c
  <1>13. QED BY <1>11, <1>12

LEMMA AccrueTaxIsSound ==
  ASSUME NEW b, Sound(b), NEW span \in Int, NEW n \in Int
  PROVE  Sound(AccrueTax(b, span, n))
PROOF
  <1> DEFINE d == [b EXCEPT !.tax = @ + n, !.retained = @ - n]
  <1>1. b \in BookRecords
    BY DEF Sound
  <1>2. /\ b.assets + 0 = b.assets /\ b.depreciated + 0 = b.depreciated
        /\ b.retained + (-n) = b.retained - n /\ b.payable + 0 = b.payable
        /\ b.contributed + 0 = b.contributed /\ b.unbooked + 0 = b.unbooked
        /\ b.cash + 0 = b.cash /\ b.ledger + 0 = b.ledger
    BY <1>1, Columns
  <1>3. Posted(b, 0, 0, 0, 0, n, 0, -n, 0)
          = [b EXCEPT !.cash = b.cash, !.ledger = b.ledger,
                      !.assets = b.assets, !.depreciated = b.depreciated,
                      !.payable = b.payable, !.tax = b.tax + n,
                      !.contributed = b.contributed, !.retained = b.retained - n,
                      !.unbooked = b.unbooked]
    BY <1>2 DEF Posted
  <1>4. d = Posted(b, 0, 0, 0, 0, n, 0, -n, 0)
    BY <1>1, <1>3, Zenon DEF BookRecords
  <1>5. 0 \in Int /\ -n \in Int /\ 0 + 0 - 0 - 0 - n - 0 - (-n) = 0
    OBVIOUS
  <1>6. Sound(Posted(b, 0, 0, 0, 0, n, 0, -n, 0))
    BY <1>5, PostedIsSound, Zenon
  <1>7. Sound(d)
    BY <1>4, <1>6
  <1>8. AccrueTax(b, span, n) \in {b, d}
    BY DEF AccrueTax
  <1>9. QED BY <1>7, <1>8

-----------------------------------------------------------------------------
(* What is owed and owing, and the loans.                                  *)

\* The columns that no list and no loan is booked in.
Kept(b, c) ==
  /\ c.assets = b.assets /\ c.depreciated = b.depreciated /\ c.payable = b.payable
  /\ c.tax = b.tax /\ c.contributed = b.contributed
  /\ c.openingCash = b.openingCash /\ c.openingLedger = b.openingLedger

\* Money moved between the cash, the lists and the loans.
LEMMA MovedIsSound ==
  ASSUME NEW b, Sound(b), NEW c \in BookRecords, Kept(b, c),
         NEW cash \in Int, NEW retained \in Int, NEW unbooked \in Int,
         c.cash = b.cash + cash, c.ledger = b.ledger + cash,
         c.retained = b.retained + retained, c.unbooked = b.unbooked + unbooked,
         c.receivable - (c.owing.due + c.owing.later)
           = b.receivable - (b.owing.due + b.owing.later),
         cash + (c.receivable - b.receivable)
              - (c.suppliers.due + c.suppliers.later - b.suppliers.due - b.suppliers.later)
              - (Debt(c) - Debt(b)) - retained = unbooked
  PROVE  Sound(c)
PROOF
  <1>1. b \in BookRecords
    BY DEF Sound
  <1>2. /\ b.cash \in Int /\ b.ledger \in Int /\ b.receivable \in Int /\ b.assets \in Int
        /\ b.depreciated \in Int /\ b.payable \in Int /\ b.suppliers.due \in Int
        /\ b.suppliers.later \in Int /\ b.tax \in Int /\ b.first.principal \in Int
        /\ b.second.principal \in Int /\ b.contributed \in Int /\ b.retained \in Int
        /\ c.receivable \in Int /\ c.suppliers.due \in Int /\ c.suppliers.later \in Int
        /\ c.first.principal \in Int /\ c.second.principal \in Int
    BY <1>1, Columns
  <1>3. c.cash - c.ledger = b.cash - b.ledger
    BY <1>2
  <1>4. Debt(b) \in Int /\ Debt(c) \in Int
    BY <1>2 DEF Debt
  <1>5. Net(c) = Net(b) + (cash + (c.receivable - b.receivable)
              - (c.suppliers.due + c.suppliers.later - b.suppliers.due - b.suppliers.later)
              - (Debt(c) - Debt(b)) - retained)
    BY <1>2, <1>4, SMTT(30) DEF Net, Kept
  <1>6. Net(c) = Net(b) + unbooked
    BY <1>5
  <1>7. c.openingCash = b.openingCash /\ c.openingLedger = b.openingLedger
    BY DEF Kept
  <1>8. QED BY <1>3, <1>6, <1>7, StaysSound

LEMMA RecogniseIsSound ==
  ASSUME NEW b, Sound(b), NEW n \in Int PROVE Sound(RecogniseRevenueOnTerms(b, n))
PROOF
  <1> DEFINE o == [b.owing EXCEPT !.later = @ + n]
             c == [b EXCEPT !.receivable = b.receivable + n, !.owing = o,
                            !.retained = b.retained + n]
  <1>1. b \in BookRecords /\ b.owing \in Totals /\ b.owing.later \in Int
        /\ b.owing.due \in Int /\ b.receivable \in Int /\ b.retained \in Int
        /\ b.cash \in Int /\ b.ledger \in Int /\ b.unbooked \in Int
        /\ b.suppliers.due \in Int /\ b.suppliers.later \in Int
        /\ b.first.principal \in Int /\ b.second.principal \in Int
    BY Columns DEF Sound
  <1>2. o \in Totals /\ o.due = b.owing.due /\ o.later = b.owing.later + n
    BY <1>1 DEF Totals
  <1>3. RecogniseRevenueOnTerms(b, n) = c
    BY <1>1 DEF RecogniseRevenueOnTerms, BookRecords
  <1> HIDE DEF o
  <1>4. b.receivable + n \in Int /\ b.retained + n \in Int
    BY <1>1
  <1>5. c \in BookRecords
    BY <1>1, <1>2, <1>4, Zenon DEF BookRecords
  <1>6. /\ Kept(b, c) /\ c.cash = b.cash /\ c.ledger = b.ledger
        /\ c.retained = b.retained + n /\ c.unbooked = b.unbooked
        /\ c.receivable = b.receivable + n /\ c.owing = o /\ c.suppliers = b.suppliers
        /\ c.first = b.first /\ c.second = b.second
    BY <1>1 DEF Kept, BookRecords
  <1> HIDE DEF c
  <1>7. Debt(c) = Debt(b) /\ Debt(b) \in Int
    BY <1>1, <1>6 DEF Debt
  <1>8. /\ c.cash = b.cash + 0 /\ c.ledger = b.ledger + 0 /\ c.unbooked = b.unbooked + 0
        /\ c.receivable - (c.owing.due + c.owing.later)
             = b.receivable - (b.owing.due + b.owing.later)
        /\ 0 + (c.receivable - b.receivable)
             - (c.suppliers.due + c.suppliers.later - b.suppliers.due - b.suppliers.later)
             - (Debt(c) - Debt(b)) - n = 0
    BY <1>1, <1>2, <1>6, <1>7
  <1>9. Sound(c)
    BY <1>5, <1>6, <1>8, MovedIsSound, 0 \in Int
  <1>10. QED BY <1>3, <1>9

\* All the numbers of a book that its balance sheet is drawn from.
LEMMA Numbers ==
  ASSUME NEW b, Sound(b)
  PROVE  /\ b \in BookRecords /\ b.owing \in Totals /\ b.suppliers \in Totals
         /\ b.first \in LoanBooks /\ b.second \in LoanBooks
         /\ b.cash \in Int /\ b.ledger \in Int /\ b.receivable \in Int /\ b.owing.due \in Int
         /\ b.owing.later \in Int /\ b.payable \in Int /\ b.suppliers.due \in Int
         /\ b.suppliers.later \in Int /\ b.contributed \in Int /\ b.retained \in Int
         /\ b.unbooked \in Int /\ b.first.principal \in Int /\ b.second.principal \in Int
         /\ Debt(b) \in Int
  BY Columns DEF Sound, Debt

LEMMA SettleReceivablesIsSound ==
  ASSUME NEW b, Sound(b) PROVE Sound(SettleReceivablesDue(b))
PROOF
  <1> DEFINE n == b.owing.due
             o == [b.owing EXCEPT !.due = 0]
             c == [b EXCEPT !.cash = b.cash + n, !.ledger = b.ledger + n,
                            !.receivable = b.receivable - n, !.owing = o]
  <1>1. b \in BookRecords /\ b.owing \in Totals /\ n \in Int /\ b.owing.later \in Int
        /\ b.cash \in Int /\ b.ledger \in Int /\ b.receivable \in Int /\ b.retained \in Int
        /\ b.contributed \in Int /\ b.payable \in Int /\ b.unbooked \in Int
        /\ b.suppliers.due \in Int /\ b.suppliers.later \in Int /\ Debt(b) \in Int
    BY Numbers
  <1>2. o \in Totals /\ o.due = 0 /\ o.later = b.owing.later
    BY <1>1 DEF Totals
  <1>3. Earn(b, n, "receivableCollection")
          = [b EXCEPT !.cash = b.cash + n, !.ledger = b.ledger + n]
    <2>1. AccountClass("receivableCollection") = "settlement"
      BY Classes
    <2>2. b.retained + 0 = b.retained /\ b.contributed + 0 = b.contributed
          /\ b.payable + 0 = b.payable
      BY <1>1
    <2>3. Earn(b, n, "receivableCollection")
            = [b EXCEPT !.cash = b.cash + n, !.ledger = b.ledger + n,
                        !.retained = b.retained, !.contributed = b.contributed,
                        !.payable = b.payable]
      BY <2>1, <2>2 DEF Earn
    <2>4. QED BY <1>1, <2>3, Zenon DEF BookRecords
  <1>4. SettleReceivablesDue(b) = c
    <2> DEFINE e == [b EXCEPT !.cash = b.cash + n, !.ledger = b.ledger + n]
    <2>1. e.receivable = b.receivable /\ e.owing = b.owing
      BY <1>1 DEF BookRecords
    <2>2. SettleReceivablesDue(b) = [e EXCEPT !.receivable = b.receivable - n, !.owing = o]
      <3>1. SettleReceivablesDue(b) = [e EXCEPT !.receivable = @ - n, !.owing.due = 0]
        BY <1>3 DEF SettleReceivablesDue
      <3> HIDE DEF e
      <3>2. QED BY <2>1, <3>1
    <2>3. QED BY <1>1, <2>2, Zenon DEF BookRecords
  <1> HIDE DEF o, n
  <1>5. b.cash + n \in Int /\ b.ledger + n \in Int /\ b.receivable - n \in Int
    BY <1>1
  <1>6. c \in BookRecords
    BY <1>1, <1>2, <1>5, Zenon DEF BookRecords
  <1>7. /\ Kept(b, c) /\ c.cash = b.cash + n /\ c.ledger = b.ledger + n
        /\ c.retained = b.retained /\ c.unbooked = b.unbooked
        /\ c.receivable = b.receivable - n /\ c.owing = o /\ c.suppliers = b.suppliers
        /\ c.first = b.first /\ c.second = b.second
    BY <1>1 DEF Kept, BookRecords
  <1> HIDE DEF c
  <1>8. Debt(c) = Debt(b)
    BY <1>7 DEF Debt
  <1>9. /\ c.retained = b.retained + 0 /\ c.unbooked = b.unbooked + 0
        /\ c.receivable - (c.owing.due + c.owing.later)
             = b.receivable - (b.owing.due + b.owing.later)
        /\ n + (c.receivable - b.receivable)
             - (c.suppliers.due + c.suppliers.later - b.suppliers.due - b.suppliers.later)
             - (Debt(c) - Debt(b)) - 0 = 0
    BY <1>1, <1>2, <1>7, <1>8 DEF n
  <1>10. Sound(c)
    BY <1>1, <1>6, <1>7, <1>9, MovedIsSound, 0 \in Int
  <1>11. QED BY <1>4, <1>10

LEMMA SettleSuppliersIsSound ==
  ASSUME NEW b, Sound(b) PROVE Sound(SettleSupplierInvoicesDue(b))
PROOF
  <1> DEFINE n == Larger2(0, Smaller2(b.suppliers.due, b.cash))
             s == [b.suppliers EXCEPT !.due = @ - n]
             c == [b EXCEPT !.suppliers = s, !.cash = b.cash - n, !.ledger = b.ledger - n]
  <1>1. b \in BookRecords /\ b.suppliers \in Totals /\ b.owing.later \in Int
        /\ b.owing.due \in Int
        /\ b.cash \in Int /\ b.ledger \in Int /\ b.receivable \in Int /\ b.retained \in Int
        /\ b.unbooked \in Int
        /\ b.suppliers.due \in Int /\ b.suppliers.later \in Int /\ Debt(b) \in Int
    BY Numbers
  <1>2. n \in Int
    BY <1>1 DEF Larger2, Smaller2
  <1>3. SettleSupplierInvoicesDue(b) = c
    BY <1>1 DEF SettleSupplierInvoicesDue, BookRecords
  <1> HIDE DEF n
  <1>4. s \in Totals /\ s.due = b.suppliers.due - n /\ s.later = b.suppliers.later
    BY <1>1, <1>2 DEF Totals
  <1> HIDE DEF s
  <1>5. b.cash - n \in Int /\ b.ledger - n \in Int
    BY <1>1, <1>2
  <1>6. c \in BookRecords
    BY <1>1, <1>4, <1>5, Zenon DEF BookRecords
  <1>7. /\ Kept(b, c) /\ c.cash = b.cash - n /\ c.ledger = b.ledger - n
        /\ c.retained = b.retained /\ c.unbooked = b.unbooked
        /\ c.receivable = b.receivable /\ c.owing = b.owing /\ c.suppliers = s
        /\ c.first = b.first /\ c.second = b.second
    BY <1>1 DEF Kept, BookRecords
  <1> HIDE DEF c
  <1>8. Debt(c) = Debt(b)
    BY <1>7 DEF Debt
  <1>9. /\ c.cash = b.cash + (-n) /\ c.ledger = b.ledger + (-n) /\ -n \in Int
        /\ c.retained = b.retained + 0 /\ c.unbooked = b.unbooked + 0
        /\ c.receivable - (c.owing.due + c.owing.later)
             = b.receivable - (b.owing.due + b.owing.later)
        /\ (-n) + (c.receivable - b.receivable)
             - (c.suppliers.due + c.suppliers.later - b.suppliers.due - b.suppliers.later)
             - (Debt(c) - Debt(b)) - 0 = 0
    BY <1>1, <1>2, <1>4, <1>7, <1>8
  <1>10. Sound(c)
    BY <1>6, <1>7, <1>9, MovedIsSound, 0 \in Int
  <1>11. QED BY <1>3, <1>10

LEMMA BuyingIsSound ==
  ASSUME NEW b, Sound(b), NEW n \in Int
  PROVE  Sound([b EXCEPT !.retained = @ - n, !.suppliers.later = @ + n])
PROOF
  <1> DEFINE s == [b.suppliers EXCEPT !.later = @ + n]
             c == [b EXCEPT !.retained = b.retained - n, !.suppliers = s]
  <1>1. b \in BookRecords /\ b.suppliers \in Totals /\ b.owing.later \in Int
        /\ b.owing.due \in Int
        /\ b.cash \in Int /\ b.ledger \in Int /\ b.receivable \in Int /\ b.retained \in Int
        /\ b.unbooked \in Int
        /\ b.suppliers.due \in Int /\ b.suppliers.later \in Int /\ Debt(b) \in Int
    BY Numbers
  <1>2. [b EXCEPT !.retained = @ - n, !.suppliers.later = @ + n] = c
    BY <1>1 DEF BookRecords
  <1>3. s \in Totals /\ s.due = b.suppliers.due /\ s.later = b.suppliers.later + n
    BY <1>1 DEF Totals
  <1> HIDE DEF s
  <1>4. b.retained - n \in Int
    BY <1>1
  <1>5. c \in BookRecords
    BY <1>1, <1>3, <1>4, Zenon DEF BookRecords
  <1>6. /\ Kept(b, c) /\ c.cash = b.cash /\ c.ledger = b.ledger
        /\ c.retained = b.retained - n /\ c.unbooked = b.unbooked
        /\ c.receivable = b.receivable /\ c.owing = b.owing /\ c.suppliers = s
        /\ c.first = b.first /\ c.second = b.second
    BY <1>1 DEF Kept, BookRecords
  <1> HIDE DEF c
  <1>7. Debt(c) = Debt(b)
    BY <1>6 DEF Debt
  <1>8. /\ c.cash = b.cash + 0 /\ c.ledger = b.ledger + 0 /\ -n \in Int
        /\ c.retained = b.retained + (-n) /\ c.unbooked = b.unbooked + 0
        /\ c.receivable - (c.owing.due + c.owing.later)
             = b.receivable - (b.owing.due + b.owing.later)
        /\ 0 + (c.receivable - b.receivable)
             - (c.suppliers.due + c.suppliers.later - b.suppliers.due - b.suppliers.later)
             - (Debt(c) - Debt(b)) - (-n) = 0
    BY <1>1, <1>3, <1>6, <1>7
  <1>9. Sound(c)
    BY <1>5, <1>6, <1>8, MovedIsSound, 0 \in Int
  <1>10. QED BY <1>2, <1>9

LEMMA FallDueIsSound == ASSUME NEW b, Sound(b) PROVE Sound(FallDue(b))
PROOF
  <1> DEFINE o == [due |-> b.owing.due + b.owing.later, later |-> 0]
             s == [due |-> b.suppliers.due + b.suppliers.later, later |-> 0]
             c == [b EXCEPT !.owing = o, !.suppliers = s]
  <1>1. b \in BookRecords /\ b.owing.later \in Int /\ b.owing.due \in Int
        /\ b.cash \in Int /\ b.ledger \in Int /\ b.receivable \in Int /\ b.retained \in Int
        /\ b.unbooked \in Int
        /\ b.suppliers.due \in Int /\ b.suppliers.later \in Int /\ Debt(b) \in Int
    BY Numbers
  <1>2. FallDue(b) = c
    BY DEF FallDue
  <1>3. o \in Totals /\ o.due = b.owing.due + b.owing.later /\ o.later = 0
        /\ s \in Totals /\ s.due = b.suppliers.due + b.suppliers.later /\ s.later = 0
    BY <1>1 DEF Totals
  <1> HIDE DEF o, s
  <1>4. c \in BookRecords
    BY <1>1, <1>3, Zenon DEF BookRecords
  <1>5. /\ Kept(b, c) /\ c.cash = b.cash /\ c.ledger = b.ledger
        /\ c.retained = b.retained /\ c.unbooked = b.unbooked
        /\ c.receivable = b.receivable /\ c.owing = o /\ c.suppliers = s
        /\ c.first = b.first /\ c.second = b.second
    BY <1>1 DEF Kept, BookRecords
  <1> HIDE DEF c
  <1>6. Debt(c) = Debt(b)
    BY <1>5 DEF Debt
  <1>7. /\ c.cash = b.cash + 0 /\ c.ledger = b.ledger + 0
        /\ c.retained = b.retained + 0 /\ c.unbooked = b.unbooked + 0
        /\ c.receivable - (c.owing.due + c.owing.later)
             = b.receivable - (b.owing.due + b.owing.later)
        /\ 0 + (c.receivable - b.receivable)
             - (c.suppliers.due + c.suppliers.later - b.suppliers.due - b.suppliers.later)
             - (Debt(c) - Debt(b)) - 0 = 0
    BY <1>1, <1>3, <1>5, <1>6
  <1>8. Sound(c)
    BY <1>4, <1>5, <1>7, MovedIsSound, 0 \in Int
  <1>9. QED BY <1>2, <1>8

LEMMA StartMonthIsSound == ASSUME NEW b, Sound(b) PROVE Sound(StartMonth(b))
PROOF
  <1> DEFINE c == StartMonth(b)
  <1>1. b \in BookRecords /\ b.cash \in Int /\ b.ledger \in Int
    BY Numbers
  <1>2. c \in BookRecords
    BY <1>1, Zenon DEF BookRecords, StartMonth
  <1>3. /\ c.cash = b.cash /\ c.ledger = b.ledger /\ c.receivable = b.receivable
        /\ c.owing = b.owing /\ c.assets = b.assets /\ c.depreciated = b.depreciated
        /\ c.payable = b.payable /\ c.suppliers = b.suppliers /\ c.tax = b.tax
        /\ c.first = b.first /\ c.second = b.second /\ c.contributed = b.contributed
        /\ c.retained = b.retained /\ c.openingCash = b.cash
        /\ c.openingLedger = b.ledger /\ c.unbooked = b.unbooked
    BY <1>1 DEF BookRecords, StartMonth
  <1> HIDE DEF c
  <1>4. Net(c) = Net(b)
    BY <1>3 DEF Net, Debt
  <1>5. Sound(c)
    BY <1>2, <1>3, <1>4 DEF Sound
  <1>6. QED BY <1>5 DEF c

LEMMA SpacesAreSound ==
  ASSUME NEW b, Sound(b), NEW n \in Int PROVE Sound(RunCommercialSpaceMonth(b, n))
PROOF
  <1>1. -n \in Int
    OBVIOUS
  <1>2. Sound(Earn(b, n, "commercialSpaces"))
    BY EarnIsSound
  <1>3. Sound(Spend(b, -n, "commercialSpaces"))
    BY <1>1, SpendIsSound
  <1>4. QED BY <1>2, <1>3 DEF RunCommercialSpaceMonth

\* The loans may be any, as long as the debt moves as the cash does.
LEMMA LoansAreSound ==
  ASSUME NEW b, Sound(b), NEW n \in Int, NEW f \in LoanBooks, NEW s \in LoanBooks,
         f.principal + s.principal = Debt(b) + n
  PROVE  Sound([b EXCEPT !.cash = b.cash + n, !.ledger = b.ledger + n,
                         !.first = f, !.second = s])
PROOF
  <1> DEFINE c == [b EXCEPT !.cash = b.cash + n, !.ledger = b.ledger + n,
                            !.first = f, !.second = s]
  <1>1. b \in BookRecords /\ b.owing.later \in Int /\ b.owing.due \in Int
        /\ b.cash \in Int /\ b.ledger \in Int /\ b.receivable \in Int /\ b.retained \in Int
        /\ b.unbooked \in Int
        /\ b.suppliers.due \in Int /\ b.suppliers.later \in Int /\ Debt(b) \in Int
    BY Numbers
  <1>2. b.cash + n \in Int /\ b.ledger + n \in Int
    BY <1>1
  <1>3. c \in BookRecords
    BY <1>1, <1>2, Zenon DEF BookRecords
  <1>4. /\ Kept(b, c) /\ c.cash = b.cash + n /\ c.ledger = b.ledger + n
        /\ c.retained = b.retained /\ c.unbooked = b.unbooked
        /\ c.receivable = b.receivable /\ c.owing = b.owing /\ c.suppliers = b.suppliers
        /\ c.first = f /\ c.second = s
    BY <1>1 DEF Kept, BookRecords
  <1> HIDE DEF c
  <1>5. Debt(c) = Debt(b) + n
    BY <1>4 DEF Debt
  <1>6. /\ c.retained = b.retained + 0 /\ c.unbooked = b.unbooked + 0
        /\ c.receivable - (c.owing.due + c.owing.later)
             = b.receivable - (b.owing.due + b.owing.later)
        /\ n + (c.receivable - b.receivable)
             - (c.suppliers.due + c.suppliers.later - b.suppliers.due - b.suppliers.later)
             - (Debt(c) - Debt(b)) - 0 = 0
    BY <1>1, <1>4, <1>5
  <1>7. Sound(c)
    BY <1>3, <1>4, <1>6, MovedIsSound, 0 \in Int
  <1>8. QED BY <1>7 DEF c

\* The same, where no money moves.
LEMMA ListOfLoansIsSound ==
  ASSUME NEW b, Sound(b), NEW f \in LoanBooks, NEW s \in LoanBooks,
         f.principal + s.principal = Debt(b)
  PROVE  Sound([b EXCEPT !.first = f, !.second = s])
PROOF
  <1>1. b \in BookRecords /\ b.cash \in Int /\ b.ledger \in Int /\ Debt(b) \in Int
    BY Numbers
  <1>2. /\ 0 \in Int /\ f.principal + s.principal = Debt(b) + 0
        /\ b.cash + 0 = b.cash /\ b.ledger + 0 = b.ledger
    BY <1>1
  <1>3. Sound([b EXCEPT !.cash = b.cash + 0, !.ledger = b.ledger + 0,
                        !.first = f, !.second = s])
    BY <1>2, LoansAreSound, Zenon
  <1>4. Sound([b EXCEPT !.cash = b.cash, !.ledger = b.ledger, !.first = f, !.second = s])
    BY <1>2, <1>3
  <1>5. [b EXCEPT !.cash = b.cash, !.ledger = b.ledger, !.first = f, !.second = s]
          = [b EXCEPT !.first = f, !.second = s]
    BY <1>1, Zenon DEF BookRecords
  <1>6. QED BY <1>4, <1>5

LEMMA NoLoanIsALoan == NoLoan \in LoanBooks /\ NoLoan.principal = 0
  BY DEF NoLoan, LoanBooks

LEMMA DropRepaidIsSound == ASSUME NEW b, Sound(b) PROVE Sound(DropRepaid(b))
PROOF
  <1>1. b.second \in LoanBooks /\ b.first.principal \in Int /\ b.second.principal \in Int
    BY Numbers
  <1>2. CASE b.first.principal = 0
    <2>1. b.second.principal + NoLoan.principal = Debt(b)
      BY <1>1, <1>2, NoLoanIsALoan DEF Debt
    <2>2. Sound([b EXCEPT !.first = b.second, !.second = NoLoan])
      BY <1>1, <2>1, NoLoanIsALoan, ListOfLoansIsSound
    <2>3. QED BY <1>2, <2>2 DEF DropRepaid
  <1>3. CASE b.first.principal # 0
    BY <1>3 DEF DropRepaid
  <1>4. QED BY <1>2, <1>3

LEMMA RepricedIsALoan ==
  ASSUME NEW loan \in LoanBooks, NEW atMonth \in Int
  PROVE  Repriced(loan, atMonth) \in LoanBooks
         /\ Repriced(loan, atMonth).principal = loan.principal
PROOF
  <1>1. MonthsLeft(loan, atMonth) \in Int
    BY DEF MonthsLeft, Larger2, LoanBooks
  <1>2. QED BY <1>1 DEF Repriced, LoanBooks

LEMMA RepricingIsSound ==
  ASSUME NEW b, Sound(b), NEW atMonth \in Int PROVE Sound(RepriceLoans(b, atMonth))
PROOF
  <1> DEFINE f == Repriced(b.first, atMonth)
             s == Repriced(b.second, atMonth)
  <1>1. b.first \in LoanBooks /\ b.second \in LoanBooks
    BY Numbers
  <1>2. f \in LoanBooks /\ s \in LoanBooks /\ f.principal + s.principal = Debt(b)
    BY <1>1, RepricedIsALoan DEF Debt
  <1>3. RepriceLoans(b, atMonth) = [b EXCEPT !.first = f, !.second = s]
    BY DEF RepriceLoans
  <1> HIDE DEF f, s
  <1>4. Sound([b EXCEPT !.first = f, !.second = s])
    BY <1>2, ListOfLoansIsSound, Zenon
  <1>5. QED BY <1>3, <1>4

\* What goes to the lender leaves the cash and nothing else.
LEMMA LenderIsPaid ==
  ASSUME NEW b \in BookRecords, NEW n \in Int, n <= b.cash, NEW a \in {"loan", "loanPrincipal"}
  PROVE  Spend(b, n, a) = [b EXCEPT !.cash = b.cash - n, !.ledger = b.ledger - n]
PROOF
  <1>1. AccountClass(a) = "borrowing" /\ b.cash \in Int
    BY Classes, Columns
  <1>2. Smaller2(n, b.cash) = n
    BY <1>1 DEF Smaller2
  <1>3. b.retained - 0 = b.retained /\ b.assets + 0 = b.assets
        /\ b.payable + (n - n) = b.payable
    BY Columns
  <1>4. Spend(b, n, a) = [b EXCEPT !.cash = b.cash - n, !.ledger = b.ledger - n,
                                   !.retained = b.retained, !.assets = b.assets,
                                   !.payable = b.payable]
    <2>1. Spend(b, n, a) = [b EXCEPT !.cash = b.cash - n, !.ledger = b.ledger - n,
                                     !.retained = b.retained - 0, !.assets = b.assets + 0,
                                     !.payable = b.payable + (n - n)]
      BY <1>1, <1>2 DEF Spend
    <2>2. QED BY <1>3, <2>1
  <1>5. QED BY <1>4, Zenon DEF BookRecords

\* What comes from the lender, or for a hotel, reaches the cash and nothing else.
LEMMA LenderPays ==
  ASSUME NEW b \in BookRecords, NEW n \in Int, NEW a \in {"loan", "disposal"}
  PROVE  Earn(b, n, a) = [b EXCEPT !.cash = b.cash + n, !.ledger = b.ledger + n]
PROOF
  <1>1. AccountClass(a) \in {"borrowing", "investing"}
    BY Classes
  <1>2. b.retained + 0 = b.retained /\ b.contributed + 0 = b.contributed
        /\ b.payable + 0 = b.payable
    BY Columns
  <1>3. Earn(b, n, a) = [b EXCEPT !.cash = b.cash + n, !.ledger = b.ledger + n,
                                  !.retained = b.retained, !.contributed = b.contributed,
                                  !.payable = b.payable]
    BY <1>1, <1>2 DEF Earn
  <1>4. QED BY <1>3, Zenon DEF BookRecords

LEMMA InstalmentIsSound ==
  ASSUME NEW b, Sound(b), NEW which, NEW i \in Int, NEW p \in Int
  PROVE  Sound(PayInstalment(b, which, i, p))
PROOF
  <1> DEFINE counted == IF b.cash >= i + p THEN b ELSE [b EXCEPT !.missed = @ + 1]
             c == Spend(counted, i, "interest")
             paid == Smaller2(p, c.cash)
             f == [c.first EXCEPT !.principal = @ - paid]
             s == [c.second EXCEPT !.principal = @ - paid]
             settled == Spend(c, paid, "loanPrincipal")
  <1>1. Sound(counted)
    <2>1. b \in BookRecords /\ b.lastDepreciation \in Int /\ b.missed + 1 \in Int
          /\ b.opening \in Int
      BY Columns DEF Sound
    <2>2. Sound([b EXCEPT !.lastDepreciation = b.lastDepreciation, !.missed = b.missed + 1,
                          !.opening = b.opening])
      BY <2>1, AsideIsSound, Zenon
    <2>3. [b EXCEPT !.lastDepreciation = b.lastDepreciation, !.missed = b.missed + 1,
                    !.opening = b.opening] = [b EXCEPT !.missed = @ + 1]
      BY <2>1, Zenon DEF BookRecords
    <2>4. QED BY <2>2, <2>3
  <1> HIDE DEF counted
  <1>2. Sound(c)
    BY <1>1, SpendIsSound
  <1> HIDE DEF c
  <1>3. /\ c \in BookRecords /\ c.cash \in Int /\ c.ledger \in Int
        /\ c.first \in LoanBooks /\ c.second \in LoanBooks
        /\ c.first.principal \in Int /\ c.second.principal \in Int
    BY <1>2, Numbers
  <1>4. paid \in Int /\ paid <= c.cash
    BY <1>3 DEF Smaller2
  <1> HIDE DEF paid
  <1>5. settled = [c EXCEPT !.cash = c.cash - paid, !.ledger = c.ledger - paid]
    BY <1>3, <1>4, LenderIsPaid
  <1>6. /\ f \in LoanBooks /\ s \in LoanBooks /\ -paid \in Int
        /\ f.principal + c.second.principal = Debt(c) + (-paid)
        /\ c.first.principal + s.principal = Debt(c) + (-paid)
        /\ c.cash + (-paid) = c.cash - paid /\ c.ledger + (-paid) = c.ledger - paid
    BY <1>3, <1>4 DEF LoanBooks, Debt
  <1>7. Sound([c EXCEPT !.cash = c.cash - paid, !.ledger = c.ledger - paid,
                        !.first = f, !.second = c.second])
    <2>1. Sound([c EXCEPT !.cash = c.cash + (-paid), !.ledger = c.ledger + (-paid),
                          !.first = f, !.second = c.second])
      BY <1>2, <1>3, <1>6, LoansAreSound, Zenon
    <2>2. QED BY <1>6, <2>1
  <1>8. Sound([c EXCEPT !.cash = c.cash - paid, !.ledger = c.ledger - paid,
                        !.first = c.first, !.second = s])
    <2>1. Sound([c EXCEPT !.cash = c.cash + (-paid), !.ledger = c.ledger + (-paid),
                          !.first = c.first, !.second = s])
      BY <1>2, <1>3, <1>6, LoansAreSound, Zenon
    <2>2. QED BY <1>6, <2>1
  <1>9. settled.first = c.first /\ settled.second = c.second
    BY <1>3, <1>5 DEF BookRecords
  <1>10. [settled EXCEPT !.first.principal = @ - paid]
           = [c EXCEPT !.cash = c.cash - paid, !.ledger = c.ledger - paid,
                       !.first = f, !.second = c.second]
    <2>1. [settled EXCEPT !.first.principal = @ - paid] = [settled EXCEPT !.first = f]
      <3> HIDE DEF settled
      <3>1. QED BY <1>9
    <2>2. [settled EXCEPT !.first = f]
            = [[c EXCEPT !.cash = c.cash - paid, !.ledger = c.ledger - paid]
                 EXCEPT !.first = f]
      BY <1>5
    <2> HIDE DEF f, settled
    <2>3. QED BY <1>3, <2>1, <2>2, Zenon DEF BookRecords
  <1>11. [settled EXCEPT !.second.principal = @ - paid]
           = [c EXCEPT !.cash = c.cash - paid, !.ledger = c.ledger - paid,
                       !.first = c.first, !.second = s]
    <2>1. [settled EXCEPT !.second.principal = @ - paid] = [settled EXCEPT !.second = s]
      <3> HIDE DEF settled
      <3>1. QED BY <1>9
    <2>2. [settled EXCEPT !.second = s]
            = [[c EXCEPT !.cash = c.cash - paid, !.ledger = c.ledger - paid]
                 EXCEPT !.second = s]
      BY <1>5
    <2> HIDE DEF s, settled
    <2>3. QED BY <1>3, <2>1, <2>2, Zenon DEF BookRecords
  <1>12. PayInstalment(b, which, i, p)
           = IF which = "first" THEN [settled EXCEPT !.first.principal = @ - paid]
                                ELSE [settled EXCEPT !.second.principal = @ - paid]
    BY DEF PayInstalment, counted, c, paid
  <1>13. QED BY <1>7, <1>8, <1>10, <1>11, <1>12

-----------------------------------------------------------------------------
(* A day of the finance phase.                                             *)

LEMMA PrincipalsAreNumbers ==
  ASSUME NEW loan \in LoanBooks, NEW atMonth \in Int, NEW p \in ScheduledPrincipal(loan, atMonth)
  PROVE  p \in Int
PROOF
  <1> DEFINE left == MonthsLeft(loan, atMonth)
  <1>1. loan.principal \in Int /\ left \in Int /\ left > 0
    BY DEF MonthsLeft, Larger2, LoanBooks
  <1> HIDE DEF left
  <1>2. loan.principal \div left \in Int
    BY <1>1
  <1>3. 0 .. loan.principal \subseteq Int
    BY <1>1
  <1>4. p \in {loan.principal} \cup {0} \cup {loan.principal \div left} \cup (0 .. loan.principal)
    BY DEF ScheduledPrincipal, left
  <1>5. QED BY <1>1, <1>2, <1>3, <1>4

LEMMA ServicedIsSound ==
  ASSUME NEW b, Sound(b), NEW atMonth \in Int, NEW c \in Serviced(b, atMonth)
  PROVE  Sound(c)
PROOF
  <1>1. Interests \subseteq Int /\ 0 \in Int
    BY BooksAssumption
  <1>2. b.first \in LoanBooks /\ b.second \in LoanBooks
    BY Numbers
  <1>3. PICK i \in (IF b.first.principal > 0 THEN Interests ELSE {0}),
             p \in ScheduledPrincipal(b.first, atMonth),
             j \in (IF b.second.principal > 0 THEN Interests ELSE {0}),
             q \in ScheduledPrincipal(b.second, atMonth) :
          c = DropRepaid(PayInstalment(PayInstalment(RepriceLoans(b, atMonth),
                                                     "first", i, p), "second", j, q))
    BY DEF Serviced
  <1>4. i \in Int /\ j \in Int
    BY <1>1, <1>3
  <1>5. p \in Int /\ q \in Int
    BY <1>2, <1>3, PrincipalsAreNumbers
  <1>6. Sound(RepriceLoans(b, atMonth))
    BY RepricingIsSound
  <1>7. Sound(PayInstalment(RepriceLoans(b, atMonth), "first", i, p))
    BY <1>4, <1>5, <1>6, InstalmentIsSound, Zenon
  <1>8. Sound(PayInstalment(PayInstalment(RepriceLoans(b, atMonth), "first", i, p),
                            "second", j, q))
    BY <1>4, <1>5, <1>7, InstalmentIsSound, Zenon
  <1>9. QED BY <1>3, <1>8, DropRepaidIsSound, Zenon

LEMMA TradedIsSound ==
  ASSUME NEW b, Sound(b), NEW cash \in Int, NEW onTerms \in Int, NEW wages \in Int
  PROVE  Sound(Traded(b, cash, onTerms, wages))
PROOF
  <1>1. Sound(FallDue(b))
    BY FallDueIsSound
  <1>2. Sound(Earn(FallDue(b), cash, "roomRevenue"))
    BY <1>1, EarnIsSound
  <1>3. Sound(RecogniseRevenueOnTerms(Earn(FallDue(b), cash, "roomRevenue"), onTerms))
    BY <1>2, RecogniseIsSound, Zenon
  <1>4. QED BY <1>3, SpendIsSound DEF Traded

LEMMA SettledIsSound ==
  ASSUME NEW b, Sound(b), NEW settlement \in Int, NEW deposit \in Int
  PROVE  Sound(Settled(b, settlement, deposit))
PROOF
  <1> DEFINE paid == SettleSupplierInvoicesDue(SettlePayables(b))
             claimed == Earn(paid, settlement, "insuranceSettlement")
  <1>1. Sound(SettlePayables(b))
    BY SettlePayablesIsSound
  <1>2. Sound(paid)
    BY <1>1, SettleSuppliersIsSound, Zenon
  <1> HIDE DEF paid
  <1>3. Sound(claimed)
    BY <1>2, EarnIsSound
  <1> HIDE DEF claimed
  <1>4. Sound(ReleaseDeposit(claimed, deposit))
    BY <1>3, ReleaseDepositIsSound, Zenon
  <1>5. Sound(SettleReceivablesDue(ReleaseDeposit(claimed, deposit)))
    BY <1>4, SettleReceivablesIsSound, Zenon
  <1>6. QED BY <1>5 DEF Settled, claimed, paid

LEMMA CloseMonthIsSound ==
  ASSUME NEW b, Sound(b), NEW span \in Int, NEW bill \in Int, NEW share \in Int,
         NEW charge \in Int, NEW invested \in Int, NEW outcome \in Int
  PROVE  Sound(CloseMonth(b, span, bill, share, charge, invested, outcome))
PROOF
  <1> DEFINE standing == Spend(b, bill, "utilities")
             spaces == RunCommercialSpaceMonth(standing, share)
             written == ChargeInsuranceAndDepreciation(spaces, bill, span)
             taxed == AccrueTax(PayTax(written, span), span, charge)
  <1>1. Sound(standing)
    BY SpendIsSound
  <1> HIDE DEF standing
  <1>2. Sound(spaces)
    BY <1>1, SpacesAreSound, Zenon
  <1> HIDE DEF spaces
  <1>3. Sound(written)
    BY <1>2, ChargeIsSound, Zenon
  <1> HIDE DEF written
  <1>4. Sound(PayTax(written, span))
    BY <1>3, PayTaxIsSound, Zenon
  <1>5. Sound(taxed)
    BY <1>4, AccrueTaxIsSound, Zenon
  <1> HIDE DEF taxed
  <1>6. Sound(ResolveOpportunity(taxed, invested, outcome))
    BY <1>5, ResolveOpportunityIsSound, Zenon
  <1>7. Sound(StartMonth(ResolveOpportunity(taxed, invested, outcome)))
    BY <1>6, StartMonthIsSound, Zenon
  <1>8. QED BY <1>7 DEF CloseMonth, taxed, written, spaces, standing

-----------------------------------------------------------------------------
(* The commands.                                                           *)

\* Money from the sale of a hotel, or a draw on no loan.
LEMMA UnbookedIsSound ==
  ASSUME NEW b, Sound(b), NEW n \in Int, NEW a \in {"loan", "disposal"}
  PROVE  Sound(Earn([b EXCEPT !.unbooked = @ + n], n, a))
PROOF
  <1> DEFINE c == [b EXCEPT !.unbooked = b.unbooked + n]
  <1>1. b \in BookRecords /\ b.unbooked + n \in Int
    BY Numbers
  <1>2. c \in BookRecords
    BY <1>1, Zenon DEF BookRecords
  <1>3. Earn(c, n, a) = [c EXCEPT !.cash = c.cash + n, !.ledger = c.ledger + n]
    BY <1>2, LenderPays, Zenon
  <1>4. c.cash = b.cash /\ c.ledger = b.ledger
    BY <1>1 DEF BookRecords
  <1>5. Earn(c, n, a) = [c EXCEPT !.cash = b.cash + n, !.ledger = b.ledger + n]
    BY <1>3, <1>4
  <1>6. /\ b.assets + 0 = b.assets /\ b.depreciated + 0 = b.depreciated
        /\ b.payable + 0 = b.payable /\ b.tax + 0 = b.tax
        /\ b.contributed + 0 = b.contributed /\ b.retained + 0 = b.retained
    BY <1>1, Columns
  <1>7. Posted(b, n, 0, 0, 0, 0, 0, 0, n)
          = [b EXCEPT !.cash = b.cash + n, !.ledger = b.ledger + n, !.assets = b.assets,
                      !.depreciated = b.depreciated, !.payable = b.payable, !.tax = b.tax,
                      !.contributed = b.contributed, !.retained = b.retained,
                      !.unbooked = b.unbooked + n]
    BY <1>6 DEF Posted
  <1>8. Earn(c, n, a) = Posted(b, n, 0, 0, 0, 0, 0, 0, n)
    BY <1>1, <1>5, <1>7, ZenonT(40) DEF BookRecords
  <1>9. 0 \in Int /\ n + 0 - 0 - 0 - 0 - 0 - 0 = n
    OBVIOUS
  <1>10. Sound(Posted(b, n, 0, 0, 0, 0, 0, 0, n))
    BY <1>9, PostedIsSound, Zenon
  <1>11. QED BY <1>8, <1>10

\* Money from a lender, added to a loan or to the list.
LEMMA DrawIsSound ==
  ASSUME NEW b, Sound(b), NEW n \in Int, NEW f \in LoanBooks, NEW s \in LoanBooks,
         f.principal + s.principal = Debt(b) + n
  PROVE  Sound(Earn([b EXCEPT !.first = f, !.second = s], n, "loan"))
PROOF
  <1> DEFINE c == [b EXCEPT !.first = f, !.second = s]
  <1>1. b \in BookRecords
    BY Numbers
  <1>2. c \in BookRecords
    BY <1>1, Zenon DEF BookRecords
  <1>3. Earn(c, n, "loan") = [c EXCEPT !.cash = c.cash + n, !.ledger = c.ledger + n]
    BY <1>2, LenderPays
  <1>4. c.cash = b.cash /\ c.ledger = b.ledger
    BY <1>1 DEF BookRecords
  <1>5. Earn(c, n, "loan") = [c EXCEPT !.cash = b.cash + n, !.ledger = b.ledger + n]
    BY <1>3, <1>4
  <1>6. [c EXCEPT !.cash = b.cash + n, !.ledger = b.ledger + n]
          = [b EXCEPT !.cash = b.cash + n, !.ledger = b.ledger + n, !.first = f, !.second = s]
    BY <1>1, Zenon DEF BookRecords
  <1>7. Sound([b EXCEPT !.cash = b.cash + n, !.ledger = b.ledger + n, !.first = f, !.second = s])
    BY LoansAreSound
  <1>8. QED BY <1>5, <1>6, <1>7

LEMMA TakingALoanIsSound ==
  ASSUME NEW b, Sound(b), NEW loan \in LoanBooks, b.second.principal = 0
  PROVE  Sound(Earn(AddLoan(b, loan), loan.principal, "loan"))
PROOF
  <1> DEFINE n == loan.principal
  <1>1. b \in BookRecords /\ b.first \in LoanBooks /\ b.second \in LoanBooks
        /\ b.first.principal \in Int /\ n \in Int
    BY Numbers DEF LoanBooks
  <1>2. CASE b.first.principal = 0
    <2>1. loan.principal + b.second.principal = Debt(b) + n
      BY <1>1, <1>2 DEF Debt
    <2>2. Sound(Earn([b EXCEPT !.first = loan, !.second = b.second], n, "loan"))
      BY <1>1, <2>1, DrawIsSound
    <2>3. [b EXCEPT !.first = loan, !.second = b.second] = AddLoan(b, loan)
      BY <1>1, <1>2 DEF AddLoan, BookRecords
    <2>4. QED BY <2>2, <2>3
  <1>3. CASE b.first.principal # 0
    <2>1. b.first.principal + loan.principal = Debt(b) + n
      BY <1>1 DEF Debt
    <2>2. Sound(Earn([b EXCEPT !.first = b.first, !.second = loan], n, "loan"))
      BY <1>1, <2>1, DrawIsSound
    <2>3. [b EXCEPT !.first = b.first, !.second = loan] = AddLoan(b, loan)
      BY <1>1, <1>3 DEF AddLoan, BookRecords
    <2>4. QED BY <2>2, <2>3
  <1>4. QED BY <1>2, <1>3

LEMMA RepayingIsSound ==
  ASSUME NEW b, Sound(b), NEW n \in Int, n <= b.cash
  PROVE  Sound(DropRepaid(Spend([b EXCEPT !.first.principal = @ - n], n, "loan")))
PROOF
  <1> DEFINE f == [b.first EXCEPT !.principal = @ - n]
             c == [b EXCEPT !.first = f]
  <1>1. b \in BookRecords /\ b.first \in LoanBooks /\ b.second \in LoanBooks
        /\ b.first.principal \in Int /\ b.second.principal \in Int
        /\ b.cash \in Int /\ b.ledger \in Int
    BY Numbers
  <1>2. f \in LoanBooks /\ f.principal + b.second.principal = Debt(b) + (-n)
        /\ -n \in Int /\ b.cash + (-n) = b.cash - n /\ b.ledger + (-n) = b.ledger - n
    BY <1>1 DEF LoanBooks, Debt
  <1>3. [b EXCEPT !.first.principal = @ - n] = c
    BY <1>1 DEF BookRecords
  <1> HIDE DEF f
  <1>4. c \in BookRecords
    BY <1>1, <1>2, Zenon DEF BookRecords
  <1>5. c.cash = b.cash /\ c.ledger = b.ledger
    BY <1>1 DEF BookRecords
  <1>6. Spend(c, n, "loan") = [c EXCEPT !.cash = b.cash - n, !.ledger = b.ledger - n]
    BY <1>4, <1>5, LenderIsPaid
  <1>7. [c EXCEPT !.cash = b.cash - n, !.ledger = b.ledger - n]
          = [b EXCEPT !.cash = b.cash - n, !.ledger = b.ledger - n,
                      !.first = f, !.second = b.second]
    BY <1>1, Zenon DEF BookRecords
  <1>8. Sound([b EXCEPT !.cash = b.cash - n, !.ledger = b.ledger - n,
                        !.first = f, !.second = b.second])
    <2>1. Sound([b EXCEPT !.cash = b.cash + (-n), !.ledger = b.ledger + (-n),
                          !.first = f, !.second = b.second])
      BY <1>1, <1>2, LoansAreSound, Zenon
    <2>2. QED BY <1>2, <2>1
  <1>9. Sound(Spend(c, n, "loan"))
    BY <1>6, <1>7, <1>8
  <1> HIDE DEF c
  <1>10. Sound(DropRepaid(Spend(c, n, "loan")))
    BY <1>9, DropRepaidIsSound, Zenon
  <1>11. QED BY <1>3, <1>10

LEMMA DifficultyIsSound ==
  ASSUME NEW b, Sound(b), NEW opening \in Int, NEW n \in Int
  PROVE  Sound([b EXCEPT !.opening = opening, !.cash = @ + n,
                         !.contributed = @ + n, !.ledger = @ + n])
PROOF
  <1> DEFINE c == Posted(b, n, 0, 0, 0, 0, n, 0, 0)
             d == [b EXCEPT !.opening = opening, !.cash = b.cash + n,
                            !.contributed = b.contributed + n, !.ledger = b.ledger + n]
  <1>1. b \in BookRecords
    BY Numbers
  <1>2. 0 \in Int /\ n + 0 - 0 - 0 - 0 - n - 0 = 0
    OBVIOUS
  <1>3. Sound(c)
    BY <1>2, PostedIsSound, Zenon
  <1>4. /\ b.assets + 0 = b.assets /\ b.depreciated + 0 = b.depreciated
        /\ b.payable + 0 = b.payable /\ b.tax + 0 = b.tax
        /\ b.retained + 0 = b.retained /\ b.unbooked + 0 = b.unbooked
    BY <1>1, Columns
  <1>5. c = [b EXCEPT !.cash = b.cash + n, !.ledger = b.ledger + n, !.assets = b.assets,
                      !.depreciated = b.depreciated, !.payable = b.payable, !.tax = b.tax,
                      !.contributed = b.contributed + n, !.retained = b.retained,
                      !.unbooked = b.unbooked]
    BY <1>4 DEF Posted
  <1>6. c.lastDepreciation = b.lastDepreciation /\ c.missed = b.missed
        /\ b.lastDepreciation \in Int /\ b.missed \in Int
    BY <1>1, <1>5, Columns DEF BookRecords
  <1> HIDE DEF c
  <1>7. Sound([c EXCEPT !.lastDepreciation = b.lastDepreciation, !.missed = b.missed,
                        !.opening = opening])
    BY <1>3, <1>6, AsideIsSound, Zenon
  <1>8. [c EXCEPT !.lastDepreciation = b.lastDepreciation, !.missed = b.missed,
                  !.opening = opening] = d
    BY <1>1, <1>5, <1>6, Zenon DEF BookRecords
  <1>9. QED BY <1>7, <1>8

-----------------------------------------------------------------------------
(* The invariant: what the books rest on, with the numbers the next day's  *)
(* postings are drawn from.                                                *)

BooksInv ==
  /\ Sound(books)
  /\ day \in Int /\ stake \in Int
  /\ block \in [deposit : Int, release : Int]

LEMMA Amounts ==
  /\ Takings \subseteq Int /\ Costs \subseteq Int /\ Shares \subseteq Int
  /\ Deposits \subseteq Int /\ SaleProceeds \subseteq Int /\ Openings \subseteq Int
  /\ Terms \subseteq Int /\ BorrowingLimit \in Int
  /\ DaysPerMonth \in Nat \ {0}
  BY BooksAssumption

LEMMA BooksStartSound == BooksInit => BooksInv
PROOF
  <1> SUFFICES ASSUME BooksInit PROVE BooksInv
    OBVIOUS
  <1>1. PICK term \in Terms :
          books =
            [cash |-> StartingCash, ledger |-> 0, opening |-> StartingCash, receivable |-> 0,
             owing |-> [due |-> 0, later |-> 0], assets |-> StartingAssets,
             depreciated |-> 0, lastDepreciation |-> -1, payable |-> 0,
             suppliers |-> [due |-> 0, later |-> 0], tax |-> 0,
             first |-> [principal |-> StartingDebt, start |-> 0, term |-> term,
                        kind |-> NoLoan.kind],
             second |-> NoLoan,
             contributed |-> StartingCash + StartingAssets - StartingDebt,
             retained |-> 0, openingCash |-> StartingCash, openingLedger |-> 0,
             missed |-> 0, unbooked |-> 0]
    BY DEF BooksInit
  <1>2. StartingCash \in Int /\ StartingAssets \in Int /\ StartingDebt \in Int /\ term \in Int
    BY BooksAssumption
  <1>3. [due |-> 0, later |-> 0] \in Totals
        /\ [principal |-> StartingDebt, start |-> 0, term |-> term, kind |-> NoLoan.kind] \in LoanBooks
    BY <1>2 DEF Totals, LoanBooks
  <1>4. books \in BookRecords
    BY <1>1, <1>2, <1>3, NoLoanIsALoan DEF BookRecords
  <1>5. Net(books) = 0
    BY <1>1, <1>2, NoLoanIsALoan DEF Net, Debt
  <1>6. Sound(books)
    BY <1>1, <1>2, <1>4, <1>5 DEF Sound
  <1>7. day \in Int /\ stake \in Int /\ block \in [deposit : Int, release : Int]
    BY DEF BooksInit, NoBlock
  <1>8. QED BY <1>6, <1>7 DEF BooksInv

LEMMA RefinanceKeepsBooks == ASSUME BooksInv, Refinance PROVE Sound(books')
PROOF
  <1> DEFINE drawn == Smaller2(BorrowingLimit - Debt(books), -NetLiquidity(books))
             f == [books.first EXCEPT !.principal = @ + drawn]
  <1>1. Sound(books)
    BY DEF BooksInv
  <1>2. /\ books \in BookRecords /\ books.first \in LoanBooks /\ books.second \in LoanBooks
        /\ books.first.principal \in Int /\ books.second.principal \in Int
        /\ Debt(books) \in Int /\ NetLiquidity(books) \in Int
    BY <1>1, Numbers DEF NetLiquidity
  <1>3. drawn \in Int
    BY <1>2, Amounts DEF Smaller2
  <1>4. books' = Earn(IF books.first.principal > 0
                      THEN [books EXCEPT !.first.principal = @ + drawn]
                      ELSE [books EXCEPT !.unbooked = @ + drawn], drawn, "loan")
    BY DEF Refinance
  <1> HIDE DEF drawn
  <1>5. f \in LoanBooks /\ f.principal + books.second.principal = Debt(books) + drawn
    BY <1>2, <1>3 DEF LoanBooks, Debt
  <1>6. [books EXCEPT !.first.principal = @ + drawn]
          = [books EXCEPT !.first = f, !.second = books.second]
    BY <1>2 DEF BookRecords
  <1> HIDE DEF f
  <1>7. Sound(Earn([books EXCEPT !.first = f, !.second = books.second], drawn, "loan"))
    BY <1>1, <1>2, <1>3, <1>5, DrawIsSound
  <1>8. Sound(Earn([books EXCEPT !.unbooked = @ + drawn], drawn, "loan"))
    BY <1>1, <1>3, UnbookedIsSound
  <1>9. CASE books.first.principal > 0
    BY <1>4, <1>6, <1>7, <1>9
  <1>10. CASE ~(books.first.principal > 0)
    BY <1>4, <1>8, <1>10
  <1>11. QED BY <1>9, <1>10

LEMMA FinanceKeepsBooks ==
  ASSUME BooksInv, NEW cash \in Int, NEW onTerms \in Int, NEW wages \in Int,
         NEW settlement \in Int, NEW bill \in Int, NEW share \in Int, NEW charge \in Int,
         NEW outcome \in Int,
         RunFinance(cash, onTerms, wages, settlement, bill, share, charge, outcome)
  PROVE  BooksInv'
PROOF
  <1> DEFINE today == day + 1
             atMonth == today \div DaysPerMonth
             traded == Traded(books, cash, onTerms, wages)
             released == block # NoBlock /\ block.release <= today
             deposit == IF released THEN block.deposit ELSE 0
             collected == IF claim THEN settlement ELSE 0
             result == IF stake > 0 THEN outcome ELSE 0
  <1>1. Sound(books) /\ day \in Int /\ stake \in Int /\ block \in [deposit : Int, release : Int]
    BY DEF BooksInv
  <1>2. today \in Int /\ atMonth \in Int /\ atMonth - 1 \in Int
    <2>1. today \in Int
      BY <1>1
    <2> HIDE DEF today
    <2>2. QED BY <2>1, Amounts
  <1>3. deposit \in Int /\ collected \in Int /\ result \in Int
    BY <1>1
  <1>4. Sound(traded)
    BY <1>1, TradedIsSound
  <1>5. /\ day' = today
        /\ block' = IF released THEN NoBlock ELSE block
        /\ stake' \in {0, stake}
        /\ \/ books' = Settled(traded, collected, deposit)
           \/ \E serviced \in Serviced(traded, atMonth) :
                books' = CloseMonth(Settled(serviced, collected, deposit), atMonth - 1,
                                    bill, share, charge, stake, result)
    BY DEF RunFinance
  <1>6. day' \in Int /\ stake' \in Int /\ block' \in [deposit : Int, release : Int]
    BY <1>1, <1>2, <1>5 DEF NoBlock
  <1> HIDE DEF traded, atMonth, collected, deposit, result
  <1>7. CASE books' = Settled(traded, collected, deposit)
    <2>1. Sound(Settled(traded, collected, deposit))
      BY <1>3, <1>4, SettledIsSound, Zenon
    <2>2. QED BY <1>6, <1>7, <2>1 DEF BooksInv
  <1>8. CASE \E serviced \in Serviced(traded, atMonth) :
               books' = CloseMonth(Settled(serviced, collected, deposit), atMonth - 1,
                                   bill, share, charge, stake, result)
    <2>1. PICK serviced \in Serviced(traded, atMonth) :
            books' = CloseMonth(Settled(serviced, collected, deposit), atMonth - 1,
                                bill, share, charge, stake, result)
      BY <1>8
    <2>2. Sound(serviced)
      BY <1>2, <1>4, <2>1, ServicedIsSound
    <2>3. Sound(Settled(serviced, collected, deposit))
      BY <1>3, <2>2, SettledIsSound, Zenon
    <2>4. Sound(CloseMonth(Settled(serviced, collected, deposit), atMonth - 1,
                           bill, share, charge, stake, result))
      BY <1>1, <1>2, <1>3, <2>3, CloseMonthIsSound, Zenon
    <2>5. QED BY <1>6, <2>1, <2>4 DEF BooksInv
  <1>9. QED BY <1>5, <1>7, <1>8

LEMMA BooksStaySound == BooksInv /\ [BooksNext]_booksVars => BooksInv'
PROOF
  <1> SUFFICES ASSUME BooksInv, [BooksNext]_booksVars PROVE BooksInv'
    OBVIOUS
  <1>1. Sound(books) /\ day \in Int /\ stake \in Int /\ block \in [deposit : Int, release : Int]
    BY DEF BooksInv
  <1>2. ASSUME NEW n \in Takings, Take(n) PROVE BooksInv'
    <2>1. n \in Int
      BY Amounts
    <2>2. Sound(Earn(books, n, "otherRevenue"))
      BY <1>1, <2>1, EarnIsSound
    <2>3. QED BY <1>1, <1>2, <2>2 DEF Take, BooksInv
  <1>3. ASSUME NEW n \in Costs, NEW account \in {"maintenance", "capex"}, Pay(n, account)
        PROVE BooksInv'
    <2>1. n \in Int
      BY Amounts
    <2>2. Sound(Spend(books, n, account))
      BY <1>1, <2>1, SpendIsSound
    <2>3. QED BY <1>1, <1>3, <2>2 DEF Pay, BooksInv
  <1>4. ASSUME NEW n \in Costs, BuySuppliesOnAccount(n) PROVE BooksInv'
    <2>1. n \in Int
      BY Amounts
    <2>2. books' = [books EXCEPT !.retained = @ - n, !.suppliers.later = @ + n]
      BY <1>4 DEF BuySuppliesOnAccount
    <2>3. Sound(books')
      BY <1>1, <2>1, <2>2, BuyingIsSound
    <2>4. QED BY <1>1, <1>4, <2>3 DEF BuySuppliesOnAccount, BooksInv
  <1>5. ASSUME NEW n \in Deposits, NEW ahead \in 1 .. 2, AcceptGroupContract(n, day + ahead)
        PROVE BooksInv'
    <2>1. n \in Int /\ day + ahead \in Int
      BY <1>1, Amounts
    <2>2. Sound(Earn(books, n, "groupDeposit"))
      BY <1>1, <2>1, EarnIsSound
    <2>3. QED BY <1>1, <1>5, <2>1, <2>2 DEF AcceptGroupContract, BooksInv
  <1>6. ASSUME FileClaim PROVE BooksInv'
    BY <1>1, <1>6 DEF FileClaim, BooksInv
  <1>7. ASSUME NEW n \in Costs, Invest(n) PROVE BooksInv'
    <2>1. n \in Int
      BY Amounts
    <2>2. Sound(Spend(books, n, "investment"))
      BY <1>1, <2>1, SpendIsSound
    <2>3. QED BY <1>1, <1>7, <2>1, <2>2 DEF Invest, BooksInv
  <1>8. ASSUME NEW n \in Costs, NEW term \in Terms, NEW kind \in LoanKinds,
               TakeLoan(n, term, kind)
        PROVE BooksInv'
    <2> DEFINE loan == [principal |-> n, start |-> day \div DaysPerMonth,
                        term |-> term, kind |-> kind]
    <2>1. n \in Int /\ term \in Int /\ day \div DaysPerMonth \in Int
      BY <1>1, Amounts
    <2>2. loan \in LoanBooks /\ loan.principal = n
      BY <2>1 DEF LoanBooks
    <2>3. books.second.principal = 0 /\ books' = Earn(AddLoan(books, loan), n, "loan")
          /\ UNCHANGED <<day, block, stake>>
      BY <1>8 DEF TakeLoan
    <2> HIDE DEF loan
    <2>4. Sound(Earn(AddLoan(books, loan), loan.principal, "loan"))
      BY <1>1, <2>2, <2>3, TakingALoanIsSound
    <2>5. QED BY <1>1, <2>2, <2>3, <2>4 DEF BooksInv
  <1>9. ASSUME NEW n \in 1 .. books.first.principal, RepayLoan(n) PROVE BooksInv'
    <2>1. n \in Int /\ n <= books.cash
      BY <1>1, <1>9, Numbers DEF RepayLoan
    <2>2. Sound(DropRepaid(Spend([books EXCEPT !.first.principal = @ - n], n, "loan")))
      BY <1>1, <2>1, RepayingIsSound
    <2>3. QED BY <1>1, <1>9, <2>2 DEF RepayLoan, BooksInv
  <1>10. ASSUME Refinance PROVE BooksInv'
    <2>1. Sound(books')
      BY <1>10, RefinanceKeepsBooks
    <2>2. UNCHANGED <<day, block, stake>>
      BY <1>10 DEF Refinance
    <2>3. QED BY <1>1, <2>1, <2>2 DEF BooksInv
  <1>11. ASSUME NEW n \in SaleProceeds, SellHotelInDistress(n) PROVE BooksInv'
    <2>1. n \in Int
      BY Amounts
    <2>2. Sound(Earn([books EXCEPT !.unbooked = @ + n], n, "disposal"))
      BY <1>1, <2>1, UnbookedIsSound
    <2>3. QED BY <1>1, <1>11, <2>2 DEF SellHotelInDistress, BooksInv
  <1>12. ASSUME AdmitInvestor PROVE BooksInv'
    <2>1. -NetLiquidity(books) \in Int
      BY <1>1, Numbers DEF NetLiquidity
    <2>2. Sound(Earn(books, -NetLiquidity(books), "capital"))
      BY <1>1, <2>1, EarnIsSound
    <2>3. QED BY <1>1, <1>12, <2>2 DEF AdmitInvestor, BooksInv
  <1>13. ASSUME NEW opening \in Openings, SetCampaignDifficulty(opening) PROVE BooksInv'
    <2>1. opening \in Int /\ opening - books.opening \in Int
      <3>1. books.opening \in Int
        BY <1>1, Columns DEF Sound
      <3>2. QED BY <3>1, Amounts
    <2>2. books' = [books EXCEPT !.opening = opening, !.cash = @ + (opening - books.opening),
                                 !.contributed = @ + (opening - books.opening),
                                 !.ledger = @ + (opening - books.opening)]
          /\ UNCHANGED <<day, block, stake>>
      BY <1>13 DEF SetCampaignDifficulty
    <2>3. Sound(books')
      BY <1>1, <2>1, <2>2, DifficultyIsSound
    <2>4. QED BY <1>1, <2>2, <2>3 DEF BooksInv
  <1>14. CASE UNCHANGED booksVars
    BY <1>1, <1>14 DEF booksVars, BooksInv
  <1>15. CASE BooksNext
    <2>1. CASE \E n \in Takings : Take(n)
      BY <1>2, <2>1
    <2>2. CASE \E n \in Costs, account \in {"maintenance", "capex"} : Pay(n, account)
      BY <1>3, <2>2
    <2>3. CASE \E n \in Costs : BuySuppliesOnAccount(n)
      BY <1>4, <2>3
    <2>4. CASE \E n \in Deposits, ahead \in 1 .. 2 : AcceptGroupContract(n, day + ahead)
      BY <1>5, <2>4
    <2>5. CASE FileClaim
      BY <1>6, <2>5
    <2>6. CASE \E n \in Costs : Invest(n)
      BY <1>7, <2>6
    <2>7. CASE \E n \in Costs, term \in Terms, kind \in LoanKinds : TakeLoan(n, term, kind)
      BY <1>8, <2>7
    <2>8. CASE \E n \in 1 .. books.first.principal : RepayLoan(n)
      BY <1>9, <2>8
    <2>9. CASE Refinance
      BY <1>10, <2>9
    <2>10. CASE \E n \in SaleProceeds : SellHotelInDistress(n)
      BY <1>11, <2>10
    <2>11. CASE AdmitInvestor
      BY <1>12, <2>11
    <2>12. CASE \E opening \in Openings : SetCampaignDifficulty(opening)
      BY <1>13, <2>12
    <2>13. CASE \E cash, onTerms \in Takings \cup {0}, settlement \in Settlements,
               wages, bill \in Costs, share \in Shares, charge, outcome \in Outcomes :
               RunFinance(cash, onTerms, wages, settlement, bill, share, charge, outcome)
      <3>1. PICK cash \in Takings \cup {0}, onTerms \in Takings \cup {0},
                 settlement \in Settlements, wages \in Costs, bill \in Costs,
                 share \in Shares, charge \in Outcomes, outcome \in Outcomes :
              RunFinance(cash, onTerms, wages, settlement, bill, share, charge, outcome)
        BY <2>13
      <3>2. cash \in Int /\ onTerms \in Int /\ settlement \in Int /\ wages \in Int
            /\ bill \in Int /\ share \in Int /\ charge \in Int /\ outcome \in Int
        BY Amounts DEF Settlements, Outcomes
      <3>3. QED BY <3>1, <3>2, FinanceKeepsBooks
    <2>14. QED
      BY <1>15, <2>1, <2>2, <2>3, <2>4, <2>5, <2>6,
         <2>7, <2>8, <2>9, <2>10, <2>11, <2>12, <2>13 DEF BooksNext
  <1>16. QED BY <1>14, <1>15

LEMMA BooksAlwaysSound == BooksSpec => []BooksInv
  <1>1. QED BY BooksStartSound, BooksStaySound, PTL DEF BooksSpec

\* Whatever is earned, spent, owed, lent, taxed and written down, in whatever
\* order: the balance sheet is out by exactly what GameSimulation.earn, spend
\* and runFinance are known to leave off it.
THEOREM BalanceKept == BooksSpec => []BooksBalance
  <1>1. BooksInv => BooksBalance
    BY DEF BooksInv, Sound, BooksBalance
  <1>2. QED BY <1>1, BooksAlwaysSound, PTL

\* The ledger explains the cash, over the whole career and since the month
\* opened, and what is receivable is what the debtors on the list owe.
THEOREM LedgerExplainsCash == BooksSpec => []LedgerAgrees
  <1>1. BooksInv => LedgerAgrees
    <2> SUFFICES ASSUME BooksInv PROVE LedgerAgrees
      OBVIOUS
    <2>2. /\ books.cash \in Int /\ books.ledger \in Int
          /\ books.openingCash \in Int /\ books.openingLedger \in Int
          /\ StartingCash \in Int
      BY Columns, BooksAssumption DEF BooksInv, Sound
    <2>3. QED BY <2>2 DEF BooksInv, Sound, LedgerAgrees, CashIsTheLedger, ReceivablesAreTheList
  <1>2. QED BY <1>1, BooksAlwaysSound, PTL

-----------------------------------------------------------------------------
(***************************************************************************)
(* The loans.  Every posting leaves their list as it is; only a month's    *)
(* instalments, a draw and a repayment change it.  A loan is in time when  *)
(* it is paid off, or its last instalment is still to come.                *)
(***************************************************************************)
SameLoans(b, c) == c.first = b.first /\ c.second = b.second /\ c.missed = b.missed

InTime(loan, atMonth) ==
  loan.principal > 0 => atMonth < loan.start + Larger2(1, loan.term - 1)

AllInTime(b, atMonth) ==
  /\ b.missed \in Nat
  /\ b.missed = 0 => InTime(b.first, atMonth) /\ InTime(b.second, atMonth)

LateInv == BooksInv /\ AllInTime(books, day \div DaysPerMonth)

LEMMA EarnKeepsLoans ==
  ASSUME NEW b \in BookRecords, NEW n, NEW a PROVE SameLoans(b, Earn(b, n, a))
  BY DEF Earn, SameLoans, BookRecords

LEMMA SpendKeepsLoans ==
  ASSUME NEW b \in BookRecords, NEW n, NEW a PROVE SameLoans(b, Spend(b, n, a))
  BY DEF Spend, SameLoans, BookRecords

\* Whatever the account, a posting makes a book of a book.
LEMMA PostingsAreBooks ==
  ASSUME NEW b \in BookRecords, NEW n \in Int, NEW a
  PROVE  Earn(b, n, a) \in BookRecords /\ Spend(b, n, a) \in BookRecords
PROOF
  <1> DEFINE owed == IF a = "groupDeposit" THEN n ELSE 0
             capital == IF AccountClass(a) = "equity" THEN n ELSE 0
             earned == IF AccountClass(a) = "revenue" THEN n ELSE 0
             paid == Smaller2(n, b.cash)
             bought == IF a \in {"capex", "investment"} THEN n ELSE 0
             cost == IF AccountClass(a) \in {"operating", "financing", "revenue"} THEN n ELSE 0
  <1>1. /\ owed \in Int /\ capital \in Int /\ earned \in Int /\ 0 \in Int
        /\ paid \in Int /\ bought \in Int /\ cost \in Int
    BY Columns DEF Smaller2
  <1>2. Earn(b, n, a) = Posted(b, n, 0, 0, owed, 0, capital, earned, 0)
    BY EarnIsPosted
  <1>3. Spend(b, n, a) = Posted(b, -paid, bought, 0, n - paid, 0, 0, -cost, 0)
    BY SpendIsPosted
  <1> HIDE DEF owed, capital, earned, paid, bought, cost
  <1>4. -paid \in Int /\ n - paid \in Int /\ -cost \in Int
    BY <1>1
  <1>5. Posted(b, n, 0, 0, owed, 0, capital, earned, 0) \in BookRecords
    BY <1>1, PostedIsABook, Zenon
  <1>6. Posted(b, -paid, bought, 0, n - paid, 0, 0, -cost, 0) \in BookRecords
    BY <1>1, <1>4, PostedIsABook, Zenon
  <1>7. QED BY <1>2, <1>3, <1>5, <1>6

LEMMA DayKeepsLoans ==
  ASSUME NEW b \in BookRecords, NEW n
  PROVE  /\ SameLoans(b, FallDue(b)) /\ SameLoans(b, RecogniseRevenueOnTerms(b, n))
         /\ SameLoans(b, SettlePayables(b)) /\ SameLoans(b, SettleSupplierInvoicesDue(b))
         /\ SameLoans(b, ReleaseDeposit(b, n)) /\ SameLoans(b, StartMonth(b))
PROOF
  <1>1. SameLoans(b, FallDue(b))
    BY DEF FallDue, SameLoans, BookRecords
  <1>2. SameLoans(b, RecogniseRevenueOnTerms(b, n))
    BY DEF RecogniseRevenueOnTerms, SameLoans, BookRecords
  <1>3. SameLoans(b, SettlePayables(b))
    BY DEF SettlePayables, SameLoans, BookRecords
  <1>4. SameLoans(b, SettleSupplierInvoicesDue(b))
    BY DEF SettleSupplierInvoicesDue, SameLoans, BookRecords
  <1>5. SameLoans(b, ReleaseDeposit(b, n))
    BY DEF ReleaseDeposit, SameLoans, BookRecords
  <1>6. SameLoans(b, StartMonth(b))
    BY DEF StartMonth, SameLoans, BookRecords
  <1>7. QED BY <1>1, <1>2, <1>3, <1>4, <1>5, <1>6

LEMMA TradedKeepsLoans ==
  ASSUME NEW b, Sound(b), NEW cash \in Int, NEW onTerms \in Int, NEW wages \in Int
  PROVE  SameLoans(b, Traded(b, cash, onTerms, wages))
PROOF
  <1> DEFINE c == FallDue(b)
             d == Earn(c, cash, "roomRevenue")
             e == RecogniseRevenueOnTerms(d, onTerms)
  <1>1. Sound(c) /\ SameLoans(b, c)
    BY FallDueIsSound, DayKeepsLoans DEF Sound
  <1> HIDE DEF c
  <1>2. Sound(d) /\ SameLoans(c, d)
    BY <1>1, EarnIsSound, EarnKeepsLoans DEF Sound
  <1> HIDE DEF d
  <1>3. Sound(e) /\ SameLoans(d, e)
    BY <1>2, RecogniseIsSound, DayKeepsLoans DEF Sound
  <1> HIDE DEF e
  <1>4. SameLoans(e, Spend(e, wages, "wages"))
    BY <1>3, SpendKeepsLoans DEF Sound
  <1>5. QED BY <1>1, <1>2, <1>3, <1>4 DEF SameLoans, Traded, c, d, e

LEMMA SettledKeepsLoans ==
  ASSUME NEW b, Sound(b), NEW settlement \in Int, NEW deposit \in Int
  PROVE  SameLoans(b, Settled(b, settlement, deposit))
PROOF
  <1> DEFINE c == SettlePayables(b)
             d == SettleSupplierInvoicesDue(c)
             e == Earn(d, settlement, "insuranceSettlement")
             f == ReleaseDeposit(e, deposit)
             g == Earn(f, f.owing.due, "receivableCollection")
  <1>1. Sound(c) /\ SameLoans(b, c)
    BY SettlePayablesIsSound, DayKeepsLoans DEF Sound
  <1> HIDE DEF c
  <1>2. Sound(d) /\ SameLoans(c, d)
    BY <1>1, SettleSuppliersIsSound, DayKeepsLoans DEF Sound
  <1> HIDE DEF d
  <1>3. Sound(e) /\ SameLoans(d, e)
    BY <1>2, EarnIsSound, EarnKeepsLoans DEF Sound
  <1> HIDE DEF e
  <1>4. Sound(f) /\ SameLoans(e, f)
    BY <1>3, ReleaseDepositIsSound, DayKeepsLoans DEF Sound
  <1> HIDE DEF f
  <1>5. g \in BookRecords /\ SameLoans(f, g)
    <2>1. f \in BookRecords /\ f.owing.due \in Int
      BY <1>4, Numbers
    <2>2. QED BY <2>1, PostingsAreBooks, EarnKeepsLoans
  <1> HIDE DEF g
  <1>6. SameLoans(g, SettleReceivablesDue(f))
    BY <1>5 DEF SettleReceivablesDue, SameLoans, BookRecords, g
  <1>7. QED BY <1>1, <1>2, <1>3, <1>4, <1>5, <1>6 DEF SameLoans, Settled, c, d, e, f

LEMMA CloseKeepsLoans ==
  ASSUME NEW b, Sound(b), NEW span \in Int, NEW bill \in Int, NEW share \in Int,
         NEW charge \in Int, NEW invested \in Int, NEW outcome \in Int
  PROVE  SameLoans(b, CloseMonth(b, span, bill, share, charge, invested, outcome))
PROOF
  <1> DEFINE standing == Spend(b, bill, "utilities")
             spaces == RunCommercialSpaceMonth(standing, share)
             written == ChargeInsuranceAndDepreciation(spaces, bill, span)
             paid == PayTax(written, span)
             taxed == AccrueTax(paid, span, charge)
             resolved == ResolveOpportunity(taxed, invested, outcome)
  <1>1. Sound(standing) /\ SameLoans(b, standing)
    BY SpendIsSound, SpendKeepsLoans DEF Sound
  <1> HIDE DEF standing
  <1>2. Sound(spaces) /\ SameLoans(standing, spaces)
    BY <1>1, SpacesAreSound, EarnKeepsLoans, SpendKeepsLoans DEF Sound, RunCommercialSpaceMonth
  <1> HIDE DEF spaces
  <1>3. Sound(written) /\ SameLoans(spaces, written)
    <2>1. Sound(written)
      BY <1>2, ChargeIsSound
    <2> DEFINE premium == Spend(spaces, bill, "insurancePremium")
    <2>2. premium \in BookRecords /\ SameLoans(spaces, premium)
      BY <1>2, SpendIsSound, SpendKeepsLoans DEF Sound
    <2>3. written \in {spaces, [premium EXCEPT !.retained = @ - Depreciation(spaces),
                                              !.depreciated = @ + Depreciation(spaces),
                                              !.lastDepreciation = span]}
      BY DEF ChargeInsuranceAndDepreciation
    <2> HIDE DEF premium, written
    <2>4. SameLoans(spaces, written)
      BY <2>2, <2>3 DEF SameLoans, BookRecords
    <2>5. QED BY <2>1, <2>4 DEF written
  <1> HIDE DEF written
  <1>4. Sound(paid) /\ SameLoans(written, paid)
    <2>1. Sound(paid)
      BY <1>3, PayTaxIsSound
    <2>2. SameLoans(written, paid)
      BY <1>3 DEF PayTax, Spend, SameLoans, BookRecords, Sound
    <2>3. QED BY <2>1, <2>2
  <1> HIDE DEF paid
  <1>5. Sound(taxed) /\ SameLoans(paid, taxed)
    <2>1. Sound(taxed)
      BY <1>4, AccrueTaxIsSound
    <2>2. SameLoans(paid, taxed)
      BY <1>4 DEF AccrueTax, SameLoans, BookRecords, Sound
    <2>3. QED BY <2>1, <2>2
  <1> HIDE DEF taxed
  <1>6. Sound(resolved) /\ SameLoans(taxed, resolved)
    <2>1. Sound(resolved)
      BY <1>5, ResolveOpportunityIsSound
    <2>2. SameLoans(taxed, resolved)
      BY <1>5 DEF ResolveOpportunity, Earn, SameLoans, BookRecords, Sound
    <2>3. QED BY <2>1, <2>2
  <1> HIDE DEF resolved
  <1>7. SameLoans(resolved, StartMonth(resolved))
    BY <1>6, DayKeepsLoans DEF Sound
  <1>8. QED
    BY <1>1, <1>2, <1>3, <1>4, <1>5, <1>6, <1>7
       DEF SameLoans, CloseMonth, standing, spaces, written, paid, taxed, resolved

LEMMA SameLoansInTime ==
  ASSUME NEW b, NEW c, NEW atMonth, SameLoans(b, c), AllInTime(b, atMonth)
  PROVE  AllInTime(c, atMonth)
  BY DEF SameLoans, AllInTime

\* An instalment that is not missed is paid in full.
LEMMA InstalmentPays ==
  ASSUME NEW b, Sound(b), NEW which \in {"first", "second"}, NEW i \in Int, NEW p \in Int
  PROVE  LET c == PayInstalment(b, which, i, p)
         IN  /\ c.missed \in {b.missed, b.missed + 1}
             /\ c.missed = b.missed =>
                  /\ c.first = IF which = "first" THEN [b.first EXCEPT !.principal = @ - p]
                                                  ELSE b.first
                  /\ c.second = IF which = "first" THEN b.second
                                                   ELSE [b.second EXCEPT !.principal = @ - p]
PROOF
  <1> DEFINE counted == IF b.cash >= i + p THEN b ELSE [b EXCEPT !.missed = @ + 1]
             charged == Spend(counted, i, "interest")
             paid == Smaller2(p, charged.cash)
             settled == Spend(charged, paid, "loanPrincipal")
             c == PayInstalment(b, which, i, p)
  <1>1. b \in BookRecords /\ b.cash \in Int /\ b.missed \in Int
    BY Columns DEF Sound
  <1>2. counted \in BookRecords
    <2>1. [b EXCEPT !.missed = @ + 1] \in BookRecords
      <3>1. b.missed + 1 \in Int
        BY <1>1
      <3>2. QED BY <1>1, <3>1, Zenon DEF BookRecords
    <2>2. QED BY <1>1, <2>1
  <1>3. counted.missed = (IF b.cash >= i + p THEN b.missed ELSE b.missed + 1)
        /\ (b.cash >= i + p => counted = b)
    BY <1>1 DEF BookRecords
  <1> HIDE DEF counted
  <1>4. charged \in BookRecords /\ SameLoans(counted, charged)
        /\ charged.cash = counted.cash - Smaller2(i, counted.cash)
    <2>1. SameLoans(counted, charged)
      BY <1>2, SpendKeepsLoans
    <2>2. charged.cash = counted.cash - Smaller2(i, counted.cash)
      BY <1>2 DEF Spend, BookRecords
    <2>3. charged \in BookRecords
      BY <1>2, PostingsAreBooks
    <2>4. QED BY <2>1, <2>2, <2>3
  <1> HIDE DEF charged
  <1>5. b.cash >= i + p => paid = p
    <2>1. ASSUME b.cash >= i + p PROVE paid = p
      <3>1. charged.cash = b.cash - Smaller2(i, b.cash)
        BY <1>3, <1>4, <2>1
      <3>2. charged.cash >= p /\ charged.cash \in Int
        BY <1>1, <2>1, <3>1 DEF Smaller2
      <3>3. QED BY <3>2 DEF Smaller2
    <2>2. QED BY <2>1
  <1>6. settled \in BookRecords /\ SameLoans(charged, settled)
    <2>1. paid \in Int
      BY <1>4, Columns DEF Smaller2
    <2> HIDE DEF paid
    <2>2. QED BY <1>4, <2>1, PostingsAreBooks, SpendKeepsLoans
  <1>7. c = IF which = "first" THEN [settled EXCEPT !.first.principal = @ - paid]
                               ELSE [settled EXCEPT !.second.principal = @ - paid]
    BY DEF PayInstalment, counted, charged
  <1> HIDE DEF settled, paid, c
  <1>9. /\ c.missed = settled.missed
        /\ c.first = IF which = "first" THEN [settled.first EXCEPT !.principal = @ - paid]
                                        ELSE settled.first
        /\ c.second = IF which = "first" THEN settled.second
                                         ELSE [settled.second EXCEPT !.principal = @ - paid]
    BY <1>6, <1>7 DEF BookRecords
  <1>10. c.missed = IF b.cash >= i + p THEN b.missed ELSE b.missed + 1
    BY <1>3, <1>4, <1>6, <1>9 DEF SameLoans
  <1>11. CASE b.cash >= i + p
    <2>1. settled.first = b.first /\ settled.second = b.second /\ paid = p
      BY <1>3, <1>4, <1>5, <1>6, <1>11 DEF SameLoans
    <2>2. QED BY <1>9, <1>10, <1>11, <2>1 DEF c
  <1>12. CASE ~(b.cash >= i + p)
    <2>1. c.missed = b.missed + 1 /\ c.missed # b.missed
      BY <1>1, <1>10, <1>12
    <2>2. QED BY <2>1 DEF c
  <1>13. QED BY <1>11, <1>12

\* The instalment of a month leaves nothing, or a month at least for the rest.
LEMMA InstalmentInTime ==
  ASSUME NEW loan \in LoanBooks, NEW atMonth \in Int, NEW p \in ScheduledPrincipal(loan, atMonth)
  PROVE  InTime([Repriced(loan, atMonth) EXCEPT !.principal = @ - p], atMonth)
PROOF
  <1> DEFINE left == MonthsLeft(loan, atMonth)
             new == Repriced(loan, atMonth)
             rest == [new EXCEPT !.principal = @ - p]
  <1>1. loan.principal \in Int /\ loan.start \in Int /\ loan.term \in Int
    BY DEF LoanBooks
  <1>2. left = (IF 1 < loan.term - (atMonth - loan.start) THEN loan.term - (atMonth - loan.start) ELSE 1)
        /\ left \in Int
    BY <1>1 DEF MonthsLeft, Larger2
  <1>3. new \in LoanBooks /\ new.principal = loan.principal
        /\ ((new.start = loan.start /\ new.term = loan.term) \/ (new.start = atMonth /\ new.term = left))
    <2>1. new \in LoanBooks /\ new.principal = loan.principal
      BY RepricedIsALoan
    <2>2. (new.start = loan.start /\ new.term = loan.term) \/ (new.start = atMonth /\ new.term = left)
      BY DEF Repriced, LoanBooks
    <2>3. QED BY <2>1, <2>2
  <1>4. left = 1 => p = loan.principal
    BY DEF ScheduledPrincipal
  <1> HIDE DEF left, new
  <1>5. rest.principal = loan.principal - p /\ rest.start = new.start /\ rest.term = new.term
    BY <1>3 DEF LoanBooks
  <1> HIDE DEF rest
  <1>6. CASE left = 1
    <2>1. rest.principal = 0
      BY <1>1, <1>4, <1>5, <1>6
    <2>2. QED BY <2>1 DEF InTime, rest, new
  <1>7. CASE left # 1
    <2>1. atMonth < rest.start + Larger2(1, rest.term - 1)
      BY <1>1, <1>2, <1>3, <1>5, <1>7 DEF Larger2
    <2>2. QED BY <2>1 DEF InTime, rest, new
  <1>8. QED BY <1>6, <1>7

LEMMA DropRepaidInTime ==
  ASSUME NEW b \in BookRecords, NEW atMonth, AllInTime(b, atMonth) PROVE AllInTime(DropRepaid(b), atMonth)
PROOF
  <1>1. CASE b.first.principal = 0
    <2>1. DropRepaid(b) = [b EXCEPT !.first = b.second, !.second = NoLoan]
      BY <1>1 DEF DropRepaid
    <2>2. /\ DropRepaid(b).first = b.second /\ DropRepaid(b).second = NoLoan
          /\ DropRepaid(b).missed = b.missed
      BY <2>1 DEF BookRecords
    <2>3. InTime(NoLoan, atMonth)
      BY NoLoanIsALoan DEF InTime
    <2>4. QED BY <2>2, <2>3 DEF AllInTime
  <1>2. CASE b.first.principal # 0
    BY <1>2 DEF DropRepaid
  <1>3. QED BY <1>1, <1>2

LEMMA ServicedInTime ==
  ASSUME NEW b, Sound(b), b.missed \in Nat, NEW atMonth \in Int, NEW c \in Serviced(b, atMonth)
  PROVE  AllInTime(c, atMonth)
PROOF
  <1>1. PICK i \in (IF b.first.principal > 0 THEN Interests ELSE {0}),
             p \in ScheduledPrincipal(b.first, atMonth),
             j \in (IF b.second.principal > 0 THEN Interests ELSE {0}),
             q \in ScheduledPrincipal(b.second, atMonth) :
          c = DropRepaid(PayInstalment(PayInstalment(RepriceLoans(b, atMonth),
                                                     "first", i, p), "second", j, q))
    BY DEF Serviced
  <1> DEFINE drawn == RepriceLoans(b, atMonth)
             once == PayInstalment(drawn, "first", i, p)
             twice == PayInstalment(once, "second", j, q)
  <1>2. i \in Int /\ j \in Int /\ b.first \in LoanBooks /\ b.second \in LoanBooks
    <2>1. Interests \subseteq Int /\ 0 \in Int
      BY BooksAssumption
    <2>2. QED BY <1>1, <2>1, Numbers
  <1>3. p \in Int /\ q \in Int
    BY <1>1, <1>2, PrincipalsAreNumbers
  <1>4. Sound(drawn) /\ drawn.first = Repriced(b.first, atMonth)
        /\ drawn.second = Repriced(b.second, atMonth) /\ drawn.missed = b.missed
    <2>1. Sound(drawn)
      BY RepricingIsSound
    <2>2. QED BY <2>1, Numbers DEF RepriceLoans, BookRecords
  <1> HIDE DEF drawn
  <1>5. /\ Sound(once) /\ once.missed \in {b.missed, b.missed + 1}
        /\ once.missed = b.missed =>
             /\ once.first = [drawn.first EXCEPT !.principal = @ - p]
             /\ once.second = drawn.second
    <2>1. Sound(once)
      BY <1>2, <1>3, <1>4, InstalmentIsSound, Zenon
    <2>2. QED BY <1>2, <1>3, <1>4, <2>1, InstalmentPays
  <1> HIDE DEF once
  <1>6. /\ Sound(twice) /\ twice.missed \in {once.missed, once.missed + 1}
        /\ twice.missed = once.missed =>
             /\ twice.first = once.first
             /\ twice.second = [once.second EXCEPT !.principal = @ - q]
    <2>1. Sound(twice)
      BY <1>2, <1>3, <1>5, InstalmentIsSound, Zenon
    <2>2. QED BY <1>2, <1>3, <1>5, <2>1, InstalmentPays
  <1> HIDE DEF twice
  <1>7. InTime([Repriced(b.first, atMonth) EXCEPT !.principal = @ - p], atMonth)
        /\ InTime([Repriced(b.second, atMonth) EXCEPT !.principal = @ - q], atMonth)
    BY <1>1, <1>2, InstalmentInTime
  <1>8. AllInTime(twice, atMonth)
    <2>1. twice.missed \in Nat
      BY <1>5, <1>6
    <2>2. ASSUME twice.missed = 0 PROVE InTime(twice.first, atMonth) /\ InTime(twice.second, atMonth)
      <3>1. once.missed = 0 /\ b.missed = 0
        BY <1>5, <1>6, <2>2
      <3>2. twice.first = [Repriced(b.first, atMonth) EXCEPT !.principal = @ - p]
            /\ twice.second = [Repriced(b.second, atMonth) EXCEPT !.principal = @ - q]
        BY <1>4, <1>5, <1>6, <2>2, <3>1
      <3>3. QED BY <1>7, <3>2
    <2>3. QED BY <2>1, <2>2 DEF AllInTime
  <1>9. QED BY <1>1, <1>6, <1>8, DropRepaidInTime DEF Sound, twice, once, drawn

LEMMA SameMonth ==
  ASSUME NEW d \in Int, NEW m \in Nat \ {0}, (d + 1) % m # 0
  PROVE  (d + 1) \div m = d \div m
PROOF
  <1> DEFINE q == d \div m
             r == d % m
  <1>1. q \in Int /\ r \in Int /\ 0 <= r /\ r < m /\ d = m * q + r
    OBVIOUS
  <1>2. (d + 1) \div m \in Int /\ (d + 1) % m \in Int /\ 0 <= (d + 1) % m /\ (d + 1) % m < m
        /\ d + 1 = m * ((d + 1) \div m) + ((d + 1) % m)
    OBVIOUS
  <1> DEFINE s == (d + 1) \div m
             t == (d + 1) % m
  <1> HIDE DEF q, r, s, t
  <1>3. s \in Int /\ t \in Int /\ 1 <= t /\ t < m /\ d + 1 = m * s + t
    BY <1>2 DEF s, t
  <1>4. m * q \in Int /\ m * s \in Int /\ m * q + r + 1 = m * s + t
    BY <1>1, <1>3
  <1>5. m * (s - q) = m * s - m * q /\ m * (s - q) = r + 1 - t
    <2>1. m * (s - q) = m * s - m * q
      BY <1>1, <1>3
    <2>2. QED BY <1>1, <1>3, <1>4, <2>1
  <1>6. r + 1 - t < m /\ r + 1 - t > -m
    BY <1>1, <1>3
  <1>7. s - q = 0
    <2> DEFINE k == s - q
    <2>1. k \in Int /\ m * k < m /\ m * k > -m
      BY <1>1, <1>3, <1>5, <1>6
    <2> HIDE DEF k
    <2>2. CASE k >= 1
      <3>1. m * k >= m
        BY <2>1, <2>2
      <3>2. QED BY <2>1, <3>1
    <2>3. CASE k <= -1
      <3>1. m * k <= -m
        BY <2>1, <2>3
      <3>2. QED BY <2>1, <3>1
    <2>4. k = 0
      BY <2>1, <2>2, <2>3
    <2>5. QED BY <2>4 DEF k
  <1>8. QED BY <1>1, <1>3, <1>7 DEF q, s

LEMMA FinanceInTime ==
  ASSUME LateInv, NEW cash \in Int, NEW onTerms \in Int, NEW wages \in Int,
         NEW settlement \in Int, NEW bill \in Int, NEW share \in Int, NEW charge \in Int,
         NEW outcome \in Int,
         RunFinance(cash, onTerms, wages, settlement, bill, share, charge, outcome)
  PROVE  AllInTime(books', day' \div DaysPerMonth)
PROOF
  <1> DEFINE today == day + 1
             atMonth == today \div DaysPerMonth
             traded == Traded(books, cash, onTerms, wages)
             released == block # NoBlock /\ block.release <= today
             deposit == IF released THEN block.deposit ELSE 0
             collected == IF claim THEN settlement ELSE 0
             result == IF stake > 0 THEN outcome ELSE 0
  <1>1. Sound(books) /\ day \in Int /\ stake \in Int /\ block \in [deposit : Int, release : Int]
        /\ AllInTime(books, day \div DaysPerMonth)
    BY DEF LateInv, BooksInv
  <1>2. deposit \in Int /\ collected \in Int /\ result \in Int
    BY <1>1
  <1>3. today \in Int /\ atMonth \in Int /\ atMonth - 1 \in Int
    <2>1. today \in Int
      BY <1>1
    <2> HIDE DEF today
    <2>2. QED BY <2>1, Amounts
  <1>4. Sound(traded) /\ AllInTime(traded, day \div DaysPerMonth)
    BY <1>1, TradedIsSound, TradedKeepsLoans, SameLoansInTime
  <1>5. /\ day' = today
        /\ \/ /\ today % DaysPerMonth # 0
              /\ books' = Settled(traded, collected, deposit)
           \/ \E serviced \in Serviced(traded, atMonth) :
                books' = CloseMonth(Settled(serviced, collected, deposit), atMonth - 1,
                                    bill, share, charge, stake, result)
    BY DEF RunFinance
  <1> HIDE DEF traded, collected, deposit, result
  <1>6. CASE today % DaysPerMonth # 0 /\ books' = Settled(traded, collected, deposit)
    <2>1. atMonth = day \div DaysPerMonth
      BY <1>1, <1>6, SameMonth, Amounts
    <2>2. SameLoans(traded, books')
      BY <1>2, <1>4, <1>6, SettledKeepsLoans
    <2> HIDE DEF atMonth, today
    <2>3. AllInTime(books', atMonth)
      BY <1>4, <2>1, <2>2, SameLoansInTime
    <2>4. QED BY <1>5, <2>3 DEF atMonth
  <1>7. CASE \E serviced \in Serviced(traded, atMonth) :
               books' = CloseMonth(Settled(serviced, collected, deposit), atMonth - 1,
                                   bill, share, charge, stake, result)
    <2> HIDE DEF atMonth, today
    <2>1. PICK serviced \in Serviced(traded, atMonth) :
            books' = CloseMonth(Settled(serviced, collected, deposit), atMonth - 1,
                                bill, share, charge, stake, result)
      BY <1>7
    <2>2. Sound(serviced) /\ AllInTime(serviced, atMonth)
      BY <1>3, <1>4, <2>1, ServicedIsSound, ServicedInTime DEF AllInTime
    <2> DEFINE settled == Settled(serviced, collected, deposit)
    <2>3. Sound(settled) /\ SameLoans(serviced, settled)
      BY <1>2, <2>2, SettledIsSound, SettledKeepsLoans
    <2> HIDE DEF settled
    <2>4. SameLoans(settled, CloseMonth(settled, atMonth - 1, bill, share, charge, stake, result))
      BY <1>1, <1>2, <1>3, <2>3, CloseKeepsLoans
    <2>5. SameLoans(serviced, books')
      BY <2>1, <2>3, <2>4 DEF SameLoans, settled
    <2>6. AllInTime(books', atMonth)
      BY <2>2, <2>5, SameLoansInTime
    <2>7. QED BY <1>5, <2>6 DEF atMonth
  <1>8. QED BY <1>5, <1>6, <1>7

LEMMA LoanStartsInTime ==
  ASSUME NEW loan \in LoanBooks, NEW atMonth \in Int, loan.start = atMonth
  PROVE  InTime(loan, atMonth)
  BY DEF InTime, Larger2, LoanBooks

LEMMA TakingInTime ==
  ASSUME LateInv, NEW n \in Int, NEW term \in Int, NEW kind \in LoanKinds, TakeLoan(n, term, kind)
  PROVE  AllInTime(books', day' \div DaysPerMonth)
PROOF
  <1> DEFINE atMonth == day \div DaysPerMonth
             loan == [principal |-> n, start |-> atMonth, term |-> term, kind |-> kind]
             added == AddLoan(books, loan)
  <1>1. /\ books \in BookRecords /\ day \in Int /\ AllInTime(books, atMonth) /\ atMonth \in Int
        /\ books' = Earn(added, n, "loan") /\ day' = day
    BY Amounts DEF LateInv, BooksInv, Sound, TakeLoan
  <1> HIDE DEF atMonth
  <1>2. loan \in LoanBooks /\ loan.start = atMonth
    BY <1>1 DEF LoanBooks
  <1> HIDE DEF loan
  <1>3. InTime(loan, atMonth)
    BY <1>1, <1>2, LoanStartsInTime
  <1>4. added \in {[books EXCEPT !.first = loan], [books EXCEPT !.second = loan]}
    BY DEF AddLoan
  <1>5. added \in BookRecords
    <2>1. [books EXCEPT !.first = loan] \in BookRecords
      BY <1>1, <1>2, Zenon DEF BookRecords
    <2>2. [books EXCEPT !.second = loan] \in BookRecords
      BY <1>1, <1>2, Zenon DEF BookRecords
    <2>3. QED BY <1>4, <2>1, <2>2
  <1>6. added.missed = books.missed /\ added.first \in {books.first, loan}
        /\ added.second \in {books.second, loan}
    BY <1>1, <1>4 DEF BookRecords
  <1> HIDE DEF added
  <1>7. AllInTime(added, atMonth)
    BY <1>1, <1>3, <1>6 DEF AllInTime
  <1>8. AllInTime(books', atMonth)
    BY <1>1, <1>5, <1>7, EarnKeepsLoans, SameLoansInTime
  <1>9. QED BY <1>1, <1>8 DEF atMonth

\* More principal, or less, on a loan that is not paid off.
LEMMA PrincipalInTime ==
  ASSUME NEW b \in BookRecords, NEW atMonth, AllInTime(b, atMonth), NEW n \in Int,
         b.first.principal > 0
  PROVE  /\ [b EXCEPT !.first.principal = @ + n] \in BookRecords
         /\ AllInTime([b EXCEPT !.first.principal = @ + n], atMonth)
PROOF
  <1> DEFINE f == [b.first EXCEPT !.principal = @ + n]
             c == [b EXCEPT !.first.principal = @ + n]
  <1>1. b.first \in LoanBooks /\ b.first.principal \in Int
    BY Columns
  <1>2. f \in LoanBooks /\ f.start = b.first.start /\ f.term = b.first.term
    BY <1>1 DEF LoanBooks
  <1>3. c = [b EXCEPT !.first = f]
    OBVIOUS
  <1> HIDE DEF f, c
  <1>4. c \in BookRecords
    BY <1>2, <1>3, Zenon DEF BookRecords
  <1>5. c.first = f /\ c.second = b.second /\ c.missed = b.missed
    BY <1>3 DEF BookRecords
  <1>6. AllInTime(c, atMonth)
    BY <1>2, <1>5 DEF AllInTime, InTime
  <1>7. QED BY <1>4, <1>6 DEF c

LEMMA RepayingInTime ==
  ASSUME LateInv, NEW n \in 1 .. books.first.principal, RepayLoan(n)
  PROVE  AllInTime(books', day' \div DaysPerMonth)
PROOF
  <1> DEFINE atMonth == day \div DaysPerMonth
             less == [books EXCEPT !.first.principal = @ - n]
             paid == Spend(less, n, "loan")
  <1>1. /\ books \in BookRecords /\ AllInTime(books, atMonth)
        /\ books' = DropRepaid(paid) /\ day' = day
        /\ n \in Int /\ books.first.principal \in Int /\ books.first.principal > 0
    BY Numbers DEF LateInv, BooksInv, RepayLoan
  <1>2. less = [books EXCEPT !.first.principal = @ + (-n)]
    <2>1. books.first.principal + (-n) = books.first.principal - n
      BY <1>1
    <2>2. QED BY <2>1
  <1>3. -n \in Int
    BY <1>1
  <1> HIDE DEF less, atMonth
  <1>4. less \in BookRecords /\ AllInTime(less, atMonth)
    BY <1>1, <1>2, <1>3, PrincipalInTime
  <1>5. paid \in BookRecords /\ SameLoans(less, paid)
    BY <1>1, <1>4, PostingsAreBooks, SpendKeepsLoans
  <1> HIDE DEF paid
  <1>6. AllInTime(books', atMonth)
    BY <1>1, <1>4, <1>5, SameLoansInTime, DropRepaidInTime
  <1>7. QED BY <1>1, <1>6 DEF atMonth

LEMMA RefinancingInTime ==
  ASSUME LateInv, Refinance PROVE AllInTime(books', day' \div DaysPerMonth)
PROOF
  <1> DEFINE atMonth == day \div DaysPerMonth
             drawn == Smaller2(BorrowingLimit - Debt(books), -NetLiquidity(books))
             onFirst == [books EXCEPT !.first.principal = @ + drawn]
             onNone == [books EXCEPT !.unbooked = @ + drawn]
  <1>1. /\ books \in BookRecords /\ Sound(books) /\ AllInTime(books, atMonth) /\ day' = day
        /\ books' = Earn(IF books.first.principal > 0 THEN onFirst ELSE onNone, drawn, "loan")
    BY DEF LateInv, BooksInv, Sound, Refinance
  <1>2. drawn \in Int /\ books.unbooked \in Int
    <2>1. Debt(books) \in Int /\ NetLiquidity(books) \in Int /\ BorrowingLimit \in Int
      BY <1>1, Numbers, Amounts DEF NetLiquidity
    <2>2. QED BY <1>1, <2>1, Numbers DEF Smaller2
  <1> HIDE DEF drawn, atMonth
  <1>3. CASE books.first.principal > 0
    <2>1. onFirst \in BookRecords /\ AllInTime(onFirst, atMonth)
      BY <1>1, <1>2, <1>3, PrincipalInTime
    <2>2. books' = Earn(onFirst, drawn, "loan")
      BY <1>1, <1>3
    <2> HIDE DEF onFirst
    <2>3. AllInTime(books', atMonth)
      BY <2>1, <2>2, EarnKeepsLoans, SameLoansInTime
    <2>4. QED BY <1>1, <2>3 DEF atMonth
  <1>4. CASE ~(books.first.principal > 0)
    <2>1. onNone \in BookRecords
      <3>1. books.unbooked + drawn \in Int
        BY <1>2
      <3>2. QED BY <1>1, <3>1, Zenon DEF BookRecords
    <2>2. SameLoans(books, onNone)
      BY <1>1 DEF SameLoans, BookRecords
    <2>3. books' = Earn(onNone, drawn, "loan")
      BY <1>1, <1>4
    <2> HIDE DEF onNone
    <2>4. AllInTime(books', atMonth)
      BY <1>1, <2>1, <2>2, <2>3, EarnKeepsLoans, SameLoansInTime
    <2>5. QED BY <1>1, <2>4 DEF atMonth
  <1>5. QED BY <1>3, <1>4

LEMMA LoansStartInTime == BooksInit => LateInv
PROOF
  <1> SUFFICES ASSUME BooksInit PROVE LateInv
    OBVIOUS
  <1>1. PICK term \in Terms :
          books.first = [principal |-> StartingDebt, start |-> 0, term |-> term, kind |-> NoLoan.kind]
          /\ books.second = NoLoan /\ books.missed = 0 /\ day = 0
    BY DEF BooksInit
  <1>2. StartingDebt \in Int /\ term \in Int /\ DaysPerMonth \in Nat \ {0}
    BY BooksAssumption
  <1>3. day \div DaysPerMonth = 0
    BY <1>1, <1>2
  <1>4. books.first \in LoanBooks /\ books.first.start = 0
    BY <1>1, <1>2 DEF LoanBooks
  <1>5. InTime(books.first, 0)
    BY <1>4, LoanStartsInTime
  <1>6. InTime(books.second, 0)
    BY <1>1, NoLoanIsALoan DEF InTime
  <1>7. AllInTime(books, 0)
    BY <1>1, <1>5, <1>6 DEF AllInTime
  <1>8. QED BY <1>3, <1>7, BooksStartSound DEF LateInv

LEMMA LoansStayInTime == LateInv /\ [BooksNext]_booksVars => LateInv'
PROOF
  <1> SUFFICES ASSUME LateInv, [BooksNext]_booksVars PROVE AllInTime(books', day' \div DaysPerMonth)
    BY BooksStaySound DEF LateInv
  <1> DEFINE atMonth == day \div DaysPerMonth
  <1>1. Sound(books) /\ books \in BookRecords /\ AllInTime(books, atMonth)
    BY DEF LateInv, BooksInv, Sound
  <1>2. ASSUME SameLoans(books, books'), day' = day
        PROVE  AllInTime(books', day' \div DaysPerMonth)
    BY <1>1, <1>2, SameLoansInTime
  <1> HIDE DEF atMonth
  <1>3. ASSUME NEW n \in Takings, Take(n) PROVE AllInTime(books', day' \div DaysPerMonth)
    BY <1>1, <1>2, <1>3, EarnKeepsLoans DEF Take
  <1>4. ASSUME NEW n \in Costs, NEW account \in {"maintenance", "capex"}, Pay(n, account)
        PROVE  AllInTime(books', day' \div DaysPerMonth)
    BY <1>1, <1>2, <1>4, SpendKeepsLoans DEF Pay
  <1>5. ASSUME NEW n \in Costs, BuySuppliesOnAccount(n)
        PROVE  AllInTime(books', day' \div DaysPerMonth)
    <2>1. SameLoans(books, books') /\ day' = day
      BY <1>1, <1>5 DEF BuySuppliesOnAccount, SameLoans, BookRecords
    <2>2. QED BY <1>2, <2>1
  <1>6. ASSUME NEW n \in Deposits, NEW ahead \in 1 .. 2, AcceptGroupContract(n, day + ahead)
        PROVE  AllInTime(books', day' \div DaysPerMonth)
    BY <1>1, <1>2, <1>6, EarnKeepsLoans DEF AcceptGroupContract
  <1>7. CASE FileClaim
    BY <1>2, <1>7 DEF FileClaim, SameLoans
  <1>8. ASSUME NEW n \in Costs, Invest(n) PROVE AllInTime(books', day' \div DaysPerMonth)
    BY <1>1, <1>2, <1>8, SpendKeepsLoans DEF Invest
  <1>9. ASSUME NEW n \in Costs, NEW term \in Terms, NEW kind \in LoanKinds,
               TakeLoan(n, term, kind)
        PROVE  AllInTime(books', day' \div DaysPerMonth)
    BY <1>9, TakingInTime, Amounts
  <1>10. ASSUME NEW n \in 1 .. books.first.principal, RepayLoan(n)
         PROVE  AllInTime(books', day' \div DaysPerMonth)
    BY <1>10, RepayingInTime
  <1>11. CASE Refinance
    BY <1>11, RefinancingInTime
  <1>12. ASSUME NEW n \in SaleProceeds, SellHotelInDistress(n)
         PROVE  AllInTime(books', day' \div DaysPerMonth)
    <2> DEFINE disposed == [books EXCEPT !.unbooked = @ + n]
    <2>1. books' = Earn(disposed, n, "disposal") /\ day' = day
      BY <1>12 DEF SellHotelInDistress
    <2>2. disposed \in BookRecords /\ SameLoans(books, disposed)
      <3>1. books.unbooked + n \in Int
        BY <1>1, Numbers, Amounts
      <3>2. disposed \in BookRecords
        BY <1>1, <3>1, Zenon DEF BookRecords
      <3>3. SameLoans(books, disposed)
        BY <1>1 DEF SameLoans, BookRecords
      <3>4. QED BY <3>2, <3>3
    <2> HIDE DEF disposed
    <2>3. SameLoans(books, books')
      BY <2>1, <2>2, EarnKeepsLoans DEF SameLoans
    <2>4. QED BY <1>2, <2>1, <2>3
  <1>13. CASE AdmitInvestor
    BY <1>1, <1>2, <1>13, EarnKeepsLoans DEF AdmitInvestor
  <1>14. ASSUME NEW opening \in Openings, SetCampaignDifficulty(opening)
         PROVE  AllInTime(books', day' \div DaysPerMonth)
    <2>1. SameLoans(books, books') /\ day' = day
      BY <1>1, <1>14 DEF SetCampaignDifficulty, SameLoans, BookRecords
    <2>2. QED BY <1>2, <2>1
  <1>15. CASE \E cash, onTerms \in Takings \cup {0}, settlement \in Settlements,
                wages, bill \in Costs, share \in Shares, charge, outcome \in Outcomes :
                RunFinance(cash, onTerms, wages, settlement, bill, share, charge, outcome)
    <2>1. PICK cash \in Takings \cup {0}, onTerms \in Takings \cup {0},
               settlement \in Settlements, wages \in Costs, bill \in Costs,
               share \in Shares, charge \in Outcomes, outcome \in Outcomes :
            RunFinance(cash, onTerms, wages, settlement, bill, share, charge, outcome)
      BY <1>15
    <2>2. cash \in Int /\ onTerms \in Int /\ settlement \in Int /\ wages \in Int
          /\ bill \in Int /\ share \in Int /\ charge \in Int /\ outcome \in Int
      BY Amounts DEF Settlements, Outcomes
    <2>3. QED BY <2>1, <2>2, FinanceInTime
  <1>16. CASE UNCHANGED booksVars
    BY <1>2, <1>16 DEF booksVars, SameLoans
  <1>17. QED
    BY <1>3, <1>4, <1>5, <1>6, <1>7, <1>8, <1>9, <1>10, <1>11, <1>12, <1>13, <1>14, <1>15, <1>16
       DEF BooksNext

\* However many loans are drawn, topped up and repaid early, and whatever the
\* rate is set to: one outlives its term only after an instalment the cash did
\* not cover (GameSimulation.runFinance, amortization).
THEOREM LoansEndInTime == BooksSpec => []LateOnlyIfMissed
PROOF
  <1>1. LateInv => LateOnlyIfMissed
    <2> SUFFICES ASSUME LateInv, NEW loan \in {books.first, books.second},
                        loan.principal > 0,
                        day \div DaysPerMonth >= loan.start + Larger2(1, loan.term - 1)
                 PROVE  books.missed > 0
      BY DEF LateOnlyIfMissed
    <2>1. loan \in LoanBooks /\ day \div DaysPerMonth \in Int /\ books.missed \in Nat
      BY Numbers, Amounts DEF LateInv, BooksInv, AllInTime
    <2>2. loan.start \in Int /\ Larger2(1, loan.term - 1) \in Int
      BY <2>1 DEF LoanBooks, Larger2
    <2>3. ~InTime(loan, day \div DaysPerMonth)
      BY <2>1, <2>2 DEF InTime
    <2>4. QED BY <2>1, <2>3 DEF LateInv, AllInTime
  <1>2. QED BY <1>1, LoansStartInTime, LoansStayInTime, PTL DEF BooksSpec

-----------------------------------------------------------------------------
(* The scheme's debt and the accounts.                                     *)

Member(m) == DOMAIN m = {"points", "nights"} /\ m.points \in Nat /\ m.nights \in Nat

\* Members are finitely many, each with points.
Membership(ms) == IsFiniteSet(DOMAIN ms) /\ \A g \in DOMAIN ms : Member(ms[g])

PointsOf(ms) == SumFunction([g \in DOMAIN ms |-> ms[g].points])

ContractFields == {"lead", "from", "to", "intent"}

\* Accounts are of different leads, and each lead is one that exists.
AccountsInv ==
  /\ \A c \in contracts : DOMAIN c = ContractFields /\ c.lead \in DOMAIN leads
  /\ \A c, d \in contracts : c.lead = d.lead => c = d
  /\ AccountsAreWonOnce

CommercialInv ==
  /\ DOMAIN scheme = {"active", "liability"} /\ scheme.active \in BOOLEAN
  /\ scheme.liability \in Int
  /\ Membership(members)
  /\ SchemeReconciles
  /\ AccountsInv

LEMMA PointsAre ==
  ASSUME NEW ms, Membership(ms)
  PROVE  PointsOf(ms) \in Int
<1> DEFINE w == [g \in DOMAIN ms |-> ms[g].points]
<1>1. \A g \in DOMAIN ms : w[g] \in Int
  BY DEF Membership, Member
<1>2. SumFunction(w) = SumFunctionOnSet(w, DOMAIN ms)
  BY DEF SumFunction
<1> HIDE DEF w
<1>3. SumFunctionOnSet(w, DOMAIN ms) \in Int
  BY <1>1, SumIsANumber DEF Membership
<1>4. QED BY <1>2, <1>3 DEF PointsOf, w

\* One member's points more or fewer.
LEMMA PointsChange ==
  ASSUME NEW ms, NEW ns, Membership(ms), Membership(ns), NEW g \in DOMAIN ms,
         DOMAIN ns = DOMAIN ms, \A h \in DOMAIN ms : h # g => ns[h] = ms[h]
  PROVE  PointsOf(ns) = PointsOf(ms) + (ns[g].points - ms[g].points)
<1> DEFINE D == DOMAIN ms
           v == [h \in D |-> ms[h].points]
           w == [h \in D |-> ns[h].points]
<1>1. \A h \in D : v[h] \in Int /\ w[h] \in Int /\ (h # g => v[h] = w[h])
  BY DEF Membership, Member
<1>2. v[g] = ms[g].points /\ w[g] = ns[g].points
  OBVIOUS
<1>3. PointsOf(ms) = SumFunctionOnSet(v, D) /\ PointsOf(ns) = SumFunctionOnSet(w, D)
  BY DEF PointsOf, SumFunction
<1>4. IsFiniteSet(D)
  BY DEF Membership
<1> HIDE DEF D, v, w
<1>5. g \in D
  BY DEF D
<1>6. SumFunctionOnSet(w, D) = SumFunctionOnSet(v, D) + (w[g] - v[g])
  BY <1>1, <1>4, <1>5, SumChanges
<1>7. QED BY <1>2, <1>3, <1>6

\* A new member's points.
LEMMA PointsJoin ==
  ASSUME NEW ms, Membership(ms), NEW g, g \notin DOMAIN ms, NEW m, Member(m)
  PROVE  PointsOf(Extended(ms, g, m)) = PointsOf(ms) + m.points
<1> DEFINE D == DOMAIN ms
           ns == Extended(ms, g, m)
           v == [h \in D |-> ms[h].points]
           w == [h \in D \cup {g} |-> ns[h].points]
<1>1. /\ DOMAIN ns = D \cup {g} /\ ns[g] = m
      /\ \A h \in D : ns[h] = ms[h]
  BY DEF Extended
<1>2. PointsOf(ms) = SumFunctionOnSet(v, D)
  BY DEF PointsOf, SumFunction
<1> HIDE DEF ns
<1>3. PointsOf(ns) = SumFunctionOnSet(w, D \cup {g})
  <2>1. PointsOf(ns) = SumFunction(w)
    BY <1>1 DEF PointsOf
  <2>2. DOMAIN w = D \cup {g}
    OBVIOUS
  <2>3. QED BY <2>1, <2>2 DEF SumFunction
<1>4. \A h \in D : v[h] \in Int /\ w[h] \in Int /\ w[h] = v[h]
  BY <1>1 DEF Membership, Member
<1>5. w[g] = m.points /\ m.points \in Int
  BY <1>1 DEF Member
<1>6. IsFiniteSet(D) /\ g \notin D
  BY DEF Membership
<1> HIDE DEF D, v, w
<1>7. SumFunctionOnSet(w, D \cup {g}) = w[g] + SumFunctionOnSet(w, D)
  BY <1>4, <1>5, <1>6, SumPutsIn
<1>8. SumFunctionOnSet(w, D) = SumFunctionOnSet(v, D)
  BY <1>4, <1>6, SumsCompare
<1>9. SumFunctionOnSet(v, D) \in Int
  BY <1>4, <1>6, SumIsANumber
<1>10. QED BY <1>2, <1>3, <1>5, <1>7, <1>8, <1>9 DEF ns

\* The month's write-off is of the points that are gone.
LEMMA PointsWrittenOff ==
  ASSUME Membership(members)
  PROVE  /\ Membership(AfterBreakage) /\ WrittenOff \in Int
         /\ PointsOf(AfterBreakage) + WrittenOff = PointsOf(members)
<1> DEFINE D == DOMAIN members
           v == [g \in D |-> members[g].points]
           u == [g \in D |-> AfterBreakage[g].points]
           b == [g \in D |-> Breakage(members[g])]
<1>1. ASSUME NEW g \in D
      PROVE  /\ Member(AfterBreakage[g]) /\ Breakage(members[g]) \in Nat
             /\ AfterBreakage[g].points = members[g].points - Breakage(members[g])
  <2> DEFINE m == members[g]
  <2>1. Member(m) /\ BreakageShare \in Nat \ {0}
    BY CommercialAssumption DEF Membership
  <2>2. AfterBreakage[g] = [m EXCEPT !.points = @ - Breakage(m)]
    BY DEF AfterBreakage
  <2> HIDE DEF m
  <2>3. \A p \in Nat, s \in Nat \ {0} : p \div s \in Nat /\ p \div s <= p
    OBVIOUS
  <2>4. Breakage(m) \in Nat /\ Breakage(m) <= m.points
    BY <2>1, <2>3 DEF Breakage, Member
  <2>5. /\ DOMAIN AfterBreakage[g] = {"points", "nights"}
        /\ AfterBreakage[g].points = m.points - Breakage(m)
        /\ AfterBreakage[g].nights = m.nights
    BY <2>1, <2>2 DEF Member
  <2>6. QED BY <2>1, <2>4, <2>5 DEF Member, m
<1>2. DOMAIN AfterBreakage = D
  BY DEF AfterBreakage
<1>3. IsFiniteSet(D) /\ Membership(AfterBreakage)
  BY <1>1, <1>2 DEF Membership
<1>4. /\ PointsOf(members) = SumFunctionOnSet(v, D)
      /\ WrittenOff = SumFunctionOnSet(b, D)
  BY DEF PointsOf, WrittenOff, SumFunction
<1>5. PointsOf(AfterBreakage) = SumFunctionOnSet(u, D)
  BY <1>2 DEF PointsOf, SumFunction
<1>6. \A g \in D : u[g] \in Int /\ b[g] \in Int /\ v[g] = u[g] + b[g]
  <2>1. SUFFICES ASSUME NEW g \in D PROVE u[g] \in Int /\ b[g] \in Int /\ v[g] = u[g] + b[g]
    OBVIOUS
  <2>2. Member(members[g]) /\ Member(AfterBreakage[g])
    BY <1>1 DEF Membership
  <2>3. /\ members[g].points \in Nat /\ AfterBreakage[g].points \in Nat
        /\ Breakage(members[g]) \in Nat
        /\ AfterBreakage[g].points = members[g].points - Breakage(members[g])
    BY <1>1, <2>2 DEF Member
  <2>4. u[g] = AfterBreakage[g].points /\ b[g] = Breakage(members[g]) /\ v[g] = members[g].points
    OBVIOUS
  <2> HIDE DEF u, v, b
  <2>5. QED BY <2>3, <2>4
<1> HIDE DEF D, u, v, b
<1>7. SumFunctionOnSet(v, D) = SumFunctionOnSet(u, D) + SumFunctionOnSet(b, D)
  BY <1>3, <1>6, SumsAddUp
<1>8. SumFunctionOnSet(b, D) \in Int
  BY <1>3, <1>6, SumIsANumber
<1>9. QED BY <1>3, <1>4, <1>5, <1>7, <1>8

\* Leads that no account is signed of may come and go.
LEMMA LeadsMove ==
  ASSUME AccountsInv, NEW lead, lead \notin DOMAIN leads \/ leads[lead] # "won", NEW stage,
         leads' = Extended(leads, lead, stage), contracts' = contracts
  PROVE  AccountsInv'
<1>1. /\ \A c \in contracts : DOMAIN c = ContractFields /\ c.lead \in DOMAIN leads
      /\ \A c, d \in contracts : c.lead = d.lead => c = d
      /\ \A c \in contracts : leads[c.lead] = "won"
      /\ \A c, d \in contracts : c # d => ~(SameAccount(c, d) /\ Overlap(c, d))
  BY DEF AccountsInv, AccountsAreWonOnce
<1>2. \A c \in contracts : c.lead # lead /\ c.lead \in DOMAIN leads
  BY <1>1
<1>3. \A c \in contracts : c.lead \in DOMAIN leads' /\ leads'[c.lead] = leads[c.lead]
  BY <1>2 DEF Extended
<1>4. QED BY <1>1, <1>3 DEF AccountsInv, AccountsAreWonOnce

LEMMA SigningAnAccount ==
  ASSUME AccountsInv, NEW lead, NEW from, NEW to, SignAccount(lead, from, to)
  PROVE  AccountsInv'
<1> DEFINE c == [lead |-> lead, from |-> from, to |-> to, intent |-> "unknown"]
<1>1. DOMAIN c = ContractFields /\ c.lead = lead
  BY DEF ContractFields
<1>2. /\ lead \in DOMAIN leads /\ leads[lead] # "won" /\ MaySign(c)
      /\ contracts' = contracts \cup {c} /\ leads' = Extended(leads, lead, "won")
  BY DEF SignAccount, MayAdvance
<1> HIDE DEF c
<1>3. /\ \A d \in contracts : DOMAIN d = ContractFields /\ d.lead \in DOMAIN leads
      /\ \A d, e \in contracts : d.lead = e.lead => d = e
      /\ \A d \in contracts : leads[d.lead] = "won"
      /\ \A d, e \in contracts : d # e => ~(SameAccount(d, e) /\ Overlap(d, e))
  BY DEF AccountsInv, AccountsAreWonOnce
<1>4. \A d \in contracts : d.lead # c.lead /\ ~(SameAccount(c, d) /\ Overlap(c, d))
  BY <1>2 DEF MaySign
<1>5. \A d \in contracts : ~(SameAccount(d, c) /\ Overlap(d, c))
  BY <1>4 DEF SameAccount, Overlap
<1>6. /\ DOMAIN leads' = DOMAIN leads \cup {lead} /\ leads'[lead] = "won"
      /\ \A d \in contracts : leads'[d.lead] = leads[d.lead]
  BY <1>1, <1>2, <1>3, <1>4 DEF Extended
<1>7. \A d \in contracts' : DOMAIN d = ContractFields /\ d.lead \in DOMAIN leads'
  BY <1>1, <1>2, <1>3, <1>6
<1>8. \A d, e \in contracts' : d.lead = e.lead => d = e
  BY <1>2, <1>3, <1>4
<1>9. \A d \in contracts' : leads'[d.lead] = "won"
  BY <1>1, <1>2, <1>3, <1>6
<1>10. \A d, e \in contracts' : d # e => ~(SameAccount(d, e) /\ Overlap(d, e))
  BY <1>2, <1>3, <1>4, <1>5
<1>11. QED BY <1>7, <1>8, <1>9, <1>10 DEF AccountsInv, AccountsAreWonOnce

LEMMA IntentKeeps ==
  ASSUME AccountsInv, NEW c, NEW intent, SetRenewalIntent(c, intent)
  PROVE  AccountsInv'
<1> DEFINE n == [c EXCEPT !.intent = intent]
<1>1. /\ c \in contracts /\ leads' = leads
      /\ contracts' = (contracts \ {c}) \cup {n}
  BY DEF SetRenewalIntent
<1>2. /\ \A d \in contracts : DOMAIN d = ContractFields /\ d.lead \in DOMAIN leads
      /\ \A d, e \in contracts : d.lead = e.lead => d = e
      /\ \A d \in contracts : leads[d.lead] = "won"
      /\ \A d, e \in contracts : d # e => ~(SameAccount(d, e) /\ Overlap(d, e))
  BY DEF AccountsInv, AccountsAreWonOnce
<1>3. /\ DOMAIN n = ContractFields /\ n.lead = c.lead /\ n.from = c.from /\ n.to = c.to
  BY <1>1, <1>2 DEF ContractFields
<1> HIDE DEF n
<1>4. \A d \in contracts \ {c} : /\ ~(SameAccount(n, d) /\ Overlap(n, d))
                                 /\ ~(SameAccount(d, n) /\ Overlap(d, n))
                                 /\ d.lead # n.lead
  BY <1>1, <1>2, <1>3 DEF SameAccount, Overlap
<1>5. \A d \in contracts' : DOMAIN d = ContractFields /\ d.lead \in DOMAIN leads' /\ leads'[d.lead] = "won"
  BY <1>1, <1>2, <1>3
<1>6. \A d, e \in contracts' : d.lead = e.lead => d = e
  BY <1>1, <1>2, <1>4
<1>7. \A d, e \in contracts' : d # e => ~(SameAccount(d, e) /\ Overlap(d, e))
  BY <1>1, <1>2, <1>4
<1>8. QED BY <1>5, <1>6, <1>7 DEF AccountsInv, AccountsAreWonOnce

\* What is owed for points is owed for each of them.
LEMMA WhatPointsCost ==
  \A v, s, n \in Int : v * (s + n) = v * s + n * v
OBVIOUS

LEMMA StayKeeps ==
  ASSUME CommercialInv, NEW guest, NEW stay, RecordCommercialStay(guest, stay)
  PROVE  CommercialInv'
<1> DEFINE after == Earned(guest)
           gain == IF scheme.active THEN PointsPerNight ELSE 0
           owed == scheme.liability + (IF scheme.active THEN PointsPerNight * PointValue ELSE 0)
           burns == Burns(after, guest)
           m == [points |-> MemberFor(guest).points + PointsPerNight,
                 nights |-> MemberFor(guest).nights + 1]
<1>1. /\ DOMAIN scheme = {"active", "liability"} /\ scheme.active \in BOOLEAN
      /\ scheme.liability \in Int /\ Membership(members) /\ SchemeReconciles
      /\ {PointsPerNight, PointValue, BurnAt} \subseteq Nat
  BY CommercialAssumption DEF CommercialInv
<1>2. PointsOf(members) \in Int /\ scheme.liability = PointValue * PointsOf(members)
  BY <1>1, PointsAre DEF SchemeReconciles, PointsOf
<1>3. Membership(after) /\ PointsOf(after) = PointsOf(members) + gain
  <2>1. CASE ~ scheme.active
    BY <1>1, <1>2, <2>1 DEF Earned
  <2>2. CASE scheme.active
    <3>1. after = Extended(members, guest, m)
      BY <2>2 DEF Earned
    <3>2. Member(MemberFor(guest))
      BY <1>1 DEF MemberFor, Member, Membership
    <3>3. Member(m) /\ m.points = MemberFor(guest).points + PointsPerNight
      BY <1>1, <3>2 DEF Member
    <3> HIDE DEF m, after
    <3>4. /\ DOMAIN after = DOMAIN members \cup {guest} /\ after[guest] = m
          /\ \A y \in DOMAIN members : y # guest => after[y] = members[y]
      BY <3>1 DEF Extended
    <3>5. Membership(after)
      <4>1. IsFiniteSet(DOMAIN after)
        BY <1>1, <3>4, FS_AddElement DEF Membership
      <4>2. \A y \in DOMAIN after : Member(after[y])
        BY <1>1, <3>3, <3>4 DEF Membership
      <4>3. QED BY <4>1, <4>2 DEF Membership
    <3>6. CASE guest \in DOMAIN members
      <4>1. DOMAIN after = DOMAIN members
        BY <3>4, <3>6
      <4>2. PointsOf(after) = PointsOf(members) + (after[guest].points - members[guest].points)
        BY <1>1, <3>4, <3>5, <3>6, <4>1, PointsChange
      <4>3. after[guest].points = members[guest].points + PointsPerNight
        BY <3>3, <3>4, <3>6 DEF MemberFor
      <4>4. members[guest].points \in Nat
        BY <1>1, <3>6 DEF Membership, Member
      <4>5. QED BY <1>1, <1>2, <2>2, <3>5, <4>2, <4>3, <4>4
    <3>7. CASE guest \notin DOMAIN members
      <4>1. PointsOf(after) = PointsOf(members) + m.points
        BY <1>1, <3>1, <3>3, <3>7, PointsJoin
      <4>2. m.points = PointsPerNight
        BY <1>1, <3>3, <3>7 DEF MemberFor
      <4>3. QED BY <2>2, <3>5, <4>1, <4>2
    <3>8. QED BY <3>6, <3>7
  <2>3. QED BY <1>1, <2>1, <2>2
<1>4. gain \in Nat /\ owed = scheme.liability + gain * PointValue
  <2>1. 0 * PointValue = 0
    BY <1>1
  <2>2. QED BY <1>1, <2>1
<1>5. /\ members' = IF burns THEN [after EXCEPT ![guest].points = @ - BurnAt] ELSE after
      /\ scheme' = [scheme EXCEPT !.liability = IF burns THEN owed - BurnAt * PointValue ELSE owed]
      /\ contracts' = contracts /\ leads' = leads
  BY DEF RecordCommercialStay
<1>6. burns => guest \in DOMAIN after /\ after[guest].points >= BurnAt
  BY DEF Burns
<1> HIDE DEF after, gain, owed, burns, m
<1>7. owed = PointValue * PointsOf(after) /\ PointsOf(after) \in Int /\ owed \in Int
  <2>1. PointValue * (PointsOf(members) + gain) = PointValue * PointsOf(members) + gain * PointValue
    BY <1>1, <1>2, <1>4, WhatPointsCost
  <2>2. PointsOf(after) \in Int
    BY <1>3, PointsAre
  <2>3. QED BY <1>1, <1>2, <1>3, <1>4, <2>1, <2>2
<1>8. /\ DOMAIN scheme' = {"active", "liability"} /\ scheme'.active = scheme.active
      /\ scheme'.liability = IF burns THEN owed - BurnAt * PointValue ELSE owed
  BY <1>1, <1>5
<1>9. Membership(members') /\ scheme'.liability = PointValue * PointsOf(members')
      /\ scheme'.liability \in Int
  <2>1. CASE ~ burns
    BY <1>3, <1>5, <1>7, <1>8, <2>1
  <2>2. CASE burns
    <3> DEFINE a == after[guest]
               b == [a EXCEPT !.points = @ - BurnAt]
    <3>1. guest \in DOMAIN after /\ a.points >= BurnAt /\ Member(a)
      BY <1>3, <1>6, <2>2 DEF Membership
    <3>2. Member(b) /\ b.points = a.points - BurnAt
      BY <1>1, <3>1 DEF Member
    <3>3. members' = [after EXCEPT ![guest] = b]
      BY <1>5, <2>2
    <3> HIDE DEF b
    <3>4. /\ DOMAIN members' = DOMAIN after /\ members'[guest] = b
          /\ \A h \in DOMAIN after : h # guest => members'[h] = after[h]
      BY <3>1, <3>3
    <3>5. Membership(members')
      BY <1>3, <3>2, <3>4 DEF Membership
    <3>6. PointsOf(members') = PointsOf(after) + (b.points - a.points)
      BY <1>3, <3>1, <3>4, <3>5, PointsChange
    <3>7. a.points \in Nat
      BY <3>1 DEF Member
    <3>8. PointsOf(members') = PointsOf(after) - BurnAt /\ PointsOf(members') \in Int
      BY <1>1, <1>7, <3>2, <3>6, <3>7
    <3>9. PointValue * (PointsOf(members') + BurnAt) =
            PointValue * PointsOf(members') + BurnAt * PointValue
      BY <1>1, <3>8, WhatPointsCost
    <3>10. PointsOf(members') + BurnAt = PointsOf(after)
      BY <1>1, <1>7, <3>8
    <3>11. owed = PointValue * PointsOf(members') + BurnAt * PointValue
      BY <1>7, <3>9, <3>10
    <3>12. PointValue * PointsOf(members') \in Int /\ BurnAt * PointValue \in Int
      BY <1>1, <3>8
    <3>13. scheme'.liability = PointValue * PointsOf(members')
      BY <1>8, <2>2, <3>11, <3>12
    <3>14. QED BY <3>5, <3>12, <3>13
  <2>3. QED BY <2>1, <2>2
<1>10. SchemeReconciles'
  BY <1>9 DEF SchemeReconciles, PointsOf
<1>11. AccountsInv'
  BY <1>5 DEF CommercialInv, AccountsInv, AccountsAreWonOnce
<1>12. QED BY <1>1, <1>8, <1>9, <1>10, <1>11 DEF CommercialInv

LEMMA MonthKeeps ==
  ASSUME CommercialInv, RunCommercialMonth
  PROVE  CommercialInv'
<1>1. /\ DOMAIN scheme = {"active", "liability"} /\ scheme.active \in BOOLEAN
      /\ scheme.liability \in Int /\ Membership(members)
      /\ scheme.liability = PointValue * PointsOf(members) /\ PointValue \in Int
  BY CommercialAssumption DEF CommercialInv, SchemeReconciles, PointsOf
<1>2. /\ members' = AfterBreakage
      /\ scheme' = [scheme EXCEPT !.liability = @ - WrittenOff * PointValue]
      /\ contracts' = contracts /\ leads' = leads
  BY DEF RunCommercialMonth
<1>3. /\ Membership(AfterBreakage) /\ WrittenOff \in Int
      /\ PointsOf(AfterBreakage) + WrittenOff = PointsOf(members)
      /\ PointsOf(AfterBreakage) \in Int
  BY <1>1, PointsWrittenOff, PointsAre
<1> DEFINE s == PointsOf(AfterBreakage)
           n == WrittenOff
<1>4. /\ DOMAIN scheme' = {"active", "liability"} /\ scheme'.active = scheme.active
      /\ scheme'.liability = scheme.liability - n * PointValue
  BY <1>1, <1>2
<1>5. s \in Int /\ n \in Int /\ scheme.liability = PointValue * (s + n)
  BY <1>1, <1>3
<1>6. PointsOf(members') = s /\ Membership(members')
  BY <1>2, <1>3
<1> HIDE DEF s, n
<1>7. PointValue * (s + n) = PointValue * s + n * PointValue
  BY <1>1, <1>5, WhatPointsCost
<1>8. PointValue * s \in Int /\ n * PointValue \in Int
  BY <1>1, <1>5
<1>9. scheme'.liability = PointValue * s /\ scheme'.liability \in Int
  BY <1>4, <1>5, <1>7, <1>8
<1>10. SchemeReconciles'
  BY <1>6, <1>9 DEF SchemeReconciles, PointsOf
<1>11. AccountsInv'
  BY <1>2 DEF CommercialInv, AccountsInv, AccountsAreWonOnce
<1>12. QED BY <1>1, <1>4, <1>6, <1>9, <1>10, <1>11 DEF CommercialInv

LEMMA CommercialBegin == CommercialInit => CommercialInv
<1> SUFFICES ASSUME CommercialInit PROVE CommercialInv
  OBVIOUS
<1>1. /\ leads = <<>> /\ contracts = {} /\ scheme = [active |-> TRUE, liability |-> 0]
      /\ members = <<>>
  BY DEF CommercialInit
<1>2. DOMAIN members = {} /\ IsFiniteSet({})
  BY <1>1, FS_EmptySet
<1>3. Membership(members)
  BY <1>2 DEF Membership
<1>4. PointsOf(members) = 0
  <2> DEFINE w == [g \in DOMAIN members |-> members[g].points]
  <2>1. DOMAIN w = {}
    BY <1>2
  <2> HIDE DEF w
  <2>2. SumFunction(w) = 0
    BY <2>1, SumOfNothing DEF SumFunction
  <2>3. QED BY <2>2 DEF PointsOf, w
<1>5. SchemeReconciles
  <2>1. PointValue * 0 = 0
    BY CommercialAssumption
  <2>2. QED BY <1>1, <1>4, <2>1 DEF SchemeReconciles, PointsOf
<1>6. AccountsInv
  BY <1>1 DEF AccountsInv, AccountsAreWonOnce
<1>7. QED BY <1>1, <1>3, <1>5, <1>6 DEF CommercialInv

LEMMA CommercialStep == CommercialInv /\ [CommercialNext]_commercialVars => CommercialInv'
<1> SUFFICES ASSUME CommercialInv, [CommercialNext]_commercialVars PROVE CommercialInv'
  OBVIOUS
\* What the scheme and its members are does not change with the leads and the accounts.
<1>1. ASSUME AccountsInv', UNCHANGED <<scheme, members>> PROVE CommercialInv'
  BY <1>1 DEF CommercialInv, Membership, SchemeReconciles
<1>2. AccountsInv
  BY DEF CommercialInv
<1>3. ASSUME NEW lead \in Leads, AddLead(lead) PROVE CommercialInv'
  <2>1. /\ lead \notin DOMAIN leads /\ leads' = Extended(leads, lead, "lead")
        /\ UNCHANGED <<contracts, scheme, members>>
    BY <1>3 DEF AddLead
  <2>2. QED BY <1>1, <1>2, <2>1, LeadsMove
<1>4. ASSUME NEW lead \in Leads, NEW stage \in Stages \ {"lead"}, AdvanceLead(lead, stage)
      PROVE  CommercialInv'
  <2>1. /\ leads[lead] # "won" /\ leads' = Extended(leads, lead, stage)
        /\ UNCHANGED <<contracts, scheme, members>>
    BY <1>4 DEF AdvanceLead, MayAdvance
  <2>2. QED BY <1>1, <1>2, <2>1, LeadsMove
<1>5. ASSUME NEW lead \in Leads, NEW from \in Dates, NEW to \in Dates, SignAccount(lead, from, to)
      PROVE  CommercialInv'
  <2>1. UNCHANGED <<scheme, members>>
    BY <1>5 DEF SignAccount
  <2>2. QED BY <1>1, <1>2, <1>5, <2>1, SigningAnAccount
<1>6. ASSUME NEW c \in contracts, NEW intent \in {"renewing", "leaving"},
             SetRenewalIntent(c, intent)
      PROVE  CommercialInv'
  <2>1. UNCHANGED <<scheme, members>>
    BY <1>6 DEF SetRenewalIntent
  <2>2. QED BY <1>1, <1>2, <1>6, <2>1, IntentKeeps
<1>7. ASSUME NEW active \in BOOLEAN, ConfigureLoyalty(active) PROVE CommercialInv'
  <2>1. /\ scheme' = [scheme EXCEPT !.active = active]
        /\ UNCHANGED <<leads, contracts, members>>
    BY <1>7 DEF ConfigureLoyalty
  <2>2. DOMAIN scheme' = {"active", "liability"} /\ scheme'.active \in BOOLEAN
        /\ scheme'.liability = scheme.liability
    BY <2>1 DEF CommercialInv
  <2>3. QED BY <2>1, <2>2 DEF CommercialInv, Membership, SchemeReconciles, AccountsInv,
                              AccountsAreWonOnce
<1>8. ASSUME NEW guest \in Guests, NEW stay \in Stays, RecordCommercialStay(guest, stay)
      PROVE  CommercialInv'
  BY <1>8, StayKeeps
<1>9. ASSUME NEW days \in Durations, LaunchCampaign(dealt, days) PROVE CommercialInv'
  <2>1. UNCHANGED <<leads, contracts, scheme, members>>
    BY <1>9 DEF LaunchCampaign
  <2>2. QED BY <2>1 DEF CommercialInv, Membership, SchemeReconciles, AccountsInv, AccountsAreWonOnce
<1>10. CASE RunCommercialMonth
  BY <1>10, MonthKeeps
<1>11. CASE UNCHANGED commercialVars
  BY <1>11 DEF commercialVars, CommercialInv, Membership, SchemeReconciles, AccountsInv,
               AccountsAreWonOnce
<1>12. QED BY <1>3, <1>4, <1>5, <1>6, <1>7, <1>8, <1>9, <1>10, <1>11 DEF CommercialNext

\* The commercial books (loyalty.ts, salesPipeline.ts): the scheme owes what its members'
\* points would cost, and each account is won once and has one rate on a date.
THEOREM CommercialBooksAgree == CommercialSpec => []CommercialAgrees
<1>1. CommercialInv => CommercialAgrees
  BY DEF CommercialInv, AccountsInv, CommercialAgrees
<1>2. QED BY <1>1, CommercialBegin, CommercialStep, PTL DEF CommercialSpec

-----------------------------------------------------------------------------
(* The price of a room, and the conferences.                               *)

\* A finite set of numbers has a greatest.
LEMMA GreatestNumber ==
  ASSUME NEW S, S \subseteq Int, IsFiniteSet(S), S # {}
  PROVE  \E x \in S : \A y \in S : x >= y
<1> DEFINE P == {T \in SUBSET S : T # {} => \E x \in T : \A y \in T : x >= y}
<1>1. {} \in P
  OBVIOUS
<1>2. \A T \in SUBSET S, z \in S : T \in P /\ z \notin T => T \cup {z} \in P
  <2>1. SUFFICES ASSUME NEW T \in SUBSET S, NEW z \in S,
                        T # {} => \E x \in T : \A y \in T : x >= y
                 PROVE  \E x \in T \cup {z} : \A y \in T \cup {z} : x >= y
    OBVIOUS
  <2>2. CASE T = {}
    BY <2>2
  <2>3. CASE T # {}
    <3>1. PICK x \in T : \A y \in T : x >= y
      BY <2>1, <2>3
    <3>2. CASE x >= z
      BY <3>1, <3>2
    <3>3. CASE z >= x
      BY <3>1, <3>3
    <3>4. QED BY <3>2, <3>3
  <2>4. QED BY <2>2, <2>3
<1>3. S \in P
  <2> HIDE DEF P
  <2>1. QED BY <1>1, <1>2, SubsetInduction
<1>4. QED BY <1>3

LEMMA GreatestRate == Max(Rates) \in Rates
<1>1. \E x \in Rates : \A y \in Rates : x >= y
  BY GreatestNumber, SellingAssumption
<1>2. QED BY <1>1 DEF Max

\* A sale of a number of nights.
SaleFields ==
  {"id", "kind", "from", "nights", "rate", "channel", "willing", "base", "bound", "least"}

Sale(s) ==
  /\ DOMAIN s = SaleFields
  /\ s.id \in 1 .. enquiries
  /\ s.from \in Nat /\ s.nights \in Nat

\* The sales, each its own.
SalesInv ==
  /\ \A s \in sales : Sale(s)
  /\ \A s, t \in sales : s.id = t.id => s = t

PlanFields == [modifier : 0 .. BasisPoints, closed : BOOLEAN, minimum : Nat, maximum : Nat,
               advance : Nat, floor : Nat, ceiling : Nat, closedTo : SUBSET Channels]

PolicyFields == [authority : 0 .. BasisPoints, strategy : 0 .. 2 * PlainStrategy,
                 rules : Seq(RevenueRules), floor : Nat, ceiling : Nat, costLimit : Nat]

\* The player's terms, as they have been accepted.
TermsInv ==
  /\ price \in Nat \ {0}
  /\ policy \in PolicyFields /\ plan \in PlanFields

\* The bills: nobody's before the enquiry, and one when it is over.
BillsInv ==
  /\ saleDay \in Nat /\ enquiries \in Nat /\ enquiries <= MaxEnquiries
  /\ billed \in [1 .. MaxEnquiries -> Nat]
  /\ \A n \in 1 .. MaxEnquiries : n > enquiries => billed[n] = 0

SellingInv ==
  /\ SalesInv /\ TermsInv /\ BillsInv
  /\ halted \in BOOLEAN
  /\ ManagerKeepsToAuthority /\ ConferenceBilledOnce /\ HaltsOnlyWithoutAChannel

\* A sale more.
LEMMA SaleComes ==
  ASSUME SalesInv, NEW s, enquiries \in Nat,
         DOMAIN s = SaleFields, s.id = enquiries + 1, s.from \in Nat, s.nights \in Nat,
         sales' = sales \cup {s}, enquiries' = enquiries + 1
  PROVE  SalesInv'
<1>1. \A t \in sales : t.id \in 1 .. enquiries
  BY DEF SalesInv, Sale
<1>2. \A t \in sales' : Sale(t)'
  BY DEF SalesInv, Sale
<1>3. \A t, u \in sales' : t.id = u.id => t = u
  BY <1>1 DEF SalesInv
<1>4. QED BY <1>2, <1>3 DEF SalesInv

-----------------------------------------------------------------------------
(* The price. *)

LEMMA Quotients ==
  /\ \A n \in Int, d \in Nat \ {0} : n \div d \in Int /\ d * (n \div d) <= n
  /\ \A r \in Nat, d \in Nat \ {0}, h \in Nat : h < d => (r * d + h) \div d = r
  /\ \A d \in Nat \ {0} : d \div 2 < d /\ d \div 2 \in Nat
<1>1. \A n \in Int, d \in Nat \ {0} : n \div d \in Int /\ d * (n \div d) <= n
  OBVIOUS
<1>2. \A r \in Nat, d \in Nat \ {0}, h \in Nat : h < d => (r * d + h) \div d = r
  OBVIOUS
<1>3. \A d \in Nat \ {0} : d \div 2 < d /\ d \div 2 \in Nat
  OBVIOUS
<1>4. QED BY <1>1, <1>2, <1>3

LEMMA Products ==
  /\ \A a, b \in Int : a * b \in Int /\ a * b = b * a
  /\ \A a, b \in Int, c \in Nat : a <= b => a * c <= b * c
  /\ \A a, b \in Nat : a * b \in Nat
  /\ \A a \in Nat \ {0}, b \in Nat : b <= a * b
<1>1. \A a, b \in Int : a * b \in Int /\ a * b = b * a
  OBVIOUS
<1>2. \A a, b \in Int, c \in Nat : a <= b => a * c <= b * c
  OBVIOUS
<1>3. \A a, b \in Nat : a * b \in Nat
  OBVIOUS
<1>4. \A a \in Nat \ {0}, b \in Nat : b <= a * b
  OBVIOUS
<1>5. QED BY <1>1, <1>2, <1>3, <1>4

\* Dividing what is at least divided what is.
LEMMA QuotientsCompare ==
  \A m, n \in Int, d \in Nat \ {0} : m <= n => m \div d <= n \div d
OBVIOUS

\* What is asked for is a change, and at most one.
LEMMA AskedIs ==
  ASSUME TermsInv, NEW measure \in Measures, NEW lead \in Nat, ChangeAsked(measure, lead) # {}
  PROVE  Max(ChangeAsked(measure, lead)) \in Int
<1> DEFINE metrics == [occupancy |-> measure.occupancy, leadTime |-> lead,
                       forecast |-> measure.forecast]
           reached == {i \in DOMAIN policy.rules :
                         metrics[policy.rules[i].metric] >= policy.rules[i].from}
           firsts == {j \in reached : \A k \in reached : j <= k}
           asked == {policy.rules[i].change : i \in firsts}
<1>1. ChangeAsked(measure, lead) = asked
  BY DEF ChangeAsked
<1>2. policy.rules \in Seq(RevenueRules)
  BY DEF TermsInv, PolicyFields
<1>3. \A i \in DOMAIN policy.rules : i \in Int /\ policy.rules[i].change \in Int
  <2> DEFINE rules == policy.rules
  <2>1. rules \in Seq(RevenueRules)
    BY <1>2
  <2> HIDE DEF rules
  <2>2. DOMAIN rules = 1 .. Len(rules) /\ Len(rules) \in Nat
    BY <2>1, LenProperties
  <2>3. \A i \in DOMAIN rules : i \in Int /\ rules[i] \in RevenueRules
    BY <2>1, <2>2, ElementOfSeq
  <2>4. \A r \in RevenueRules : r.change \in Int
    BY DEF RevenueRules
  <2>5. QED BY <2>3, <2>4 DEF rules
<1>4. \A i, j \in firsts : i = j
  BY <1>3
<1> HIDE DEF firsts
<1>5. firsts \subseteq DOMAIN policy.rules
  BY DEF firsts
<1>6. PICK i \in firsts : TRUE
  BY <1>1
<1>7. asked = {policy.rules[i].change}
  BY <1>4, <1>6
<1>8. \E x \in asked : \A y \in asked : x >= y
  <2> DEFINE c == policy.rules[i].change
  <2>1. c \in Int /\ asked = {c}
    BY <1>3, <1>5, <1>6, <1>7
  <2> HIDE DEF c, asked
  <2>2. c >= c
    BY <2>1
  <2>3. QED BY <2>1, <2>2
<1>9. Max(asked) \in asked
  <2> HIDE DEF asked
  <2>1. QED BY <1>8 DEF Max
<1>10. QED BY <1>1, <1>3, <1>5, <1>6, <1>7, <1>9

LEMMA AuthorityIs == TermsInv => Authority \in 0 .. BasisPoints
<1> SUFFICES ASSUME TermsInv PROVE Authority \in 0 .. BasisPoints
  OBVIOUS
<1> DEFINE n == policy.authority * policy.strategy
           q == n \div PlainStrategy
<1>1. /\ BasisPoints \in Nat /\ PlainStrategy \in Nat \ {0}
      /\ policy.authority \in Nat /\ policy.strategy \in Nat
  BY SellingAssumption DEF TermsInv, PolicyFields
<1>2. n \in Nat
  BY <1>1, Products
<1> HIDE DEF n
<1>3. q \in Nat
  BY <1>1, <1>2
<1> HIDE DEF q
<1>4. Authority = Lesser(BasisPoints, q)
  BY DEF Authority, q, n
<1>5. QED BY <1>1, <1>3, <1>4 DEF Lesser

\* What the manager decides stays within the authority.
LEMMA DecidedWithin ==
  ASSUME TermsInv, NEW asked, asked # {} => Max(asked) \in Int
  PROVE  LET d == Automatic(price, asked)
         IN  d \in Int /\ d * BasisPoints <= price * (BasisPoints + Authority)
<1> DEFINE B == BasisPoints
           p == price
           a == Authority
           c == IF asked = {} THEN 0 ELSE Between(-a, a, Max(asked))
           q == (p * (B + c)) \div B
           d == Automatic(p, asked)
<1>1. B \in Nat \ {0} /\ p \in Nat \ {0} /\ a \in Nat
  BY AuthorityIs, SellingAssumption DEF TermsInv, PolicyFields
<1>2. c \in Int /\ c <= a
  BY <1>1 DEF Between, Larger, Lesser
<1>3. d = p \/ d = Larger(1, q)
  BY DEF Automatic, Changed
<1> HIDE DEF B, p, a, c, d
<1>4. p * B <= p * (B + a) /\ B <= p * (B + a) /\ p * (B + c) <= p * (B + a)
  <2>1. B <= B + a /\ B + c <= B + a /\ B + a \in Nat /\ B + c \in Int /\ p \in Nat
    BY <1>1, <1>2
  <2>2. B * p <= (B + a) * p /\ (B + c) * p <= (B + a) * p
    BY <1>1, <2>1, Products
  <2>3. B + a <= p * (B + a)
    BY <1>1, <2>1, Products
  <2>4. /\ p * B = B * p /\ p * (B + a) = (B + a) * p /\ p * (B + c) = (B + c) * p
        /\ p * (B + a) \in Int
    BY <1>1, <2>1, Products
  <2>5. QED BY <1>1, <2>1, <2>2, <2>3, <2>4
<1>5. q \in Int /\ q * B <= p * (B + a)
  <2>1. p * (B + c) \in Int /\ p * (B + a) \in Int
    BY <1>1, <1>2, Products
  <2>2. q \in Int /\ B * q <= p * (B + c)
    BY <1>1, <2>1, Quotients
  <2> HIDE DEF q
  <2>3. B * q = q * B /\ q * B \in Int
    BY <1>1, <2>2, Products
  <2>4. QED BY <1>4, <2>1, <2>2, <2>3
<1> HIDE DEF q
<1>6. d \in Int /\ d * B <= p * (B + a)
  <2>1. 1 * B = B
    BY <1>1
  <2>2. CASE d = p
    BY <1>1, <1>4, <2>2
  <2>3. CASE d = 1
    BY <1>4, <2>1, <2>3
  <2>4. CASE d = q
    BY <1>5, <2>4
  <2>5. QED BY <1>3, <2>2, <2>3, <2>4 DEF Larger
<1>7. QED BY <1>6 DEF d, B, p, a

\* A part of a rate, rounded, is no more than the rate.
LEMMA PartsAre ==
  ASSUME NEW r \in Nat, NEW m \in Int, m <= BasisPoints
  PROVE  PartOf(r, m) \in Int /\ PartOf(r, m) <= r
<1> DEFINE B == BasisPoints
           h == B \div 2
           q == (r * m + h) \div B
<1>1. B \in Nat \ {0}
  BY SellingAssumption
<1>2. PartOf(r, m) = q
  BY DEF PartOf
<1>3. h \in Nat /\ h < B
  BY <1>1, Quotients
<1>4. m <= B
  OBVIOUS
<1> HIDE DEF B, h
<1>5. r * m \in Int /\ r * B \in Int
  BY <1>1, Products
<1>6. q \in Int
  BY <1>1, <1>3, <1>5, Quotients
<1>7. m * r <= B * r
  BY <1>1, <1>4, Products
<1>8. m * r = r * m /\ B * r = r * B
  BY <1>1, Products
<1>9. r * m + h <= r * B + h /\ r * m + h \in Int /\ r * B + h \in Int
  BY <1>3, <1>5, <1>7, <1>8
<1>10. q <= (r * B + h) \div B
  BY <1>1, <1>9, QuotientsCompare
<1>11. (r * B + h) \div B = r
  BY <1>1, <1>3, Quotients
<1>12. QED BY <1>2, <1>6, <1>10, <1>11

\* A plan lists no more than it was given, but for its floor.
LEMMA ListedWithin ==
  ASSUME TermsInv, NEW r \in Nat
  PROVE  PlanRate(r) \in Nat /\ PlanRate(r) <= Larger(plan.floor, r)
<1>1. /\ plan.modifier \in Int /\ plan.modifier <= BasisPoints /\ plan.floor \in Nat
      /\ plan.ceiling \in Nat
  BY SellingAssumption DEF TermsInv, PlanFields
<1>2. PartOf(r, plan.modifier) \in Int /\ PartOf(r, plan.modifier) <= r
  BY <1>1, PartsAre
<1>3. QED BY <1>1, <1>2 DEF PlanRate, Between, Larger, Lesser

\* An account pays no more than what is listed.
LEMMA AccountsPayLess ==
  ASSUME NEW r \in Nat
  PROVE  AccountPays(r) \in Int /\ AccountPays(r) <= r
<1>1. CASE r = 0
  BY <1>1 DEF AccountPays
<1>2. CASE r # 0
  <2> DEFINE n == (r - AccountRate) * BasisPoints
             k == n \div r
             m == BasisPoints - Larger(0, k)
  <2>1. BasisPoints \in Nat /\ AccountRate \in Nat
    BY SellingAssumption
  <2>2. n \in Int
    BY <2>1, Products
  <2> HIDE DEF n
  <2>3. k \in Int
    BY <1>2, <2>2
  <2> HIDE DEF k
  <2>4. m \in Int /\ m <= BasisPoints
    BY <2>1, <2>3 DEF Larger
  <2>5. AccountPays(r) = PartOf(r, m)
    BY <1>2 DEF AccountPays, n, k
  <2> HIDE DEF m
  <2>6. QED BY <2>4, <2>5, PartsAre
<1>3. QED BY <1>1, <1>2

\* What a guest is asked for.
LEMMA QuoteWithin ==
  ASSUME TermsInv, NEW segment, NEW lead \in Nat, NEW measure \in Measures
  PROVE  LET r == Quote(segment, lead, measure)
             least == Larger(policy.floor, plan.floor)
         IN  r * BasisPoints <= Larger(price * (BasisPoints + Authority), least * BasisPoints)
<1> DEFINE B == BasisPoints
           d == Automatic(price, ChangeAsked(measure, lead))
           b == Between(policy.floor, policy.ceiling, d)
           l == PlanRate(b)
           r == Quote(segment, lead, measure)
           least == Larger(policy.floor, plan.floor)
           most == price * (B + Authority)
<1>1. /\ B \in Nat \ {0} /\ price \in Nat /\ Authority \in Nat
      /\ policy.floor \in Nat /\ policy.ceiling \in Nat /\ plan.floor \in Nat
  <2>1. Authority \in 0 .. B /\ B \in Nat \ {0}
    BY AuthorityIs, SellingAssumption
  <2>2. price \in Nat /\ policy.floor \in Nat /\ policy.ceiling \in Nat /\ plan.floor \in Nat
    BY SellingAssumption DEF TermsInv, PlanFields, PolicyFields
  <2> HIDE DEF B
  <2>3. QED BY <2>1, <2>2
<1>2. d \in Int /\ d * B <= most
  BY AskedIs, DecidedWithin
<1>3. r = IF segment \in Corporate THEN AccountPays(l) ELSE l
  BY DEF Quote
<1>4. most \in Int
  BY <1>1, Products
<1> HIDE DEF B, d, r, most
<1>5. b \in Nat /\ b <= Larger(policy.floor, d)
  BY <1>1, <1>2 DEF Between, Larger, Lesser
<1> HIDE DEF b
<1>6. l \in Nat /\ l <= Larger(plan.floor, b)
  BY <1>5, ListedWithin
<1> HIDE DEF l
<1>7. r \in Int /\ r <= l
  BY <1>3, <1>6, AccountsPayLess
<1>8. least \in Nat /\ policy.floor <= least /\ plan.floor <= least
  BY <1>1 DEF Larger
<1> HIDE DEF least
<1>9. r <= Larger(least, d)
  BY <1>1, <1>2, <1>5, <1>6, <1>7, <1>8 DEF Larger
<1>10. r * B <= least * B \/ r * B <= d * B
  <2>1. CASE r <= least
    BY <1>1, <1>7, <1>8, <2>1, Products
  <2>2. CASE r <= d
    BY <1>1, <1>2, <1>7, <2>2, Products
  <2>3. QED BY <1>9, <2>1, <2>2 DEF Larger
<1>11. r * B \in Int /\ d * B \in Int /\ least * B \in Int
  BY <1>1, <1>2, <1>7, <1>8, Products
<1>12. r * B <= Larger(most, least * B)
  BY <1>2, <1>4, <1>10, <1>11 DEF Larger
<1>13. QED BY <1>12 DEF r, B, least, most

-----------------------------------------------------------------------------
(* The actions. *)

\* What the sale of a guest is held to.
WithinAuthority(s) ==
  /\ s.rate <= s.willing
  /\ s.rate * BasisPoints <= Larger(s.base * (BasisPoints + s.bound), s.least * BasisPoints)

LEMMA EnquiryCounts ==
  ASSUME BillsInv, enquiries < MaxEnquiries, enquiries' = enquiries + 1,
         UNCHANGED <<saleDay, billed>>
  PROVE  BillsInv' /\ enquiries + 1 \in 1 .. MaxEnquiries /\ billed[enquiries + 1] = 0
<1>1. /\ saleDay \in Nat /\ enquiries \in Nat /\ enquiries <= MaxEnquiries
      /\ MaxEnquiries \in Nat /\ billed \in [1 .. MaxEnquiries -> Nat]
      /\ \A n \in 1 .. MaxEnquiries : n > enquiries => billed[n] = 0
  BY SellingAssumption DEF BillsInv
<1>2. enquiries + 1 \in 1 .. MaxEnquiries /\ enquiries + 1 > enquiries
  BY <1>1
<1>3. \A n \in 1 .. MaxEnquiries : n > enquiries + 1 => billed[n] = 0
  BY <1>1
<1>4. QED BY <1>1, <1>2, <1>3 DEF BillsInv

LEMMA SaleKeeps ==
  ASSUME SellingInv, NEW s,
         DOMAIN s = SaleFields, s.id = enquiries + 1, s.from \in Nat, s.nights \in Nat,
         s.kind = "conference" => saleDay < s.from + s.nights,
         s.kind = "guest" => WithinAuthority(s),
         sales' = sales \cup {s}, enquiries < MaxEnquiries, enquiries' = enquiries + 1,
         UNCHANGED <<saleDay, price, policy, plan, shut, online, billed, halted>>
  PROVE  SellingInv'
<1>1. SalesInv /\ TermsInv /\ BillsInv /\ ConferenceBilledOnce /\ ManagerKeepsToAuthority
      /\ HaltsOnlyWithoutAChannel /\ halted \in BOOLEAN
  BY DEF SellingInv
<1>2. BillsInv' /\ enquiries + 1 \in 1 .. MaxEnquiries /\ billed[enquiries + 1] = 0
  BY <1>1, EnquiryCounts
<1>3. SalesInv'
  BY <1>1, SaleComes DEF BillsInv
<1>4. TermsInv' /\ HaltsOnlyWithoutAChannel' /\ halted' \in BOOLEAN
  BY <1>1 DEF TermsInv, HaltsOnlyWithoutAChannel, Offering
<1>5. ManagerKeepsToAuthority'
  BY <1>1 DEF ManagerKeepsToAuthority, WithinAuthority
<1>6. ConferenceBilledOnce'
  <2>1. SUFFICES ASSUME NEW n \in 1 .. (enquiries + 1)
                 PROVE  /\ billed[n] <= 1
                        /\ billed[n] = 1 => ~\E t \in sales' : t.id = n
                        /\ \A t \in sales' : t.id = n /\ t.kind = "conference" =>
                             saleDay < t.from + t.nights
    BY DEF ConferenceBilledOnce
  <2>2. CASE n = enquiries + 1
    <3>1. \A t \in sales : t.id # n
      BY <1>1, <2>2 DEF SalesInv, Sale, BillsInv
    <3>2. billed[n] = 0
      BY <1>2, <2>2
    <3>3. QED BY <3>1, <3>2
  <2>3. CASE n # enquiries + 1
    <3>1. n \in 1 .. enquiries /\ s.id # n
      BY <1>1, <2>3 DEF BillsInv
    <3>2. QED BY <1>1, <3>1 DEF ConferenceBilledOnce
  <2>4. QED BY <2>2, <2>3
<1>7. QED BY <1>2, <1>3, <1>4, <1>5, <1>6 DEF SellingInv

\* An enquiry that comes to nothing.
LEMMA NoSaleKeeps ==
  ASSUME SellingInv, sales' = sales, enquiries < MaxEnquiries, enquiries' = enquiries + 1,
         halted' = halted \/ (halted' = TRUE /\ ("walkIn" \in shut \/ Offering \subseteq {"walkIn"})),
         UNCHANGED <<saleDay, price, policy, plan, shut, online, billed>>
  PROVE  SellingInv'
<1>1. SalesInv /\ TermsInv /\ BillsInv /\ ConferenceBilledOnce /\ ManagerKeepsToAuthority
      /\ HaltsOnlyWithoutAChannel /\ halted \in BOOLEAN
  BY DEF SellingInv
<1>2. BillsInv' /\ enquiries + 1 \in 1 .. MaxEnquiries /\ billed[enquiries + 1] = 0
  BY <1>1, EnquiryCounts
<1>3. \A t \in sales : t.id \in 1 .. enquiries
  BY <1>1 DEF SalesInv, Sale
<1>4. SalesInv'
  <2>1. \A t \in sales : Sale(t)'
    BY <1>1 DEF SalesInv, Sale, BillsInv
  <2>2. QED BY <1>1, <2>1 DEF SalesInv
<1>5. TermsInv' /\ ManagerKeepsToAuthority' /\ halted' \in BOOLEAN
  BY <1>1 DEF TermsInv, ManagerKeepsToAuthority
<1>6. HaltsOnlyWithoutAChannel'
  <2>1. Offering' = Offering /\ shut' = shut
    BY DEF Offering
  <2>2. halted => "walkIn" \in shut \/ Offering \subseteq {"walkIn"}
    BY <1>1 DEF HaltsOnlyWithoutAChannel
  <2>3. QED BY <2>1, <2>2 DEF HaltsOnlyWithoutAChannel
<1>7. ConferenceBilledOnce'
  <2>1. SUFFICES ASSUME NEW n \in 1 .. (enquiries + 1)
                 PROVE  /\ billed[n] <= 1
                        /\ billed[n] = 1 => ~\E t \in sales : t.id = n
                        /\ \A t \in sales : t.id = n /\ t.kind = "conference" =>
                             saleDay < t.from + t.nights
    BY DEF ConferenceBilledOnce
  <2>2. CASE n = enquiries + 1
    <3>1. \A t \in sales : t.id # n
      BY <1>1, <1>3, <2>2 DEF BillsInv
    <3>2. billed[n] = 0
      BY <1>2, <2>2
    <3>3. QED BY <3>1, <3>2
  <2>3. CASE n # enquiries + 1
    <3>1. n \in 1 .. enquiries
      BY <1>1, <2>3 DEF BillsInv
    <3>2. QED BY <1>1, <3>1 DEF ConferenceBilledOnce
  <2>4. QED BY <2>2, <2>3
<1>8. QED BY <1>2, <1>4, <1>5, <1>6, <1>7 DEF SellingInv

\* What books: the fields of a guest's booking.
LEMMA BookedIs ==
  ASSUME SellingInv, NEW segment, segment.nights \in Nat, NEW lead \in Nat, NEW channel, NEW rate
  PROVE  LET s == Booked(segment, lead, channel, rate)
         IN  /\ DOMAIN s = SaleFields /\ s.id = enquiries + 1 /\ s.kind = "guest"
             /\ s.from = saleDay + lead /\ s.from \in Nat /\ s.nights = segment.nights
             /\ s.rate = rate /\ s.willing = segment.willing /\ s.base = price
             /\ s.bound = Authority /\ s.least = Larger(policy.floor, plan.floor)
<1>1. saleDay + lead \in Nat
  BY DEF SellingInv, BillsInv
<1>2. QED BY <1>1 DEF Booked, SaleFields

LEMMA EnquireKeeps ==
  ASSUME SellingInv, NEW segment \in Segments, NEW lead \in LeadDays, NEW drawn,
         NEW measure \in Measures, NEW vacant \in BOOLEAN, NEW fits \in BOOLEAN,
         Enquire(segment, lead, drawn, measure, vacant, fits)
  PROVE  SellingInv'
<1> DEFINE rate == Quote(segment, lead, measure)
           s == Booked(segment, lead, drawn, rate)
           ahead == Offering \ {"walkIn"}
           stops == (lead = 0 /\ "walkIn" \notin Offering) \/ (lead # 0 /\ ahead = {})
           booked == PlanAdmits(segment.nights, lead, drawn) /\ rate <= segment.willing /\ fits
<1>1. /\ ~halted /\ enquiries < MaxEnquiries /\ enquiries' = enquiries + 1
      /\ UNCHANGED <<saleDay, price, policy, plan, shut, online, billed, settings>>
  BY DEF Enquire, Enquiring
<1>2. \/ sales' = sales /\ halted' = halted
      \/ stops /\ sales' = sales /\ halted' = TRUE
      \/ booked /\ sales' = sales \cup {s} /\ halted' = halted
  BY DEF Enquire
<1>3. lead \in Nat /\ segment.nights \in Nat
  BY SellingAssumption
<1>4. CASE sales' = sales /\ halted' = halted
  BY <1>1, <1>4, NoSaleKeeps
<1>5. CASE stops /\ sales' = sales /\ halted' = TRUE
  <2>1. "walkIn" \in shut \/ Offering \subseteq {"walkIn"}
    <3>1. CASE lead # 0 /\ ahead = {}
      BY <3>1
    <3>2. CASE "walkIn" \notin Offering
      <4>1. "walkIn" \in Channels /\ "walkIn" \notin Technical /\ Commission["walkIn"] = 0
        BY SellingAssumption
      <4>2. policy.costLimit \in Nat
        BY DEF SellingInv, TermsInv, PolicyFields
      <4>3. Commission["walkIn"] <= policy.costLimit
        BY <4>1, <4>2
      <4>4. QED BY <3>2, <4>1, <4>3 DEF Offering
    <3>3. QED BY <1>5, <3>1, <3>2
  <2>2. QED BY <1>1, <1>5, <2>1, NoSaleKeeps
<1>6. CASE booked /\ sales' = sales \cup {s} /\ halted' = halted
  <2>1. /\ DOMAIN s = SaleFields /\ s.id = enquiries + 1 /\ s.kind = "guest"
        /\ s.from = saleDay + lead /\ s.from \in Nat /\ s.nights = segment.nights
        /\ s.rate = rate /\ s.willing = segment.willing /\ s.base = price
        /\ s.bound = Authority /\ s.least = Larger(policy.floor, plan.floor)
    BY <1>3, BookedIs
  <2>2. rate <= segment.willing
    BY <1>6
  <2>3. rate * BasisPoints <= Larger(price * (BasisPoints + Authority),
                                     Larger(policy.floor, plan.floor) * BasisPoints)
    BY <1>3, QuoteWithin DEF SellingInv
  <2> HIDE DEF s, rate
  <2>4. WithinAuthority(s)
    BY <2>1, <2>2, <2>3 DEF WithinAuthority
  <2>5. s.nights \in Nat /\ s.kind # "conference"
    BY <1>3, <2>1
  <2>6. QED BY <1>1, <1>6, <2>1, <2>4, <2>5, SaleKeeps
<1>7. QED BY <1>2, <1>4, <1>5, <1>6

LEMMA AccountKeeps ==
  ASSUME SellingInv, NEW segment \in Corporate, AccountSends(segment)
  PROVE  SellingInv'
<1> DEFINE b == Booked(segment, 1, "corporate", AccountRate)
           s == [b EXCEPT !.kind = "account", !.nights = 1, !.willing = AccountRate]
<1>1. /\ enquiries < MaxEnquiries /\ enquiries' = enquiries + 1 /\ halted' = halted
      /\ UNCHANGED <<saleDay, price, policy, plan, shut, online, billed>>
      /\ sales' = sales \cup {s}
  BY DEF AccountSends, Enquiring
<1>2. segment.nights \in Nat /\ 1 \in Nat
  BY SellingAssumption
<1>3. DOMAIN b = SaleFields /\ b.id = enquiries + 1 /\ b.from \in Nat
  BY <1>2, BookedIs
<1> HIDE DEF b
<1>4. /\ DOMAIN s = SaleFields /\ s.id = enquiries + 1
      /\ s.from \in Nat /\ s.nights = 1 /\ s.kind = "account"
  BY <1>3 DEF SaleFields
<1> HIDE DEF s
<1>5. s.nights \in Nat /\ s.kind # "conference" /\ s.kind # "guest"
  BY <1>4
<1>6. QED BY <1>1, <1>4, <1>5, SaleKeeps

LEMMA ConferenceKeeps ==
  ASSUME SellingInv, NEW value, NEW lead \in LeadDays \ {0}, NEW nights \in 1 .. 2,
         BookConference(value, lead, nights)
  PROVE  SellingInv'
<1> DEFINE s == [id |-> enquiries + 1, kind |-> "conference", from |-> saleDay + lead,
                 nights |-> nights, rate |-> value,
                 channel |-> "conference", willing |-> value, base |-> value, bound |-> 0,
                 least |-> 0]
<1>1. /\ enquiries < MaxEnquiries /\ enquiries' = enquiries + 1 /\ halted' = halted
      /\ UNCHANGED <<saleDay, price, policy, plan, shut, online, billed>>
      /\ sales' = sales \cup {s}
  BY DEF BookConference, Enquiring
<1>2. saleDay \in Nat /\ lead \in Nat
  BY SellingAssumption DEF SellingInv, BillsInv
<1>3. /\ DOMAIN s = SaleFields /\ s.id = enquiries + 1 /\ s.from = saleDay + lead
      /\ s.nights = nights /\ s.kind = "conference"
  BY DEF SaleFields
<1> HIDE DEF s
<1>4. /\ s.from \in Nat /\ s.nights \in Nat
      /\ saleDay < s.from + s.nights /\ s.kind # "guest"
  BY <1>2, <1>3
<1>5. QED BY <1>1, <1>3, <1>4, SaleKeeps

LEMMA NextSaleDayKeeps ==
  ASSUME SellingInv, NextSaleDay
  PROVE  SellingInv'
<1> DEFINE over == {s \in sales : s.kind = "conference" /\ s.from + s.nights <= saleDay + 1}
<1>1. /\ ~halted /\ saleDay' = saleDay + 1 /\ sales' = sales \ over
      /\ billed' = [n \in DOMAIN billed |-> billed[n] + IF \E s \in over : s.id = n THEN 1 ELSE 0]
      /\ UNCHANGED <<price, policy, plan, shut, online, halted, enquiries>>
  BY DEF NextSaleDay
<1>2. SalesInv /\ TermsInv /\ BillsInv /\ ConferenceBilledOnce /\ ManagerKeepsToAuthority
      /\ halted \in BOOLEAN
  BY DEF SellingInv
<1>3. /\ \A s \in over : s.kind = "conference" /\ s \in sales /\ s.from + s.nights <= saleDay + 1
      /\ \A s \in sales \ over : s.kind = "conference" => ~(s.from + s.nights <= saleDay + 1)
  OBVIOUS
<1> HIDE DEF over
<1>4. SalesInv'
  BY <1>1, <1>2 DEF SalesInv, Sale
<1>5. TermsInv' /\ ManagerKeepsToAuthority' /\ halted' \in BOOLEAN /\ HaltsOnlyWithoutAChannel'
  BY <1>1, <1>2 DEF TermsInv, ManagerKeepsToAuthority, HaltsOnlyWithoutAChannel
<1>6. /\ saleDay \in Nat /\ enquiries \in Nat /\ enquiries <= MaxEnquiries
      /\ billed \in [1 .. MaxEnquiries -> Nat] /\ MaxEnquiries \in Nat
      /\ \A n \in 1 .. MaxEnquiries : n > enquiries => billed[n] = 0
  BY <1>2, SellingAssumption DEF BillsInv
<1>7. \A n \in 1 .. MaxEnquiries :
        billed'[n] = billed[n] + IF \E s \in over : s.id = n THEN 1 ELSE 0
  BY <1>1, <1>6
<1>8. /\ \A s \in sales : s.id \in 1 .. enquiries /\ s.from \in Nat /\ s.nights \in Nat
      /\ \A s, t \in sales : s.id = t.id => s = t
  BY <1>2 DEF SalesInv, Sale
<1>9. BillsInv'
  <2>1. \A n \in 1 .. MaxEnquiries : n > enquiries => ~\E s \in over : s.id = n
    BY <1>3, <1>6, <1>8
  <2>2. \A n \in 1 .. MaxEnquiries : n > enquiries => billed'[n] = 0
    BY <1>6, <1>7, <2>1
  <2>3. billed' \in [1 .. MaxEnquiries -> Nat]
    BY <1>1, <1>6
  <2>4. QED BY <1>1, <1>6, <2>2, <2>3 DEF BillsInv
<1>10. ConferenceBilledOnce'
  <2>1. SUFFICES ASSUME NEW n \in 1 .. enquiries
                 PROVE  /\ billed'[n] <= 1
                        /\ billed'[n] = 1 => ~\E s \in sales' : s.id = n
                        /\ \A s \in sales' : s.id = n /\ s.kind = "conference" =>
                             saleDay' < s.from + s.nights
    BY <1>1 DEF ConferenceBilledOnce
  <2>2. n \in 1 .. MaxEnquiries /\ billed[n] \in Nat
    BY <1>6
  <2>3. billed[n] <= 1 /\ (billed[n] = 1 => ~\E s \in sales : s.id = n)
    BY <1>2 DEF ConferenceBilledOnce
  <2>4. CASE \E s \in over : s.id = n
    <3>1. billed[n] = 0
      BY <1>3, <2>2, <2>3, <2>4
    <3>2. billed'[n] = 1
      BY <1>7, <2>2, <2>4, <3>1
    <3>3. ~\E s \in sales' : s.id = n
      BY <1>1, <1>3, <1>8, <2>4
    <3>4. QED BY <3>2, <3>3
  <2>5. CASE ~\E s \in over : s.id = n
    <3>1. billed'[n] = billed[n]
      BY <1>7, <2>2, <2>5
    <3>2. \A s \in sales' : s.kind = "conference" => saleDay' < s.from + s.nights
      BY <1>1, <1>3, <1>6, <1>8
    <3>3. QED BY <1>1, <2>3, <3>1, <3>2
  <2>6. QED BY <2>4, <2>5
<1>11. QED BY <1>4, <1>5, <1>9, <1>10 DEF SellingInv

LEMMA SettingKeeps ==
  ASSUME SellingInv, Setting, TermsInv'
  PROVE  SellingInv'
<1>1. ~halted /\ UNCHANGED <<saleDay, sales, halted, billed, enquiries>>
  BY DEF Setting
<1>2. SalesInv' /\ BillsInv' /\ ManagerKeepsToAuthority' /\ ConferenceBilledOnce'
  BY <1>1 DEF SellingInv, SalesInv, Sale, BillsInv, ManagerKeepsToAuthority, ConferenceBilledOnce
<1>3. halted' \in BOOLEAN /\ HaltsOnlyWithoutAChannel'
  BY <1>1 DEF SellingInv, HaltsOnlyWithoutAChannel
<1>4. QED BY <1>2, <1>3 DEF SellingInv

LEMMA SellingBegin == SellingInit => SellingInv
<1> SUFFICES ASSUME SellingInit PROVE SellingInv
  OBVIOUS
<1>1. /\ saleDay = 0 /\ price = Max(Rates) /\ policy = OpenPolicy /\ plan = FlexiblePlan
      /\ sales = {} /\ halted = FALSE /\ billed = [n \in 1 .. MaxEnquiries |-> 0] /\ enquiries = 0
  BY DEF SellingInit
<1>2. Max(Rates) \in Nat \ {0} /\ BasisPoints \in Nat /\ MaxEnquiries \in Nat
  BY GreatestRate, SellingAssumption
<1>3. TermsInv
  <2>1. Max(Rates) * 2 \in Nat
    BY <1>2
  <2>2. FlexiblePlan \in PlanFields
    BY <1>2, <2>1 DEF FlexiblePlan, PlanFields
  <2>3. OpenPolicy \in PolicyFields
    <3>1. <<>> \in Seq(RevenueRules) /\ PlainStrategy \in 0 .. 2 * PlainStrategy
      BY SellingAssumption
    <3>2. QED BY <1>2, <2>1, <3>1 DEF OpenPolicy, PolicyFields
  <2>4. QED BY <1>1, <1>2, <2>2, <2>3 DEF TermsInv
<1>4. SalesInv
  BY <1>1 DEF SalesInv
<1>5. BillsInv
  BY <1>1, <1>2 DEF BillsInv
<1>6. ManagerKeepsToAuthority /\ ConferenceBilledOnce /\ HaltsOnlyWithoutAChannel
  BY <1>1 DEF ManagerKeepsToAuthority, ConferenceBilledOnce, HaltsOnlyWithoutAChannel
<1>7. QED BY <1>1, <1>3, <1>4, <1>5, <1>6 DEF SellingInv

LEMMA SellingStep == SellingInv /\ [SellingNext]_sellingVars => SellingInv'
<1> SUFFICES ASSUME SellingInv, [SellingNext]_sellingVars PROVE SellingInv'
  OBVIOUS
<1>1. TermsInv
  BY DEF SellingInv
<1>2. ASSUME NEW rate \in Rates, SetRate(rate) PROVE SellingInv'
  <2>1. Setting /\ price' = rate /\ UNCHANGED <<policy, plan>>
    BY <1>2 DEF SetRate
  <2>2. TermsInv'
    BY <1>1, <2>1, SellingAssumption DEF TermsInv
  <2>3. QED BY <2>1, <2>2, SettingKeeps
<1>3. ASSUME NEW p \in SellingPolicies, NEW q \in RatePlans, SetRevenuePolicy(p, q)
      PROVE  SellingInv'
  <2>1. Setting /\ policy' = p /\ plan' = q /\ price' = price
    BY <1>3 DEF SetRevenuePolicy
  <2>2. p \in PolicyFields /\ q \in PlanFields
    BY SellingAssumption DEF PolicyFields, PlanFields
  <2>3. TermsInv'
    BY <1>1, <2>1, <2>2 DEF TermsInv
  <2>4. QED BY <2>1, <2>3, SettingKeeps
<1>4. ASSUME NEW c \in Channels, NEW isShut \in BOOLEAN, SetChannelInventory(c, isShut)
      PROVE  SellingInv'
  <2>1. Setting /\ UNCHANGED <<price, policy, plan>>
    BY <1>4 DEF SetChannelInventory
  <2>2. TermsInv'
    BY <1>1, <2>1 DEF TermsInv
  <2>3. QED BY <2>1, <2>2, SettingKeeps
<1>5. CASE Adopt
  <2>1. Setting /\ UNCHANGED <<price, policy, plan>>
    BY <1>5 DEF Adopt
  <2>2. TermsInv'
    BY <1>1, <2>1 DEF TermsInv
  <2>3. QED BY <2>1, <2>2, SettingKeeps
<1>6. ASSUME NEW segment \in Segments, NEW lead \in LeadDays, NEW drawn \in Channels \cup {"none"},
             NEW measure \in Measures, NEW vacant \in BOOLEAN, NEW fits \in BOOLEAN,
             Enquire(segment, lead, drawn, measure, vacant, fits)
      PROVE  SellingInv'
  BY <1>6, EnquireKeeps
<1>7. ASSUME NEW segment \in Corporate, AccountSends(segment) PROVE SellingInv'
  BY <1>7, AccountKeeps
<1>8. ASSUME NEW value \in Values, NEW lead \in LeadDays \ {0}, NEW nights \in 1 .. 2,
             BookConference(value, lead, nights)
      PROVE  SellingInv'
  BY <1>8, ConferenceKeeps
<1>9. CASE NextSaleDay
  BY <1>9, NextSaleDayKeeps
<1>10. CASE UNCHANGED sellingVars
  BY <1>10 DEF sellingVars, SellingInv, SalesInv, Sale, TermsInv, BillsInv,
               ManagerKeepsToAuthority, ConferenceBilledOnce, HaltsOnlyWithoutAChannel, Offering
<1>11. QED BY <1>2, <1>3, <1>4, <1>5, <1>6, <1>7, <1>8, <1>9, <1>10 DEF SellingNext

\* Selling (revenuePolicy.ts, the demand of GameSimulation.ts): nobody pays more than the
\* stay is worth or than the manager's authority, as the strategy scales it, lets the rate
\* rise, each conference is billed once, and the simulation stops for want of a channel only.
THEOREM SellingIsHonest == SellingSpec => []SellingHolds
<1>1. SellingInv => SellingHolds
  BY DEF SellingInv, SellingHolds
<1>2. QED BY <1>1, SellingBegin, SellingStep, PTL DEF SellingSpec

-----------------------------------------------------------------------------
(* The city.                                                               *)

HouseFields == {"rooms", "cash", "debt", "sold", "status", "relation", "since"}

\* What a house's books are made of, funded or not.
BooksOf(c) ==
  DOMAIN c = HouseFields /\ c.rooms \in Nat /\ c.cash \in Int /\ c.debt \in Nat /\ c.sold \in Nat

Trading(c) == BooksOf(c) /\ c.cash >= 0

Rivalry ==
  /\ IsFiniteSet(DOMAIN rivals) /\ \A c \in DOMAIN rivals : Trading(rivals[c])
  /\ cityDay \in Nat /\ playerNights \in Int /\ entrants \in Nat
  /\ DOMAIN market = {"sold", "pipeline", "uplift"}

CityInv == Rivalry /\ NightsAddUp /\ HousesAreNamedOnce

LEMMA CityNumbers ==
  /\ RivalRooms \in Nat /\ RivalCash \in Nat /\ RivalDebt \in Nat
  /\ EntrantRooms \in Nat /\ EntrantCash \in Nat /\ EntrantDebt \in Nat
  /\ NightRate \in Nat /\ RoomUpkeep \in Nat /\ DebtRate \in Nat
  /\ RatePeriod \in Nat \ {0} /\ BuildCost \in Nat /\ CreditLine \in Nat /\ TargetDebt \in Nat
  /\ ExpansionRooms \in Nat /\ RenovationCost \in Nat
  BY CityAssumption

LEMMA CityProducts == \A a, b \in Nat : a * b \in Nat
  OBVIOUS

\* The interest of a month is a number.
LEMMA InterestIs == \A d \in Nat : InterestOf(d) \in Int
<1> SUFFICES ASSUME NEW d \in Nat PROVE InterestOf(d) \in Int
  OBVIOUS
<1>1. 2 * d * DebtRate \in Nat /\ 2 * RatePeriod \in Nat \ {0} /\ RatePeriod \in Nat
  <2>1. 2 * d \in Nat
    OBVIOUS
  <2>2. QED BY <2>1, CityNumbers, CityProducts
<1> DEFINE a == 2 * d * DebtRate
           b == 2 * RatePeriod
<1>2. a + RatePeriod \in Nat /\ b \in Nat \ {0}
  BY <1>1
<1>3. InterestOf(d) = (a + RatePeriod) \div b
  BY DEF InterestOf
<1> HIDE DEF a, b
<1>4. QED BY <1>2, <1>3

LEMMA ProfitIs == ASSUME NEW c, BooksOf(c) PROVE Profit(c) \in Int
<1>1. c.sold * NightRate \in Nat /\ c.rooms * RoomUpkeep \in Nat /\ InterestOf(c.debt) \in Int
  BY CityNumbers, CityProducts, InterestIs DEF BooksOf
<1> DEFINE a == c.sold * NightRate
           b == c.rooms * RoomUpkeep
           d == InterestOf(c.debt)
<1>2. Profit(c) = a - b - d /\ a \in Int /\ b \in Int /\ d \in Int
  BY <1>1 DEF Profit
<1> HIDE DEF a, b, d
<1>3. QED BY <1>2

LEMMA CreditIs == ASSUME NEW c, BooksOf(c) PROVE Headroom(c) \in Nat /\ Credit(c) \in Nat
<1>1. TargetDebt * c.rooms \in Nat /\ CreditLine * c.rooms \in Nat /\ c.debt \in Nat
  BY CityNumbers, CityProducts DEF BooksOf
<1> DEFINE a == TargetDebt * c.rooms
           b == CreditLine * c.rooms
<1>2. Headroom(c) = AtLeast(0, a - c.debt) /\ Credit(c) = AtMost(b, Headroom(c))
  BY DEF Headroom, Credit
<1>3. a \in Nat /\ b \in Nat
  BY <1>1
<1> HIDE DEF a, b
<1>4. Headroom(c) \in Nat
  BY <1>1, <1>2, <1>3 DEF AtLeast
<1>5. QED BY <1>2, <1>3, <1>4 DEF AtMost

LEMMA ExpansionIs == ASSUME NEW c, BooksOf(c) PROVE ExpansionDebt(c) \in Nat /\ ExpansionCash(c) \in Nat
<1>1. BuildCost * ExpansionRooms \in Nat /\ CreditLine * ExpansionRooms \in Nat
  BY CityNumbers, CityProducts
<1> DEFINE a == BuildCost * ExpansionRooms
           b == CreditLine * ExpansionRooms
<1>2. /\ ExpansionDebt(c) = AtMost(a, AtMost(Headroom(c), b))
      /\ ExpansionCash(c) = a - ExpansionDebt(c)
  BY DEF ExpansionDebt, ExpansionCash
<1>3. a \in Nat /\ b \in Nat /\ Headroom(c) \in Nat
  BY <1>1, CreditIs
<1> HIDE DEF a, b
<1>4. QED BY <1>2, <1>3 DEF AtMost

\* A house that runs its month out of its own money builds and renovates with what it has.
LEMMA InvestedIs ==
  ASSUME NEW c, Trading(c), NEW profit, NEW busy
  PROVE  Trading(Invested(c, profit, busy))
<1> DEFINE built == [c EXCEPT !.cash = @ - ExpansionCash(c), !.debt = @ + ExpansionDebt(c),
                              !.rooms = @ + ExpansionRooms, !.since = 0]
           renovated == [c EXCEPT !.cash = @ - RenovationCost]
<1>1. ExpansionDebt(c) \in Nat /\ ExpansionCash(c) \in Nat /\ c.cash \in Nat
      /\ ExpansionRooms \in Nat /\ RenovationCost \in Nat
  BY ExpansionIs, CityNumbers DEF Trading, BooksOf
<1>2. ASSUME ExpansionCash(c) <= c.cash PROVE Trading(built)
  <2>1. /\ DOMAIN built = HouseFields /\ built.cash = c.cash - ExpansionCash(c)
        /\ built.debt = c.debt + ExpansionDebt(c) /\ built.rooms = c.rooms + ExpansionRooms
        /\ built.sold = c.sold
    BY DEF Trading, BooksOf, HouseFields
  <2> HIDE DEF built
  <2>2. QED BY <1>1, <1>2, <2>1 DEF Trading, BooksOf
<1>3. ASSUME c.cash >= RenovationCost PROVE Trading(renovated)
  <2>1. /\ DOMAIN renovated = HouseFields /\ renovated.cash = c.cash - RenovationCost
        /\ renovated.debt = c.debt /\ renovated.rooms = c.rooms /\ renovated.sold = c.sold
    BY DEF Trading, BooksOf, HouseFields
  <2> HIDE DEF renovated
  <2>2. QED BY <1>1, <1>3, <2>1 DEF Trading, BooksOf
<1>4. \/ Invested(c, profit, busy) = c
      \/ ExpansionCash(c) <= c.cash /\ Invested(c, profit, busy) = built
      \/ c.cash >= RenovationCost /\ Invested(c, profit, busy) = renovated
  BY DEF Invested
<1> HIDE DEF built, renovated
<1>5. QED BY <1>2, <1>3, <1>4

\* A house that has closed its month has sold nothing of the next, and has money unless it
\* leaves.
LEMMA SettledIs ==
  ASSUME NEW c, Trading(c), NEW busy, NEW s, s = SettleMonth(c, busy)
  PROVE  BooksOf(s) /\ s.sold = 0 /\ (s.status # "exit" => s.cash >= 0)
<1> DEFINE profit == Profit(c)
           atClose == [c EXCEPT !.cash = @ + profit]
           credit == Credit(c)
           status == LifecycleAction(atClose.cash, credit, AtLeast(0, -profit))
           funded == [atClose EXCEPT !.cash = @ + credit, !.debt = @ + credit]
           after == CASE status = "operate" -> Invested(atClose, profit, busy)
                      [] status = "restructure" -> funded
                      [] status = "exit" -> atClose
<1>1. profit \in Int /\ credit \in Nat /\ c.cash \in Nat
  BY ProfitIs, CreditIs DEF Trading, BooksOf
<1> HIDE DEF profit, credit
<1>2. BooksOf(atClose) /\ atClose.cash = c.cash + profit
  <2>1. /\ DOMAIN atClose = HouseFields /\ atClose.cash = c.cash + profit
        /\ atClose.debt = c.debt /\ atClose.rooms = c.rooms /\ atClose.sold = c.sold
    BY DEF Trading, BooksOf, HouseFields
  <2> HIDE DEF atClose
  <2>2. QED BY <1>1, <2>1 DEF Trading, BooksOf
<1>3. s = [after EXCEPT !.status = status, !.sold = 0, !.since = AtMost(@ + 1, BuildCooldown)]
  BY DEF SettleMonth, profit, credit
<1> DEFINE burn == AtLeast(0, -profit)
<1>4. burn \in Nat /\ (burn = 0 => profit >= 0)
  BY <1>1 DEF AtLeast
<1>5. atClose.cash \in Int
  BY <1>1, <1>2
<1>6. /\ status \in {"operate", "restructure", "exit"}
      /\ status = "operate" => atClose.cash >= 0
      /\ status = "restructure" => atClose.cash + credit >= 0
  <2>1. status = LifecycleAction(atClose.cash, credit, burn)
    OBVIOUS
  <2> HIDE DEF atClose, burn, status
  <2>2. QED BY <1>1, <1>2, <1>4, <1>5, <2>1 DEF LifecycleAction
<1> HIDE DEF atClose, burn, status
<1>7. BooksOf(after) /\ (status # "exit" => after.cash >= 0)
  <2>1. CASE status = "operate"
    <3>1. Trading(atClose)
      BY <1>2, <1>6, <2>1 DEF Trading
    <3>2. Trading(Invested(atClose, profit, busy))
      BY <3>1, InvestedIs
    <3>3. after = Invested(atClose, profit, busy)
      BY <2>1
    <3>4. QED BY <3>2, <3>3 DEF Trading
  <2>2. CASE status = "restructure"
    <3>1. after = funded
      BY <2>2
    <3>2. /\ DOMAIN funded = HouseFields /\ funded.cash = atClose.cash + credit
          /\ funded.debt = atClose.debt + credit /\ funded.rooms = atClose.rooms
          /\ funded.sold = atClose.sold
      BY <1>2 DEF BooksOf, HouseFields
    <3> HIDE DEF funded, after
    <3>3. QED BY <1>1, <1>2, <1>5, <1>6, <2>2, <3>1, <3>2 DEF BooksOf
  <2>3. CASE status = "exit"
    <3>1. after = atClose
      BY <2>3
    <3>2. QED BY <1>2, <2>3, <3>1
  <2>4. QED BY <1>6, <2>1, <2>2, <2>3
<1> HIDE DEF after
<1>8. /\ DOMAIN s = HouseFields /\ s.cash = after.cash /\ s.debt = after.debt
      /\ s.rooms = after.rooms /\ s.sold = 0 /\ s.status = status
  BY <1>3, <1>7 DEF BooksOf, HouseFields
<1>9. QED BY <1>7, <1>8 DEF BooksOf

\* Houses that have sold nothing have together sold nothing.
LEMMA NothingSold ==
  ASSUME NEW hs, IsFiniteSet(DOMAIN hs), \A c \in DOMAIN hs : hs[c].sold = 0
  PROVE  TotalSold(hs) = 0
<1> DEFINE D == DOMAIN hs
           w == [c \in D |-> hs[c].sold]
<1>1. TotalSold(hs) = SumFunctionOnSet(w, D)
  BY DEF TotalSold, SumFunction
<1>2. \A c \in D : w[c] = 0 /\ w[c] \in Int /\ w[c] = w[c] + w[c]
  OBVIOUS
<1>3. IsFiniteSet(D)
  OBVIOUS
<1> HIDE DEF w, D
<1>4. SumFunctionOnSet(w, D) = SumFunctionOnSet(w, D) + SumFunctionOnSet(w, D)
  BY <1>2, <1>3, SumsAddUp
<1>5. SumFunctionOnSet(w, D) \in Int
  BY <1>2, <1>3, SumIsANumber
<1> DEFINE sum == SumFunctionOnSet(w, D)
<1>6. sum = sum + sum /\ sum \in Int /\ TotalSold(hs) = sum
  BY <1>1, <1>4, <1>5
<1> HIDE DEF sum
<1>7. QED BY <1>6

\* What the houses have sold grows by their parts of the day.
LEMMA DaysSale ==
  ASSUME NEW hs, IsFiniteSet(DOMAIN hs), \A c \in DOMAIN hs : Trading(hs[c]),
         NEW split, \A c \in DOMAIN hs : split[c] \in Nat
  PROVE  /\ TotalSold(SoldToday(hs, split)) =
              TotalSold(hs) + SumFunction([c \in DOMAIN hs |-> split[c]])
         /\ TotalSold(hs) \in Int /\ SumFunction([c \in DOMAIN hs |-> split[c]]) \in Int
         /\ DOMAIN SoldToday(hs, split) = DOMAIN hs
         /\ \A c \in DOMAIN hs :
              /\ Trading(SoldToday(hs, split)[c])
              /\ SoldToday(hs, split)[c].sold = hs[c].sold + split[c]
              /\ SoldToday(hs, split)[c].rooms = hs[c].rooms
<1> DEFINE D == DOMAIN hs
           ts == SoldToday(hs, split)
           u == [c \in D |-> hs[c].sold]
           v == [c \in D |-> split[c]]
           w == [c \in D |-> ts[c].sold]
<1>1. DOMAIN ts = D /\ \A c \in D : ts[c] = [hs[c] EXCEPT !.sold = @ + split[c]]
  BY DEF SoldToday
<1> HIDE DEF ts
<1>2. \A c \in D : /\ Trading(ts[c]) /\ ts[c].sold = hs[c].sold + split[c]
                   /\ ts[c].rooms = hs[c].rooms
  <2> SUFFICES ASSUME NEW c \in D
               PROVE  /\ Trading(ts[c]) /\ ts[c].sold = hs[c].sold + split[c]
                      /\ ts[c].rooms = hs[c].rooms
    OBVIOUS
  <2>1. Trading(hs[c]) /\ split[c] \in Nat /\ ts[c] = [hs[c] EXCEPT !.sold = @ + split[c]]
    BY <1>1
  <2>2. /\ DOMAIN ts[c] = HouseFields /\ ts[c].sold = hs[c].sold + split[c]
        /\ ts[c].cash = hs[c].cash /\ ts[c].debt = hs[c].debt /\ ts[c].rooms = hs[c].rooms
    BY <2>1 DEF Trading, BooksOf, HouseFields
  <2>3. QED BY <2>1, <2>2 DEF Trading, BooksOf
<1>3. /\ TotalSold(hs) = SumFunctionOnSet(u, D) /\ SumFunction(v) = SumFunctionOnSet(v, D)
  BY DEF TotalSold, SumFunction
<1>4. TotalSold(ts) = SumFunctionOnSet(w, D)
  BY <1>1 DEF TotalSold, SumFunction
<1>5. \A c \in D : u[c] \in Int /\ v[c] \in Int /\ w[c] = u[c] + v[c]
  BY <1>2 DEF Trading, BooksOf
<1>6. IsFiniteSet(D)
  OBVIOUS
<1>7. v = [c \in DOMAIN hs |-> split[c]]
  OBVIOUS
<1>8. D = DOMAIN hs /\ ts = SoldToday(hs, split)
  BY DEF ts
<1> HIDE DEF u, v, w, D
<1>9. SumFunctionOnSet(w, D) = SumFunctionOnSet(u, D) + SumFunctionOnSet(v, D)
  BY <1>5, <1>6, SumsAddUp
<1>10. SumFunctionOnSet(u, D) \in Int /\ SumFunctionOnSet(v, D) \in Int
  <2>1. (\A c \in D : u[c] \in Int) /\ (\A c \in D : v[c] \in Int)
    BY <1>5
  <2>2. QED BY <2>1, <1>6, SumIsANumber
<1>11. QED BY <1>1, <1>2, <1>3, <1>4, <1>7, <1>8, <1>9, <1>10

LEMMA ADayMore == \A a, b \in Nat : a * (b + 1) = a * b + a
  OBVIOUS

LEMMA CityDayKeeps ==
  ASSUME CityInv, NEW nights \in Nat, NEW realised \in Nat, CityDay(nights, realised)
  PROVE  CityInv'
<1>1. PICK split \in Splits(rivals, nights) :
        /\ rivals' = SoldToday(rivals, split)
        /\ market' = [Split(market, rivals, split) EXCEPT !.sold = @ + realised]
  BY DEF CityDay
<1>2. /\ cityDay' = cityDay + 1 /\ playerNights' = playerNights + realised
      /\ UNCHANGED <<failed, entrants>>
  BY DEF CityDay
<1>3. /\ split \in [DOMAIN rivals \cup {Player} -> 0 .. nights]
      /\ \A c \in DOMAIN rivals : split[c] <= rivals[c].rooms
  BY DEF Splits
<1>4. \A c \in DOMAIN rivals : split[c] \in Nat
  BY <1>3
<1>5. Rivalry /\ market.sold = TotalSold(rivals) + playerNights
  BY DEF CityInv, NightsAddUp
<1>6. /\ TotalSold(rivals') = TotalSold(rivals) + SumFunction([c \in DOMAIN rivals |-> split[c]])
      /\ TotalSold(rivals) \in Int /\ SumFunction([c \in DOMAIN rivals |-> split[c]]) \in Int
      /\ DOMAIN rivals' = DOMAIN rivals
      /\ \A c \in DOMAIN rivals : /\ Trading(rivals'[c])
                                  /\ rivals'[c].sold = rivals[c].sold + split[c]
                                  /\ rivals'[c].rooms = rivals[c].rooms
  BY <1>1, <1>4, <1>5, DaysSale DEF Rivalry
<1> DEFINE parts == SumFunction([c \in DOMAIN rivals |-> split[c]])
<1>7. DOMAIN market' = {"sold", "pipeline", "uplift"} /\ market'.sold = market.sold + parts + realised
  BY <1>1, <1>5 DEF Rivalry, Split
<1>8. parts \in Int
  BY <1>6
<1>9. TotalSold(rivals') = TotalSold(rivals) + parts
  BY <1>6
<1> HIDE DEF parts
<1>10. Rivalry'
  BY <1>2, <1>5, <1>6, <1>7 DEF Rivalry
<1>11. NightsAddUp'
  <2>1. market'.sold = TotalSold(rivals') + playerNights'
    BY <1>2, <1>5, <1>6, <1>7, <1>8, <1>9 DEF Rivalry
  <2>2. ASSUME NEW c \in DOMAIN rivals PROVE rivals'[c].sold <= rivals'[c].rooms * cityDay'
    <3>1. /\ rivals[c].rooms \in Nat /\ rivals[c].sold \in Nat /\ cityDay \in Nat
          /\ split[c] \in Nat /\ split[c] <= rivals[c].rooms
      BY <1>3, <1>4, <1>5 DEF Rivalry, Trading, BooksOf
    <3>2. rivals[c].sold <= rivals[c].rooms * cityDay
      BY DEF CityInv, NightsAddUp
    <3>3. rivals[c].rooms * (cityDay + 1) = rivals[c].rooms * cityDay + rivals[c].rooms
          /\ rivals[c].rooms * cityDay \in Nat
      BY <3>1, ADayMore, CityProducts
    <3> DEFINE a == rivals[c].rooms * cityDay
               b == rivals[c].rooms * (cityDay + 1)
    <3>4. rivals'[c].sold = rivals[c].sold + split[c] /\ rivals'[c].rooms * cityDay' = b
      BY <1>2, <1>6
    <3>5. a \in Nat /\ b = a + rivals[c].rooms /\ rivals[c].sold <= a
      BY <3>2, <3>3
    <3> HIDE DEF a, b
    <3>6. QED BY <3>1, <3>4, <3>5
  <2>3. QED BY <1>6, <2>1, <2>2 DEF NightsAddUp
<1>12. HousesAreNamedOnce'
  BY <1>2, <1>6 DEF CityInv, HousesAreNamedOnce
<1>13. QED BY <1>10, <1>11, <1>12 DEF CityInv

\* A house that is new to the city takes a number of its own.
LEMMA NumbersAreNew ==
  ASSUME entrants \in Nat
  PROVE  EntrantId \notin Rivals \cup {Cardinality(Rivals) + i : i \in 1 .. entrants}
<1>1. Cardinality(Rivals) \in Nat /\ Rivals = 1 .. Cardinality(Rivals)
  BY CityAssumption, FS_CardinalityType
<1>2. QED BY <1>1 DEF EntrantId

LEMMA NumbersGrow ==
  ASSUME entrants \in Nat
  PROVE  {Cardinality(Rivals) + i : i \in 1 .. entrants + 1} =
           {Cardinality(Rivals) + i : i \in 1 .. entrants} \cup {EntrantId}
<1>1. Cardinality(Rivals) \in Nat
  BY CityAssumption, FS_CardinalityType
<1>2. 1 .. entrants + 1 = (1 .. entrants) \cup {entrants + 1}
  OBVIOUS
<1>3. EntrantId = Cardinality(Rivals) + (entrants + 1)
  BY <1>1 DEF EntrantId
<1>4. QED BY <1>2, <1>3

LEMMA CityMonthKeeps ==
  ASSUME CityInv, NEW busy \in BOOLEAN, NEW undercut \in BOOLEAN, NEW enters \in BOOLEAN,
         NEW effect, NEW strikes, CityMonth(busy, undercut, enters, effect, strikes)
  PROVE  CityInv'
<1> DEFINE settled == [c \in DOMAIN rivals |-> SettleMonth(rivals[c], busy)]
           survivors == Survivors(settled, undercut)
           stayed == {c \in DOMAIN rivals : settled[c].status # "exit"}
<1>1. /\ rivals' = WithEntrant(survivors, enters)
      /\ failed' = failed \cup (DOMAIN rivals \ DOMAIN survivors)
      /\ entrants' = entrants + (IF enters THEN 1 ELSE 0)
      /\ market' = Matured(market, effect)
      /\ playerNights' = 0 /\ cityDay' = 0
  BY DEF CityMonth
<1>2. Rivalry /\ HousesAreNamedOnce
  BY DEF CityInv
<1>3. \A c \in DOMAIN rivals : BooksOf(settled[c]) /\ settled[c].sold = 0
        /\ (settled[c].status # "exit" => settled[c].cash >= 0)
  BY <1>2, SettledIs DEF Rivalry
<1>4. DOMAIN survivors = stayed
      /\ \A c \in stayed : survivors[c] = [settled[c] EXCEPT !.relation = Remembered(@, undercut)]
  BY DEF Survivors
<1>5. stayed \subseteq DOMAIN rivals /\ \A c \in stayed : c \in DOMAIN rivals /\ settled[c].status # "exit"
  OBVIOUS
<1> HIDE DEF settled, survivors, stayed
<1>6. \A c \in stayed : Trading(survivors[c]) /\ survivors[c].sold = 0
  <2> SUFFICES ASSUME NEW c \in stayed PROVE Trading(survivors[c]) /\ survivors[c].sold = 0
    OBVIOUS
  <2>1. BooksOf(settled[c]) /\ settled[c].sold = 0 /\ settled[c].cash >= 0
        /\ survivors[c] = [settled[c] EXCEPT !.relation = Remembered(@, undercut)]
    BY <1>3, <1>4, <1>5
  <2>2. /\ DOMAIN survivors[c] = HouseFields /\ survivors[c].sold = settled[c].sold
        /\ survivors[c].cash = settled[c].cash /\ survivors[c].debt = settled[c].debt
        /\ survivors[c].rooms = settled[c].rooms
    BY <2>1 DEF BooksOf, HouseFields
  <2>3. QED BY <2>1, <2>2 DEF Trading, BooksOf
<1> DEFINE new == IF enters THEN {EntrantId} ELSE {}
           opened == Opened(EntrantRooms, EntrantCash, EntrantDebt, 0)
<1>7. DOMAIN rivals' = stayed \cup new
      /\ \A c \in stayed \cup new : rivals'[c] = IF c \in stayed THEN survivors[c] ELSE opened
  BY <1>1, <1>4 DEF WithEntrant
<1>8. Trading(opened) /\ opened.sold = 0
  BY CityNumbers DEF Opened, Trading, BooksOf, HouseFields
<1> HIDE DEF opened
<1>9. \A c \in DOMAIN rivals' : Trading(rivals'[c]) /\ rivals'[c].sold = 0
  BY <1>6, <1>7, <1>8
<1>10. IsFiniteSet(DOMAIN rivals')
  <2>1. IsFiniteSet(stayed)
    BY <1>2, <1>5, FS_Subset DEF Rivalry
  <2>2. IsFiniteSet(stayed \cup {EntrantId})
    BY <2>1, FS_AddElement
  <2>3. QED BY <1>7, <2>1, <2>2
<1>11. entrants \in Nat /\ entrants' \in Nat
  BY <1>1, <1>2 DEF Rivalry
<1>12. DOMAIN market' = {"sold", "pipeline", "uplift"} /\ market'.sold = 0
  BY <1>1, <1>2 DEF Matured, Rivalry
<1>13. Rivalry'
  BY <1>1, <1>9, <1>10, <1>11, <1>12 DEF Rivalry
<1>14. NightsAddUp'
  <2>1. TotalSold(rivals') = 0
    BY <1>9, <1>10, NothingSold
  <2>2. \A c \in DOMAIN rivals' : rivals'[c].rooms * cityDay' = 0
    BY <1>1, <1>9 DEF Trading, BooksOf
  <2>3. QED BY <1>1, <1>9, <1>12, <2>1, <2>2 DEF NightsAddUp
<1> DEFINE named == Rivals \cup {Cardinality(Rivals) + i : i \in 1 .. entrants}
<1>15. HousesAreNamedOnce'
  <2>1. DOMAIN rivals \cap failed = {} /\ DOMAIN rivals \cup failed = named
    BY <1>2 DEF HousesAreNamedOnce
  <2>2. failed' = failed \cup (DOMAIN rivals \ stayed)
    BY <1>1, <1>4
  <2>3. EntrantId \notin named
    BY <1>11, NumbersAreNew
  <2>4. Rivals \cup {Cardinality(Rivals) + i : i \in 1 .. entrants'} = named \cup new
    <3>1. CASE enters
      BY <1>1, <1>11, <3>1, NumbersGrow
    <3>2. CASE ~enters
      <4>1. entrants' = entrants
        BY <1>1, <1>11, <3>2
      <4>2. QED BY <3>2, <4>1
    <3>3. QED BY <3>1, <3>2
  <2> HIDE DEF named
  <2>5. QED BY <1>5, <1>7, <2>1, <2>2, <2>3, <2>4 DEF HousesAreNamedOnce
<1>16. QED BY <1>13, <1>14, <1>15 DEF CityInv

LEMMA CityBegins == CityInit => CityInv
<1> SUFFICES ASSUME CityInit PROVE CityInv
  OBVIOUS
<1> DEFINE opened == Opened(RivalRooms, RivalCash, RivalDebt, BuildCooldown)
<1>1. /\ rivals = [c \in Rivals |-> opened] /\ failed = {} /\ entrants = 0
      /\ DOMAIN market = {"sold", "pipeline", "uplift"} /\ market.sold = 0
      /\ playerNights = 0 /\ cityDay = 0
  BY DEF CityInit
<1>2. Trading(opened) /\ opened.sold = 0
  BY CityNumbers DEF Opened, Trading, BooksOf, HouseFields
<1> HIDE DEF opened
<1>3. DOMAIN rivals = Rivals /\ IsFiniteSet(DOMAIN rivals)
      /\ \A c \in DOMAIN rivals : Trading(rivals[c]) /\ rivals[c].sold = 0
  BY <1>1, <1>2, CityAssumption
<1>4. Rivalry
  BY <1>1, <1>3 DEF Rivalry
<1>5. TotalSold(rivals) = 0
  BY <1>3, NothingSold
<1>6. \A c \in DOMAIN rivals : rivals[c].rooms * cityDay = 0
  BY <1>1, <1>3 DEF Trading, BooksOf
<1>7. NightsAddUp
  BY <1>1, <1>3, <1>5, <1>6 DEF NightsAddUp
<1>8. HousesAreNamedOnce
  BY <1>1, <1>3 DEF HousesAreNamedOnce
<1>9. QED BY <1>4, <1>7, <1>8 DEF CityInv

LEMMA CityKeeps == CityInv /\ [CityNext]_cityVars => CityInv'
<1> SUFFICES ASSUME CityInv, [CityNext]_cityVars PROVE CityInv'
  OBVIOUS
<1>1. ASSUME NEW nights \in DailyDemands, NEW realised \in 0 .. PlayerRooms,
             CityDay(nights, realised)
      PROVE  CityInv'
  <2>1. nights \in Nat /\ realised \in Nat
    BY CityAssumption
  <2>2. QED BY <1>1, <2>1, CityDayKeeps
<1>2. ASSUME NEW busy \in BOOLEAN, NEW undercut \in BOOLEAN, NEW enters \in BOOLEAN,
             NEW strikes \in BOOLEAN, NEW effect \in Effects,
             CityMonth(busy, undercut, enters, effect, strikes)
      PROVE  CityInv'
  BY <1>2, CityMonthKeeps
<1>3. ASSUME NEW t \in Technologies, AdoptTechnology(t) PROVE CityInv'
  BY <1>3 DEF AdoptTechnology, CityInv, Rivalry, NightsAddUp, HousesAreNamedOnce
<1>4. CASE UNCHANGED cityVars
  BY <1>4 DEF cityVars, CityInv, Rivalry, NightsAddUp, HousesAreNamedOnce
<1>5. QED BY <1>1, <1>2, <1>3, <1>4 DEF CityNext

\* The city of rivals (cityMarket.ts, settleCompetitorMonth, allocateCityDay, newEntrant):
\* a house that trades has money, the nights the city sold are those its houses and the
\* player sold, none more than it had, and a number is never given twice.
THEOREM CityIsShared == CitySpec => []CityAgrees
<1>1. CityInv => CityAgrees
  BY DEF CityInv, CityAgrees, Rivalry, Trading, RivalsAreFunded
<1>2. QED BY <1>1, CityBegins, CityKeeps, PTL DEF CitySpec

-----------------------------------------------------------------------------
(* The terms of a career.                                                  *)

LEMMA QuotientsGrow == \A a, b \in Int, n \in Nat \ {0} : a <= b => a \div n <= b \div n
  OBVIOUS

LEMMA QuotientsShrink == \A a \in Nat, m, n \in Nat \ {0} : m <= n => a \div n <= a \div m
  OBVIOUS

LEMMA QuotientsAre ==
  \A a \in Int, n \in Nat \ {0} : a \div n \in Int /\ (a >= 0 => a \div n \in Nat)
  OBVIOUS

LEMMA ProductsGrow == \A a, b, c, d \in Nat : a <= b /\ c <= d => a * c <= b * d
  OBVIOUS

LEMMA ProductsAre == \A a, b \in Nat : a * b \in Nat
  OBVIOUS

\* A quotient that is rounded up.
LEMMA RoundedUp ==
  \A a \in Nat, n \in Nat \ {0} :
    (a + n - 1) \div n = IF a = 0 THEN 0 ELSE ((a - 1) \div n) + 1
  OBVIOUS

\* The numbers of a difficulty, and that a harder one is nowhere kinder.
TermFields ==
  {"capital", "spread", "tolerance", "accuracy", "scarcity", "buffer", "aggression",
   "frequency", "assistance"}

LEMMA PresetsAre ==
  \A d \in Difficulties : \A f \in TermFields : Preset(d)[f] \in Nat \ {0}
<1> SUFFICES ASSUME NEW d \in Difficulties
             PROVE  \A f \in TermFields : Preset(d)[f] \in Nat \ {0}
  OBVIOUS
<1>1. /\ Preset(d).capital \in Nat \ {0} /\ Preset(d).spread \in Nat \ {0}
      /\ Preset(d).tolerance \in Nat \ {0} /\ Preset(d).accuracy \in Nat \ {0}
      /\ Preset(d).scarcity \in Nat \ {0} /\ Preset(d).buffer \in Nat \ {0}
      /\ Preset(d).aggression \in Nat \ {0} /\ Preset(d).frequency \in Nat \ {0}
      /\ Preset(d).assistance \in Nat \ {0}
  <2>1. CASE d = "beginner"
    BY <2>1 DEF Preset
  <2>2. CASE d = "standard"
    BY <2>2 DEF Preset
  <2>3. CASE d = "expert"
    BY <2>3 DEF Preset
  <2>4. QED BY <2>1, <2>2, <2>3 DEF Difficulties
<1>2. QED BY <1>1 DEF TermFields

LEMMA PresetsHarden ==
  ASSUME NEW d \in Difficulties, d # "beginner"
  PROVE  /\ Easier(d) \in Difficulties
         /\ Preset(d).capital <= Preset(Easier(d)).capital
         /\ Preset(d).spread >= Preset(Easier(d)).spread
         /\ Preset(d).tolerance <= Preset(Easier(d)).tolerance
         /\ Preset(d).accuracy <= Preset(Easier(d)).accuracy
         /\ Preset(d).scarcity >= Preset(Easier(d)).scarcity
         /\ Preset(d).buffer <= Preset(Easier(d)).buffer
         /\ Preset(d).aggression >= Preset(Easier(d)).aggression
         /\ Preset(d).assistance <= Preset(Easier(d)).assistance
  BY DEF Difficulties, Easier, Preset

LEMMA ScaledIs == \A v, bp \in Nat : ScaledBy(v, bp) \in Nat
  BY QuotientsAre, ProductsAre DEF ScaledBy, Neutral

LEMMA ScaledGrows ==
  \A v, w, a, b \in Nat : v <= w /\ a <= b => ScaledBy(v, a) <= ScaledBy(w, b)
<1> SUFFICES ASSUME NEW v \in Nat, NEW w \in Nat, NEW a \in Nat, NEW b \in Nat, v <= w, a <= b
             PROVE  ScaledBy(v, a) <= ScaledBy(w, b)
  OBVIOUS
<1> DEFINE p == v * a
           q == w * b
<1>1. p \in Int /\ q \in Int /\ p <= q
  BY ProductsAre, ProductsGrow
<1>2. ScaledBy(v, a) = p \div 10000 /\ ScaledBy(w, b) = q \div 10000
  BY DEF ScaledBy, Neutral
<1> HIDE DEF p, q
<1>3. QED BY <1>1, <1>2, QuotientsGrow

LEMMA ScaledMore ==
  \A v, w, a \in Nat : v <= w => ScaledBy(v, a) <= ScaledBy(w, a) /\ ScaledBy(a, v) <= ScaledBy(a, w)
<1>1. \A a \in Nat : a <= a
  OBVIOUS
<1>2. QED BY <1>1, ScaledGrows

LEMMA SparedIs == \A v \in Nat, bp \in Nat \ {0} : InverselyScaled(v, bp) \in Nat
<1> SUFFICES ASSUME NEW v \in Nat, NEW bp \in Nat \ {0} PROVE InverselyScaled(v, bp) \in Nat
  OBVIOUS
<1>1. v * Neutral \in Nat
  BY DEF Neutral
<1>2. QED BY <1>1, QuotientsAre DEF InverselyScaled

LEMMA SparedShrinks ==
  \A v \in Nat, a, b \in Nat \ {0} : a <= b => InverselyScaled(v, b) <= InverselyScaled(v, a)
<1> SUFFICES ASSUME NEW v \in Nat, NEW a \in Nat \ {0}, NEW b \in Nat \ {0}, a <= b
             PROVE  InverselyScaled(v, b) <= InverselyScaled(v, a)
  OBVIOUS
<1>1. v * Neutral \in Nat
  BY DEF Neutral
<1>2. QED BY <1>1, QuotientsShrink DEF InverselyScaled

LEMMA BoundedIs ==
  \A least, most, v \in Int : least <= most => Bounded(least, most, v) \in least .. most
  BY DEF Bounded, Large, Small

LEMMA BoundedGrows ==
  \A least, most, v, w \in Int : v <= w => Bounded(least, most, v) <= Bounded(least, most, w)
  BY DEF Bounded, Large, Small

\* Terms a career can be on.
OnTerms(t) ==
  /\ DOMAIN t = {"difficulty", "sandbox"}
  /\ t.difficulty \in Difficulties /\ t.sandbox \in [Levers -> Nat]

LEMMA OfTerms ==
  ASSUME NEW t, OnTerms(t)
  PROVE  \A f \in TermFields : Of(t)[f] \in Nat \ {0}
  BY PresetsAre DEF OnTerms, Of

LEMMA OpeningIs == ASSUME NEW t, OnTerms(t) PROVE OpeningUnder(t) \in Nat
<1>1. Of(t).capital \in Nat /\ t.sandbox["capital"] \in Nat /\ OpeningCapital \in Nat
  BY OfTerms, CampaignAssumption DEF OnTerms, TermFields, Levers
<1>2. QED BY <1>1, ScaledIs DEF OpeningUnder

LEMMA FeeShrinks ==
  \A n \in Nat, a, b \in Nat \ {0} : a <= b => (n + b - 1) \div b <= (n + a - 1) \div a
<1> SUFFICES ASSUME NEW n \in Nat, NEW a \in Nat \ {0}, NEW b \in Nat \ {0}, a <= b
             PROVE  (n + b - 1) \div b <= (n + a - 1) \div a
  OBVIOUS
<1>1. CASE n = 0
  <2>1. (n + b - 1) \div b = 0 /\ (n + a - 1) \div a = 0
    BY <1>1, RoundedUp
  <2>2. QED BY <2>1
<1>2. CASE n # 0
  <2>1. n - 1 \in Nat
    BY <1>2
  <2> DEFINE p == (n - 1) \div a
             q == (n - 1) \div b
  <2>2. q <= p
    BY <2>1, QuotientsShrink
  <2>a. p \in Int /\ q \in Int
    BY <2>1, QuotientsAre
  <2>3. (n + b - 1) \div b = q + 1 /\ (n + a - 1) \div a = p + 1
    BY <1>2, RoundedUp
  <2> HIDE DEF p, q
  <2>4. QED BY <2>2, <2>a, <2>3
<1>3. QED BY <1>1, <1>2

\* Known quality of the market report is a percentage, the less the less is known.
LEMMA KnownIs ==
  ASSUME NEW t, OnTerms(t), NEW q \in Nat
  PROVE  Known(q, t) \in 0 .. 100
<1>1. Of(t).accuracy \in Nat /\ t.sandbox["accuracy"] \in Nat
  BY OfTerms DEF OnTerms, TermFields, Levers
<1>2. ScaledBy(q, Of(t).accuracy) \in Nat
  BY <1>1, ScaledIs
<1>3. Bounded(0, 100, ScaledBy(q, Of(t).accuracy)) \in Nat
  BY <1>2 DEF Bounded, Large, Small
<1>4. ScaledBy(Bounded(0, 100, ScaledBy(q, Of(t).accuracy)), t.sandbox["accuracy"]) \in Nat
  BY <1>1, <1>3, ScaledIs
<1>5. QED BY <1>4 DEF Known, Bounded, Large, Small

LEMMA KnownGrows ==
  ASSUME NEW t, OnTerms(t), NEW u, OnTerms(u), u.sandbox = t.sandbox,
         Of(t).accuracy <= Of(u).accuracy, NEW p \in Nat, NEW q \in Nat, p <= q
  PROVE  Known(p, t) <= Known(q, u)
<1> DEFINE a == ScaledBy(p, Of(t).accuracy)
           b == ScaledBy(q, Of(u).accuracy)
           s == t.sandbox["accuracy"]
<1>1. Of(t).accuracy \in Nat /\ Of(u).accuracy \in Nat /\ s \in Nat
  BY OfTerms DEF OnTerms, TermFields, Levers
<1>2. a \in Nat /\ b \in Nat /\ a <= b
  BY <1>1, ScaledIs, ScaledGrows
<1> DEFINE c == Bounded(0, 100, a)
           d == Bounded(0, 100, b)
<1>3. Known(p, t) = Bounded(0, 100, ScaledBy(c, s)) /\ Known(q, u) = Bounded(0, 100, ScaledBy(d, s))
  BY DEF Known
<1> HIDE DEF a, b, s
<1>4. c \in Nat /\ d \in Nat /\ c <= d
  BY <1>2 DEF Bounded, Large, Small
<1> HIDE DEF c, d
<1>5. ScaledBy(c, s) <= ScaledBy(d, s)
  BY <1>1, <1>4, ScaledMore
<1>6. ScaledBy(c, s) \in Nat /\ ScaledBy(d, s) \in Nat
  BY <1>1, <1>4, ScaledIs
<1>7. QED BY <1>3, <1>5, <1>6, BoundedGrows

\* The raw risk of a crisis is a number of basis points.
LEMMA SandboxIs == ASSUME NEW t, OnTerms(t) PROVE \A l \in Levers : t.sandbox[l] \in Nat
  BY DEF OnTerms

LEMMA RawRiskIs == \A i \in Nat : RawRisk(i) \in Nat
<1> SUFFICES ASSUME NEW i \in Nat PROVE RawRisk(i) \in Nat
  OBVIOUS
<1> DEFINE r == RoundedHalfUp(40 * 4 * i + 25 * 3000 + 35 * 3 * i, 100)
<1>1. r \in Int
  BY DEF RoundedHalfUp
<1>2. RawRisk(i) = Bounded(0, Neutral, r)
  BY DEF RawRisk
<1> HIDE DEF r
<1>3. QED BY <1>1, <1>2 DEF Neutral, Bounded, Large, Small

LEMMA RiskIs ==
  ASSUME NEW t, OnTerms(t), NEW i \in Nat
  PROVE  RiskOfCrisis(i, t) \in 0 .. Neutral
<1>1. Of(t).buffer \in Nat \ {0} /\ t.sandbox["crises"] \in Nat /\ RawRisk(i) \in Nat
  <2>1. Of(t).buffer \in Nat \ {0}
    BY OfTerms DEF TermFields
  <2>2. t.sandbox["crises"] \in Nat
    BY SandboxIs DEF Levers
  <2>3. RawRisk(i) \in Nat
    BY RawRiskIs
  <2>4. QED BY <2>1, <2>2, <2>3
<1> DEFINE a == InverselyScaled(RawRisk(i), Of(t).buffer)
           b == Bounded(0, Neutral, a)
<1>2. a \in Nat
  BY <1>1, SparedIs
<1> HIDE DEF a
<1>3. b \in Nat
  BY <1>2 DEF Bounded, Large, Small, Neutral
<1>4. RiskOfCrisis(i, t) = Bounded(0, Neutral, ScaledBy(b, t.sandbox["crises"]))
  BY DEF RiskOfCrisis, a
<1> HIDE DEF b
<1>5. ScaledBy(b, t.sandbox["crises"]) \in Int
  <2>1. ScaledBy(b, t.sandbox["crises"]) \in Nat
    BY <1>1, <1>3, ScaledIs
  <2>2. QED BY <2>1
<1>6. Neutral \in Int /\ 0 <= Neutral
  BY DEF Neutral
<1>7. QED BY <1>4, <1>5, <1>6, BoundedIs

LEMMA RiskGrows ==
  ASSUME NEW t, OnTerms(t), NEW u, OnTerms(u), u.sandbox = t.sandbox,
         Of(t).buffer <= Of(u).buffer, NEW i \in Nat
  PROVE  RiskOfCrisis(i, t) >= RiskOfCrisis(i, u)
<1> DEFINE s == t.sandbox["crises"]
           a == InverselyScaled(RawRisk(i), Of(t).buffer)
           b == InverselyScaled(RawRisk(i), Of(u).buffer)
           c == Bounded(0, Neutral, a)
           d == Bounded(0, Neutral, b)
<1>1. /\ Of(t).buffer \in Nat \ {0} /\ Of(u).buffer \in Nat \ {0} /\ s \in Nat
      /\ RawRisk(i) \in Nat
  <2>1. Of(t).buffer \in Nat \ {0} /\ Of(u).buffer \in Nat \ {0}
    BY OfTerms DEF TermFields
  <2>2. t.sandbox["crises"] \in Nat
    BY SandboxIs DEF Levers
  <2>3. RawRisk(i) \in Nat
    BY RawRiskIs
  <2>4. QED BY <2>1, <2>2, <2>3
<1>2. a \in Nat /\ b \in Nat /\ b <= a
  BY <1>1, SparedIs, SparedShrinks
<1>3. /\ RiskOfCrisis(i, t) = Bounded(0, Neutral, ScaledBy(c, s))
      /\ RiskOfCrisis(i, u) = Bounded(0, Neutral, ScaledBy(d, s))
  BY DEF RiskOfCrisis
<1> HIDE DEF a, b, s
<1>4. c \in Nat /\ d \in Nat /\ d <= c
  BY <1>2 DEF Bounded, Large, Small, Neutral
<1> HIDE DEF c, d
<1>5. ScaledBy(d, s) <= ScaledBy(c, s)
  BY <1>1, <1>4, ScaledMore
<1>6. ScaledBy(c, s) \in Nat /\ ScaledBy(d, s) \in Nat
  BY <1>1, <1>4, ScaledIs
<1>7. Neutral \in Nat
  BY DEF Neutral
<1>8. Bounded(0, Neutral, ScaledBy(d, s)) <= Bounded(0, Neutral, ScaledBy(c, s))
  BY <1>5, <1>6, <1>7, BoundedGrows
<1>9. Bounded(0, Neutral, ScaledBy(d, s)) \in Int /\ Bounded(0, Neutral, ScaledBy(c, s)) \in Int
  BY <1>6, <1>7 DEF Bounded, Large, Small
<1>10. QED BY <1>3, <1>8, <1>9

\* A harder game is nowhere kinder, whatever it is played with.
LEMMA HarderIs ==
  ASSUME OnTerms(terms)
  PROVE  HarderIsHarder
<1> SUFFICES ASSUME terms.difficulty # "beginner"
             PROVE  LET easier == [terms EXCEPT !.difficulty = Easier(@)]
                    IN  /\ OpeningUnder(terms) <= OpeningUnder(easier) /\ RateUnder(terms) >= RateUnder(easier)
                        /\ ReportFee(terms) >= ReportFee(easier)
                        /\ \A q \in {10, 50, 100} : Known(q, terms) <= Known(q, easier)
                        /\ \A knock \in 1 .. 8 : Tolerated(-knock, terms) <= Tolerated(-knock, easier)
                        /\ \A c \in CityMonths : RiskOfCrisis(c.interest, terms) >= RiskOfCrisis(c.interest, easier)
                        /\ \A c \in CityMonths : WagePressure(c.pressure, terms) >= WagePressure(c.pressure, easier)
                        /\ UndercutBelow(9000, terms) >= UndercutBelow(9000, easier)
  BY DEF HarderIsHarder
<1> DEFINE easier == [terms EXCEPT !.difficulty = Easier(@)]
<1>1. /\ OnTerms(easier) /\ easier.sandbox = terms.sandbox
      /\ Of(easier) = Preset(Easier(terms.difficulty)) /\ Of(terms) = Preset(terms.difficulty)
  BY PresetsHarden DEF OnTerms, Of
<1> DEFINE o == Of(terms)
           e == Of(easier)
<1>2. /\ o.capital <= e.capital /\ o.spread >= e.spread /\ o.tolerance <= e.tolerance
      /\ o.accuracy <= e.accuracy /\ o.scarcity >= e.scarcity /\ o.buffer <= e.buffer
      /\ o.aggression >= e.aggression /\ o.assistance <= e.assistance
  BY <1>1, PresetsHarden DEF OnTerms
<1> HIDE DEF easier
<1>3. \A f \in TermFields : o[f] \in Nat \ {0} /\ e[f] \in Nat \ {0}
  BY <1>1, OfTerms
<1>4. OpeningUnder(terms) <= OpeningUnder(easier)
  <2>1. /\ o.capital \in Nat /\ e.capital \in Nat /\ OpeningCapital \in Nat
        /\ terms.sandbox["capital"] \in Nat
    BY <1>3, CampaignAssumption DEF OnTerms, Levers, TermFields
  <2> DEFINE a == ScaledBy(OpeningCapital, o.capital)
             b == ScaledBy(OpeningCapital, e.capital)
  <2>2. a \in Nat /\ b \in Nat /\ a <= b
    BY <1>2, <2>1, ScaledIs, ScaledMore
  <2>3. /\ OpeningUnder(terms) = ScaledBy(a, terms.sandbox["capital"])
        /\ OpeningUnder(easier) = ScaledBy(b, terms.sandbox["capital"])
    BY <1>1 DEF OpeningUnder
  <2> HIDE DEF a, b
  <2>4. QED BY <2>1, <2>2, <2>3, ScaledMore
<1>5. RateUnder(terms) >= RateUnder(easier)
  <2>1. o.spread \in Nat /\ e.spread \in Nat /\ OpeningRate \in Nat
    BY <1>3, CampaignAssumption DEF TermFields
  <2>2. ScaledBy(OpeningRate, e.spread) <= ScaledBy(OpeningRate, o.spread)
    BY <1>2, <2>1, ScaledMore
  <2>3. ScaledBy(OpeningRate, e.spread) \in Nat /\ ScaledBy(OpeningRate, o.spread) \in Nat
    BY <2>1, ScaledIs
  <2>4. QED BY <2>2, <2>3 DEF RateUnder
<1>6. ReportFee(terms) >= ReportFee(easier)
  <2>1. /\ o.assistance \in Nat \ {0} /\ e.assistance \in Nat \ {0}
        /\ ReportCost * Neutral \in Nat
    BY <1>3, CampaignAssumption DEF TermFields, Neutral
  <2> DEFINE n == ReportCost * Neutral
             x == o.assistance
             y == e.assistance
  <2>2. ReportFee(terms) = (n + x - 1) \div x /\ ReportFee(easier) = (n + y - 1) \div y
    BY DEF ReportFee
  <2>3. x <= y /\ x \in Nat \ {0} /\ y \in Nat \ {0} /\ n \in Nat
    BY <1>2, <2>1
  <2> HIDE DEF n, x, y
  <2>4. (n + y - 1) \div y <= (n + x - 1) \div x
    BY <2>3, FeeShrinks
  <2>5. (n + y - 1) \div y \in Int /\ (n + x - 1) \div x \in Int
    BY <2>3, QuotientsAre
  <2>6. QED BY <2>2, <2>4, <2>5
<1>7. \A q \in {10, 50, 100} : Known(q, terms) <= Known(q, easier)
  <2>1. \A q \in Nat : Known(q, terms) <= Known(q, easier)
    BY <1>1, <1>2, KnownGrows
  <2>2. QED BY <2>1
<1>8. \A knock \in 1 .. 8 : Tolerated(-knock, terms) <= Tolerated(-knock, easier)
  <2> SUFFICES ASSUME NEW knock \in 1 .. 8
               PROVE  Tolerated(-knock, terms) <= Tolerated(-knock, easier)
    OBVIOUS
  <2>1. o.tolerance \in Nat \ {0} /\ e.tolerance \in Nat \ {0}
    BY <1>3 DEF TermFields
  <2> DEFINE a == InverselyScaled(knock, o.tolerance)
             b == InverselyScaled(knock, e.tolerance)
  <2>2. a \in Nat /\ b \in Nat /\ b <= a
    BY <1>2, <2>1, SparedIs, SparedShrinks
  <2>3. -knock < 0 /\ -(-knock) = knock
    OBVIOUS
  <2>4. Tolerated(-knock, terms) = -a /\ Tolerated(-knock, easier) = -b
    BY <2>3 DEF Tolerated
  <2> HIDE DEF a, b
  <2>5. QED BY <2>2, <2>4
<1>9. \A c \in CityMonths : RiskOfCrisis(c.interest, terms) >= RiskOfCrisis(c.interest, easier)
  <2>1. \A c \in CityMonths : c.interest \in Nat
    BY CampaignAssumption
  <2>2. QED BY <1>1, <1>2, <2>1, RiskGrows
<1>10. \A c \in CityMonths : WagePressure(c.pressure, terms) >= WagePressure(c.pressure, easier)
  <2> SUFFICES ASSUME NEW c \in CityMonths
               PROVE  WagePressure(c.pressure, terms) >= WagePressure(c.pressure, easier)
    OBVIOUS
  <2>a. c.pressure \in Nat
    <3>1. c.pressure \in LeastPressure .. TopPressure
      BY CampaignAssumption
    <3>2. LeastPressure \in Nat /\ TopPressure \in Nat
      BY DEF LeastPressure, TopPressure
    <3>3. QED BY <3>1, <3>2
  <2>1. c.pressure \in Nat /\ o.scarcity \in Nat /\ e.scarcity \in Nat
    BY <1>3, <2>a DEF TermFields
  <2> DEFINE a == ScaledBy(c.pressure, o.scarcity)
             b == ScaledBy(c.pressure, e.scarcity)
  <2>2. a \in Nat /\ b \in Nat /\ b <= a
    BY <1>2, <2>1, ScaledIs, ScaledMore
  <2>3. WagePressure(c.pressure, terms) = Bounded(LeastPressure, TopPressure, a)
        /\ WagePressure(c.pressure, easier) = Bounded(LeastPressure, TopPressure, b)
    BY DEF WagePressure
  <2> HIDE DEF a, b
  <2>4. LeastPressure \in Int /\ TopPressure \in Int
    BY DEF LeastPressure, TopPressure
  <2>5. QED BY <2>2, <2>3, <2>4 DEF Bounded, Large, Small
<1>11. \A base \in Nat : UndercutBelow(base, terms) >= UndercutBelow(base, easier)
  <2> SUFFICES ASSUME NEW base \in Nat
               PROVE  UndercutBelow(base, terms) >= UndercutBelow(base, easier)
    OBVIOUS
  <2>1. o.aggression \in Nat /\ e.aggression \in Nat
    BY <1>3 DEF TermFields
  <2> DEFINE a == ScaledBy(base, o.aggression)
             b == ScaledBy(base, e.aggression)
  <2>2. a \in Nat /\ b \in Nat /\ b <= a
    BY <1>2, <2>1, ScaledIs, ScaledMore
  <2>3. UndercutBelow(base, terms) = Bounded(0, Neutral, a)
        /\ UndercutBelow(base, easier) = Bounded(0, Neutral, b)
    BY DEF UndercutBelow
  <2> HIDE DEF a, b
  <2>4. QED BY <2>2, <2>3 DEF Bounded, Large, Small, Neutral
<1>12. UndercutBelow(9000, terms) >= UndercutBelow(9000, easier)
  BY <1>11
<1>13. QED BY <1>4, <1>5, <1>6, <1>7, <1>8, <1>9, <1>10, <1>12 DEF easier

(* The report and the forecast drawn from it.                              *)

LEMMA RoundedIs ==
  \A a \in Int, b \in Nat \ {0} :
    RoundedHalfUp(a, b) \in Int /\ (a >= 0 => RoundedHalfUp(a, b) \in Nat)
<1> SUFFICES ASSUME NEW a \in Int, NEW b \in Nat \ {0}
             PROVE  RoundedHalfUp(a, b) \in Int /\ (a >= 0 => RoundedHalfUp(a, b) \in Nat)
  OBVIOUS
<1>1. 2 * a + b \in Int /\ 2 * b \in Nat \ {0} /\ (a >= 0 => 2 * a + b >= 0)
  OBVIOUS
<1>2. QED BY <1>1, QuotientsAre DEF RoundedHalfUp

LEMMA RoundedGrows ==
  \A a, b \in Int, n \in Nat \ {0} : a <= b => RoundedHalfUp(a, n) <= RoundedHalfUp(b, n)
<1> SUFFICES ASSUME NEW a \in Int, NEW b \in Int, NEW n \in Nat \ {0}, a <= b
             PROVE  RoundedHalfUp(a, n) <= RoundedHalfUp(b, n)
  OBVIOUS
<1>1. 2 * a + n \in Int /\ 2 * b + n \in Int /\ 2 * n \in Nat \ {0} /\ 2 * a + n <= 2 * b + n
  OBVIOUS
<1>2. QED BY <1>1, QuotientsGrow DEF RoundedHalfUp

LEMMA BandIs ==
  ASSUME NEW base \in Nat, NEW q \in Nat, q <= 100
  PROVE  /\ ForecastBand(base, q).low <= base /\ ForecastBand(base, q).base = base
         /\ ForecastBand(base, q).low \in Nat /\ ForecastBand(base, q).high \in Nat
         /\ base <= ForecastBand(base, q).high
         /\ base > 25 => ForecastBand(base, q).low < ForecastBand(base, q).high
<1> DEFINE x == RoundedHalfUp(base * 2, 100)
           p == base * (100 - q)
           y == RoundedHalfUp(base * (100 - q) * 40, 10000)
           spread == Large(x, y)
<1>1. x \in Nat /\ (base > 25 => x > 0)
  BY DEF RoundedHalfUp
<1>2. y \in Nat
  <2>1. 100 - q \in Nat
    OBVIOUS
  <2>2. p \in Nat
    BY <2>1, ProductsAre
  <2>3. y = RoundedHalfUp(p * 40, 10000)
    OBVIOUS
  <2> HIDE DEF p, y
  <2>4. p * 40 \in Nat
    BY <2>2
  <2>5. RoundedHalfUp(p * 40, 10000) \in Nat
    BY <2>4, RoundedIs
  <2>6. QED BY <2>3, <2>5
<1>3. ForecastBand(base, q) = [low |-> Large(0, base - spread), base |-> base, high |-> base + spread]
  BY DEF ForecastBand
<1> HIDE DEF x, y
<1>4. spread \in Nat /\ (base > 25 => spread > 0)
  BY <1>1, <1>2 DEF Large
<1> HIDE DEF spread
<1>5. QED BY <1>3, <1>4 DEF Large

LEMMA BandNarrows ==
  ASSUME NEW base \in Nat, NEW p \in Nat, NEW q \in Nat, p <= q, q <= 100
  PROVE  ForecastBand(base, q).high <= ForecastBand(base, p).high
<1> DEFINE x == RoundedHalfUp(base * 2, 100)
           a == base * (100 - q)
           b == base * (100 - p)
           y == RoundedHalfUp(a * 40, 10000)
           z == RoundedHalfUp(b * 40, 10000)
<1>1. ForecastBand(base, q).high = base + Large(x, y) /\ ForecastBand(base, p).high = base + Large(x, z)
  BY DEF ForecastBand
<1>2. 100 - q \in Nat /\ 100 - p \in Nat /\ 100 - q <= 100 - p /\ base <= base
  OBVIOUS
<1>3. a \in Nat /\ b \in Nat
  BY <1>2, ProductsAre
<1>4. a <= b
  BY <1>2, ProductsGrow
<1>5. x \in Nat
  BY DEF RoundedHalfUp
<1> HIDE DEF a, b, x
<1>6. a * 40 \in Int /\ b * 40 \in Int /\ a * 40 <= b * 40
  BY <1>3, <1>4
<1>7. y \in Int /\ z \in Int /\ y <= z
  BY <1>6, RoundedIs, RoundedGrows
<1> HIDE DEF y, z
<1>8. QED BY <1>1, <1>5, <1>7 DEF Large

LEMMA ReportTells ==
  ASSUME NEW q \in Nat, q <= 100
  PROVE  /\ QualityAfterReport(q) \in Nat /\ q <= QualityAfterReport(q)
         /\ QualityAfterReport(q) <= 100
<1>1. CASE q = 100
  BY <1>1 DEF QualityAfterReport
<1>2. CASE q # 100
  <2> DEFINE spent == RoundedHalfUp(q * 200, 100 - q) + 100
             told == RoundedHalfUp(100 * spent, spent + 200)
  <2>1. q * 200 \in Nat /\ 100 - q \in Nat \ {0}
    BY <1>2
  <2>2. RoundedHalfUp(q * 200, 100 - q) \in Nat
    BY <2>1, RoundedIs
  <2>3. spent \in Nat
    BY <2>2
  <2>4. QualityAfterReport(q) = Small(100, Large(q + 1, told))
    BY <1>2 DEF QualityAfterReport
  <2> HIDE DEF spent
  <2>5. 100 * spent \in Int /\ spent + 200 \in Nat \ {0}
    BY <2>3
  <2>6. told \in Int
    BY <2>5, RoundedIs
  <2> HIDE DEF told
  <2>7. QED BY <1>2, <2>4, <2>6 DEF Small, Large
<1>3. QED BY <1>1, <1>2

(* The rival's price.                                                      *)

LEMMA AppetiteIs == ASSUME NEW t, OnTerms(t) PROVE Appetite(t) \in Nat
<1>1. t.sandbox["aggression"] \in Nat
  BY SandboxIs DEF Levers
<1>2. \A v \in Nat : ScaledBy(v, t.sandbox["aggression"]) \in Nat
  BY <1>1, ScaledIs
<1>3. ScaledBy(2000, t.sandbox["aggression"]) \in Nat
  BY <1>2
<1>4. Neutral \in Nat
  BY DEF Neutral
<1> DEFINE x == ScaledBy(2000, t.sandbox["aggression"])
<1>5. Appetite(t) = Bounded(0, Neutral, x)
  BY DEF Appetite
<1>6. x \in Nat
  BY <1>3
<1> HIDE DEF x
<1>7. QED BY <1>4, <1>5, <1>6 DEF Bounded, Small, Large

LEMMA AdjustmentGrows ==
  ASSUME NEW t, OnTerms(t), NEW m \in Nat, NEW n \in Nat, m <= n
  PROVE  /\ Adjustment(m, t) \in Int /\ Adjustment(n, t) \in Int
         /\ Adjustment(m, t) <= Adjustment(n, t)
<1> DEFINE a == Appetite(t)
           Low(k) == RoundedHalfUp(a * (6000 - k), 6000)
           High(k) == RoundedHalfUp(a * Small(Neutral, k - 8500), 3000)
<1>1. a \in Nat /\ Neutral \in Nat /\ Neutral > 0
  BY AppetiteIs DEF Neutral
<1> HIDE DEF a
<1>2. \A k \in Nat : k < 6000 => Low(k) \in Nat
  <2> SUFFICES ASSUME NEW k \in Nat, k < 6000 PROVE Low(k) \in Nat
    OBVIOUS
  <2>1. 6000 - k \in Nat
    OBVIOUS
  <2> DEFINE x == a * (6000 - k)
  <2>2. x \in Nat
    BY <1>1, <2>1, ProductsAre
  <2> HIDE DEF x
  <2>3. RoundedHalfUp(x, 6000) \in Nat
    BY <2>2, RoundedIs
  <2>4. QED BY <2>3 DEF x
<1>3. \A k \in Nat : k > 8500 => High(k) \in Nat
  <2> SUFFICES ASSUME NEW k \in Nat, k > 8500 PROVE High(k) \in Nat
    OBVIOUS
  <2>1. Small(Neutral, k - 8500) \in Nat
    BY <1>1 DEF Small
  <2> DEFINE x == a * Small(Neutral, k - 8500)
  <2>2. x \in Nat
    BY <1>1, <2>1, ProductsAre
  <2> HIDE DEF x
  <2>3. RoundedHalfUp(x, 3000) \in Nat
    BY <2>2, RoundedIs
  <2>4. QED BY <2>3 DEF x
<1>4. n < 6000 => Low(n) <= Low(m)
  <2> SUFFICES ASSUME n < 6000 PROVE Low(n) <= Low(m)
    OBVIOUS
  <2>1. 6000 - n \in Nat /\ 6000 - m \in Nat /\ 6000 - n <= 6000 - m /\ a <= a
    BY <1>1
  <2> DEFINE x == a * (6000 - n)
             y == a * (6000 - m)
  <2>2. x \in Nat /\ y \in Nat
    BY <1>1, <2>1, ProductsAre
  <2>3. x <= y
    BY <1>1, <2>1, ProductsGrow
  <2> HIDE DEF x, y
  <2>4. RoundedHalfUp(x, 6000) <= RoundedHalfUp(y, 6000)
    BY <2>2, <2>3, RoundedGrows
  <2>5. QED BY <2>4 DEF x, y
<1>5. m > 8500 => High(m) <= High(n)
  <2> SUFFICES ASSUME m > 8500 PROVE High(m) <= High(n)
    OBVIOUS
  <2>1. /\ Small(Neutral, m - 8500) \in Nat /\ Small(Neutral, n - 8500) \in Nat
        /\ Small(Neutral, m - 8500) <= Small(Neutral, n - 8500) /\ a <= a
    BY <1>1 DEF Small
  <2> DEFINE x == a * Small(Neutral, m - 8500)
             y == a * Small(Neutral, n - 8500)
  <2>2. x \in Nat /\ y \in Nat
    BY <1>1, <2>1, ProductsAre
  <2>3. x <= y
    BY <1>1, <2>1, ProductsGrow
  <2> HIDE DEF x, y
  <2>4. RoundedHalfUp(x, 3000) <= RoundedHalfUp(y, 3000)
    BY <2>2, <2>3, RoundedGrows
  <2>5. QED BY <2>4 DEF x, y
<1>6. \A k \in Nat : Adjustment(k, t) =
        IF k < 6000 THEN -Low(k) ELSE IF k > 8500 THEN High(k) ELSE 0
  BY DEF Adjustment, a
<1> HIDE DEF Low, High
<1>7. CASE n < 6000
  <2>1. m < 6000
    BY <1>7
  <2>2. Adjustment(m, t) = -Low(m) /\ Adjustment(n, t) = -Low(n)
    BY <1>6, <1>7, <2>1
  <2>3. Low(m) \in Nat /\ Low(n) \in Nat /\ Low(n) <= Low(m)
    BY <1>2, <1>4, <1>7, <2>1
  <2>4. QED BY <2>2, <2>3
<1>8. CASE m > 8500
  <2>1. n > 8500
    BY <1>8
  <2>2. Adjustment(m, t) = High(m) /\ Adjustment(n, t) = High(n)
    BY <1>6, <1>8, <2>1
  <2>3. High(m) \in Nat /\ High(n) \in Nat /\ High(m) <= High(n)
    BY <1>3, <1>5, <1>8, <2>1
  <2>4. QED BY <2>2, <2>3
<1>9. CASE ~(n < 6000) /\ ~(m > 8500)
  <2>1. Adjustment(m, t) \in Int /\ Adjustment(m, t) <= 0
    <3>1. CASE m < 6000
      <4>1. Low(m) \in Nat /\ Adjustment(m, t) = -Low(m)
        BY <1>2, <1>6, <3>1
      <4>2. QED BY <4>1
    <3>2. CASE ~(m < 6000)
      BY <1>6, <1>9, <3>2
    <3>3. QED BY <3>1, <3>2
  <2>2. Adjustment(n, t) \in Nat
    <3>1. CASE n > 8500
      <4>1. ~(n < 6000)
        BY <3>1
      <4>2. QED BY <1>3, <1>6, <3>1, <4>1
    <3>2. CASE ~(n > 8500)
      BY <1>6, <1>9, <3>2
    <3>3. QED BY <3>1, <3>2
  <2>3. QED BY <2>1, <2>2
<1>10. QED BY <1>7, <1>8, <1>9

LEMMA ScalingGrows == \A v \in Nat, a, b \in Int : a <= b => v * a \in Int /\ v * b \in Int /\ v * a <= v * b
  OBVIOUS

LEMMA AskedGrows ==
  ASSUME NEW t, OnTerms(t), NEW v \in Nat, NEW m \in Nat, NEW n \in Nat, m <= n
  PROVE  AskedRate(v, m, t) \in Int /\ AskedRate(v, m, t) <= AskedRate(v, n, t)
<1> DEFINE a == Neutral + Adjustment(m, t)
           b == Neutral + Adjustment(n, t)
           p == v * a
           q == v * b
<1>1. a \in Int /\ b \in Int /\ a <= b
  BY AdjustmentGrows DEF Neutral
<1>2. AskedRate(v, m, t) = Large(LeastRate, RoundedHalfUp(p, Neutral))
      /\ AskedRate(v, n, t) = Large(LeastRate, RoundedHalfUp(q, Neutral))
  BY DEF AskedRate
<1> HIDE DEF a, b
<1>3. p \in Int /\ q \in Int /\ p <= q
  BY <1>1, ScalingGrows
<1> HIDE DEF p, q
<1>4. LeastRate \in Nat
  BY CampaignAssumption
<1>5. Neutral \in Nat \ {0}
  BY DEF Neutral
<1> DEFINE x == RoundedHalfUp(p, Neutral)
           y == RoundedHalfUp(q, Neutral)
<1>6. x \in Int /\ y \in Int /\ x <= y
  BY <1>3, <1>5, RoundedIs, RoundedGrows
<1> HIDE DEF x, y
<1>7. AskedRate(v, m, t) = Large(LeastRate, x) /\ AskedRate(v, n, t) = Large(LeastRate, y)
  BY <1>2 DEF x, y
<1>8. QED BY <1>4, <1>6, <1>7 DEF Large

LEMMA AppealBounds ==
  \A w \in Nat, a \in Nat : a <= Neutral => RoundedHalfUp(w * a, Neutral) \in Int /\ RoundedHalfUp(w * a, Neutral) <= w
<1> SUFFICES ASSUME NEW w \in Nat, NEW a \in Nat, a <= Neutral
             PROVE  RoundedHalfUp(w * a, Neutral) \in Int /\ RoundedHalfUp(w * a, Neutral) <= w
  OBVIOUS
<1> DEFINE p == w * a
<1>1. w <= w /\ Neutral \in Nat
  BY DEF Neutral
<1>2. p <= w * Neutral
  BY <1>1, ProductsGrow
<1>3. p \in Nat
  BY ProductsAre
<1> HIDE DEF p
<1>4. RoundedHalfUp(p, Neutral) \in Int /\ RoundedHalfUp(p, Neutral) <= w
  BY <1>2, <1>3 DEF RoundedHalfUp, Neutral
<1>5. QED BY <1>4 DEF p

\* What the rival asks after a month is what somebody would pay.
LEMMA RivalIs ==
  ASSUME NEW t, OnTerms(t), NEW r, r.appeal \in Nat, 4000 <= r.appeal, r.appeal <= Neutral,
         r.relation \in Int, NEW v \in Nat, NEW n \in Nat
  PROVE  /\ RivalAfter(r, v, n, t).rate \in Nat /\ RivalAfter(r, v, n, t).rate >= 1
         /\ RivalAfter(r, v, n, t).rate <= Large(LeastRate, TopWillingness)
         /\ RivalAfter(r, v, n, t).appeal \in Nat /\ 4000 <= RivalAfter(r, v, n, t).appeal
         /\ RivalAfter(r, v, n, t).appeal <= Neutral
         /\ RivalAfter(r, v, n, t).relation \in Int
<1> DEFINE relation == RememberedBy(r, v, t)
           asked == AskedRate(v, n, t)
           kept == Neutral - Retaliation(relation)
           x == RoundedHalfUp(TopWillingness * r.appeal, Neutral)
           p == asked * kept
           y == RoundedHalfUp(p, Neutral)
<1>1. /\ RivalAfter(r, v, n, t).relation = relation
      /\ RivalAfter(r, v, n, t).rate = Large(1, Small(x, y))
      /\ RivalAfter(r, v, n, t).appeal = Large(4000, r.appeal - 20)
  BY DEF RivalAfter
<1>2. TopWillingness \in Nat /\ LeastRate \in Nat /\ TopWillingness >= 1
  BY CampaignAssumption
<1>3. x \in Int /\ x <= TopWillingness
  BY <1>2, AppealBounds
<1>4. relation \in Int
  BY DEF RememberedBy, Large, Small
<1> HIDE DEF relation, x
<1>5. kept \in Int
  BY <1>4 DEF Retaliation, RoundedHalfUp, Neutral
<1>6. asked \in Int
  <2>1. n <= n
    OBVIOUS
  <2>2. QED BY <2>1, AskedGrows
<1> HIDE DEF asked, kept
<1>7. p \in Int
  BY <1>5, <1>6
<1> HIDE DEF p
<1>8. y \in Int
  BY <1>7, RoundedIs DEF Neutral
<1> HIDE DEF y
<1>9. RivalAfter(r, v, n, t).rate \in Nat /\ RivalAfter(r, v, n, t).rate >= 1
      /\ RivalAfter(r, v, n, t).rate <= Large(LeastRate, TopWillingness)
  BY <1>1, <1>2, <1>3, <1>8 DEF Large, Small
<1>10. /\ RivalAfter(r, v, n, t).appeal \in Nat /\ 4000 <= RivalAfter(r, v, n, t).appeal
       /\ RivalAfter(r, v, n, t).appeal <= Neutral
  BY <1>1 DEF Large, Neutral
<1>11. QED BY <1>1, <1>4, <1>9, <1>10

(* The lobby.                                                              *)

LEMMA LobbyStateIs ==
  ASSUME NEW h \in LobbyStates
  PROVE  /\ DOMAIN h = {"queue", "stays", "due", "desk", "condition", "adoption", "installed"}
         /\ h.queue \in Nat /\ h.stays \in Nat /\ h.due \in Nat /\ h.desk \in Nat
         /\ h.condition \in Nat
  BY CampaignAssumption

LEMMA OneMoreIsFinite == \A S, x : IsFiniteSet(S) => IsFiniteSet(S \cup {x})
  BY FS_AddElement

LEMMA SourcesAre == IsFiniteSet(Sources) /\ "baggage" \in Sources
<1>1. IsFiniteSet({})
  BY FS_EmptySet
<1>2. IsFiniteSet({} \cup {"arrival"} \cup {"orientation"} \cup {"waiting"})
  BY <1>1, OneMoreIsFinite
<1>3. IsFiniteSet({} \cup {"arrival"} \cup {"orientation"} \cup {"waiting"} \cup {"reception"} \cup {"checkout"})
  BY <1>2, OneMoreIsFinite
<1>4. IsFiniteSet({} \cup {"arrival"} \cup {"orientation"} \cup {"waiting"} \cup {"reception"} \cup {"checkout"}
                    \cup {"baggage"} \cup {"concierge"})
  BY <1>3, OneMoreIsFinite
<1>5. Sources = {} \cup {"arrival"} \cup {"orientation"} \cup {"waiting"} \cup {"reception"} \cup {"checkout"}
                    \cup {"baggage"} \cup {"concierge"}
  BY DEF Sources
<1>6. "baggage" \in Sources
  BY DEF Sources
<1>7. QED BY <1>4, <1>5, <1>6

LEMMA OptionsAre == IsFiniteSet(Options) /\ \A o \in Options : o.takes \in Nat
<1> DEFINE a == [of |-> "personal-computer", needs |-> 3000, handles |-> {"reception", "checkout"}, takes |-> 4000]
           b == [of |-> "smartphone", needs |-> 2500, handles |-> {"arrival", "reception"}, takes |-> 3500]
           c == [of |-> "smartphone", needs |-> 4000, handles |-> {"reception", "orientation"}, takes |-> 3000]
<1>1. Options = {a, b, c}
  BY DEF Options
<1>2. a.takes \in Nat /\ b.takes \in Nat /\ c.takes \in Nat
  OBVIOUS
<1> HIDE DEF a, b, c
<1>3. IsFiniteSet({})
  BY FS_EmptySet
<1>4. IsFiniteSet({} \cup {a} \cup {b} \cup {c})
  BY <1>3, OneMoreIsFinite
<1>5. Options = {} \cup {a} \cup {b} \cup {c}
  BY <1>1
<1>6. IsFiniteSet(Options)
  BY <1>4, <1>5
<1>7. QED BY <1>1, <1>2, <1>6

LEMMA DeflectedIs == ASSUME NEW h, NEW s PROVE DeflectedBy(h, s) \in Nat
<1> DEFINE O == {p \in InstalledOptions(h) : s \in p.handles}
           w == [o \in O |-> o.takes]
<1>1. O \in SUBSET Options
  BY DEF InstalledOptions
<1>2. IsFiniteSet(O)
  BY <1>1, OptionsAre, FS_Subset
<1>3. DOMAIN w = O /\ \A o \in O : w[o] \in Nat
  BY <1>1, OptionsAre
<1>4. DeflectedBy(h, s) = SumFunctionOnSet(w, DOMAIN w)
  BY DEF DeflectedBy, SumFunction
<1> HIDE DEF O, w
<1>5. SumFunctionOnSet(w, O) \in Nat
  BY <1>2, <1>3, SumOfNaturals
<1>6. QED BY <1>3, <1>4, <1>5

LEMMA DemandIs ==
  ASSUME NEW h \in LobbyStates
  PROVE  \A s \in Sources : Demand(h)[s] \in Nat
<1> SUFFICES ASSUME NEW s \in Sources PROVE Demand(h)[s] \in Nat
  OBVIOUS
<1>1. h.stays \div 4 \in Nat /\ 2 * h.queue \in Nat /\ h.queue \in Nat /\ h.due \in Nat
  BY LobbyStateIs
<1>2. Demand(h)[s] = CASE s \in {"arrival", "orientation", "waiting", "reception"} -> h.queue
       [] s = "checkout" -> h.due
       [] s = "baggage" -> 2 * h.queue
       [] s = "concierge" -> h.stays \div 4
  BY DEF Demand
<1>3. QED BY <1>1, <1>2 DEF Sources

\* What is left of a demand of which a share, in basis points, is taken off.
LeftOver(d, m) == d - (d * m) \div Neutral

LEMMA LeftOverIs ==
  ASSUME NEW d \in Nat, NEW m \in Nat, m <= 7000
  PROVE  LeftOver(d, m) \in Nat /\ LeftOver(d, m) <= d /\ LeftOver(d, m) >= (d * 3) \div 10
<1> DEFINE x == d * m
<1>1. x \in Nat
  BY ProductsAre
<1>2. x <= d * 7000
  BY ProductsGrow
<1> HIDE DEF x
<1>3. /\ d - x \div 10000 \in Nat /\ d - x \div 10000 <= d
      /\ d - x \div 10000 >= (d * 3) \div 10
  BY <1>1, <1>2
<1>4. QED BY <1>3 DEF x, LeftOver, Neutral

LEMMA LeftIs ==
  ASSUME NEW h, NEW s \in Sources, Demand(h)[s] \in Nat
  PROVE  /\ LeftFor(h)[s] \in Nat /\ LeftFor(h)[s] <= Demand(h)[s]
         /\ LeftFor(h)[s] >= (Demand(h)[s] * 3) \div 10
<1> DEFINE d == Demand(h)[s]
           m == Small(7000, DeflectedBy(h, s))
<1>1. m \in Nat /\ m <= 7000
  BY DeflectedIs DEF Small
<1>2. LeftFor(h)[s] = LeftOver(d, m)
  BY DEF LeftFor, LeftOver
<1>3. d \in Nat
  OBVIOUS
<1> HIDE DEF d, m
<1>4. LeftFor(h)[s] \in Nat /\ LeftFor(h)[s] <= d /\ LeftFor(h)[s] >= (d * 3) \div 10
  BY <1>1, <1>2, <1>3, LeftOverIs
<1>5. QED BY <1>4 DEF d

\* With nothing put in, everybody is left for a person.
LEMMA LeftUnaided ==
  ASSUME NEW h, h.installed = {}, NEW s \in Sources, Demand(h)[s] \in Nat
  PROVE  LeftFor(h)[s] = Demand(h)[s]
<1> DEFINE d == Demand(h)[s]
<1>1. {p \in InstalledOptions(h) : s \in p.handles} = {}
  BY DEF InstalledOptions
<1> DEFINE w == [o \in {p \in InstalledOptions(h) : s \in p.handles} |-> o.takes]
<1>2. DOMAIN w = {}
  BY <1>1
<1>3. DeflectedBy(h, s) = SumFunctionOnSet(w, DOMAIN w)
  BY DEF DeflectedBy, SumFunction
<1> HIDE DEF w
<1>4. DeflectedBy(h, s) = 0
  BY <1>2, <1>3, SumOfNothing
<1>5. LeftFor(h)[s] = d - (d * Small(7000, DeflectedBy(h, s))) \div Neutral
  BY DEF LeftFor
<1>6. Small(7000, DeflectedBy(h, s)) = 0
  BY <1>4 DEF Small
<1>7. d \in Nat
  OBVIOUS
<1> HIDE DEF d
<1>8. LeftFor(h)[s] = d
  BY <1>5, <1>6, <1>7 DEF Neutral
<1>9. QED BY <1>8 DEF d

\* What is left but the baggage, and with it.
LEMMA TotalsAre ==
  ASSUME NEW f, DOMAIN f = Sources, \A s \in Sources : f[s] \in Nat
  PROVE  /\ TotalOf(f) \in Nat /\ f["baggage"] \in Nat
         /\ TotalOf(f) - f["baggage"] = SumFunctionOnSet(f, Sources \ {"baggage"})
         /\ TotalOf(f) - f["baggage"] \in Nat
<1>1. TotalOf(f) = SumFunctionOnSet(f, Sources)
  BY DEF TotalOf, SumFunction
<1>2. \A s \in Sources : f[s] \in Int
  OBVIOUS
<1>3. /\ SumFunctionOnSet(f, Sources) = f["baggage"] + SumFunctionOnSet(f, Sources \ {"baggage"})
      /\ SumFunctionOnSet(f, Sources) \in Int /\ SumFunctionOnSet(f, Sources \ {"baggage"}) \in Int
  BY <1>2, SourcesAre, SumTakesOut
<1>4. SumFunctionOnSet(f, Sources) \in Nat /\ f["baggage"] <= SumFunctionOnSet(f, Sources)
  BY SourcesAre, SumOfNaturals
<1>5. f["baggage"] \in Nat
  BY SourcesAre
<1>6. QED BY <1>1, <1>3, <1>4, <1>5

LEMMA LobbyIs ==
  ASSUME NEW h \in LobbyStates
  PROVE  /\ Throughput(h).served \in Nat /\ Throughput(h).unserved \in Nat
         /\ Throughput([h EXCEPT !.installed = {}]).unserved \in Nat
         /\ Throughput(h).unserved <= Throughput([h EXCEPT !.installed = {}]).unserved
         /\ Throughput(h).cause = "none" <=> Throughput(h).unserved = 0
         /\ \A s \in Sources : LeftFor(h)[s] >= (Demand(h)[s] * 3) \div 10
<1> DEFINE g == [h EXCEPT !.installed = {}]
           D == Demand(h)
           l == LeftFor(h)
           m == LeftFor(g)
<1>1. /\ h.desk \in Nat /\ g.desk = h.desk /\ g.installed = {}
      /\ g.queue = h.queue /\ g.due = h.due /\ g.stays = h.stays
  BY LobbyStateIs
<1>3. \A s \in Sources : D[s] \in Nat
  BY DemandIs
<1>4. DOMAIN l = Sources /\ DOMAIN m = Sources
  BY DEF LeftFor
<1> HIDE DEF g
<1>2. Demand(g) = D
  BY <1>1 DEF Demand
<1>5. \A s \in Sources : l[s] \in Nat /\ l[s] <= D[s] /\ l[s] >= (D[s] * 3) \div 10
  BY <1>3, LeftIs
<1>6. \A s \in Sources : m[s] = D[s]
  BY <1>1, <1>2, <1>3, LeftUnaided
<1> DEFINE tl == TotalOf(l)
           tm == TotalOf(m)
           bl == l["baggage"]
           bm == m["baggage"]
           handled == h.desk * HandlingPerDesk
           carried == (h.desk \div 2) * BagsPerPorter
<1>7. handled \in Nat /\ carried \in Nat
  <2>1. h.desk \div 2 \in Nat /\ HandlingPerDesk \in Nat /\ BagsPerPorter \in Nat
    BY <1>1, CampaignAssumption
  <2>2. QED BY <1>1, <2>1, ProductsAre
<1>8. \A s \in Sources : m[s] \in Nat
  BY <1>3, <1>6
<1>9. /\ Throughput(h).served = tl - (Large(0, tl - bl - handled) + Large(0, bl - carried))
      /\ Throughput(h).unserved = Large(0, tl - bl - handled) + Large(0, bl - carried)
      /\ Throughput(h).cause = IF Large(0, tl - bl - handled) + Large(0, bl - carried) = 0 THEN "none"
                               ELSE IF Large(0, tl - bl - handled) >= Large(0, bl - carried)
                                    THEN "desk" ELSE "bags"
  BY DEF Throughput
<1>10. Throughput(g).unserved = Large(0, tm - bm - handled) + Large(0, bm - carried)
  BY <1>1 DEF Throughput
<1> HIDE DEF D, l, m, handled, carried
<1>11. tl \in Nat /\ bl \in Nat /\ tl - bl \in Nat
       /\ tl - bl = SumFunctionOnSet(l, Sources \ {"baggage"})
  BY <1>4, <1>5, TotalsAre
<1>12. tm \in Nat /\ bm \in Nat /\ tm - bm \in Nat
       /\ tm - bm = SumFunctionOnSet(m, Sources \ {"baggage"})
  BY <1>4, <1>8, TotalsAre
<1>13. tl - bl <= tm - bm
  <2> DEFINE R == Sources \ {"baggage"}
  <2>1. IsFiniteSet(R)
    BY SourcesAre, FS_RemoveElement
  <2>2. \A s \in R : l[s] \in Int /\ m[s] \in Int /\ l[s] <= m[s]
    BY <1>3, <1>5, <1>6
  <2> HIDE DEF R
  <2>3. SumFunctionOnSet(l, R) <= SumFunctionOnSet(m, R)
    BY <2>1, <2>2, SumsCompare
  <2>4. QED BY <1>11, <1>12, <2>3 DEF R
<1>14. bl <= bm
  BY <1>5, <1>6, SourcesAre
<1> HIDE DEF tl, tm, bl, bm
<1> DEFINE a == Large(0, tl - bl - handled)
           b == Large(0, bl - carried)
           c == Large(0, tm - bm - handled)
           d == Large(0, bm - carried)
<1>15. a \in Nat /\ b \in Nat /\ c \in Nat /\ d \in Nat /\ a <= c /\ b <= d /\ a <= tl - bl /\ b <= bl
  BY <1>7, <1>11, <1>12, <1>13, <1>14 DEF Large
<1>16. /\ Throughput(h).served = tl - (a + b) /\ Throughput(h).unserved = a + b
       /\ Throughput(g).unserved = c + d
       /\ Throughput(h).cause = IF a + b = 0 THEN "none" ELSE IF a >= b THEN "desk" ELSE "bags"
  BY <1>9, <1>10
<1> HIDE DEF a, b, c, d
<1>17. /\ Throughput(h).served \in Nat /\ Throughput(h).unserved \in Nat
       /\ Throughput(g).unserved \in Nat
       /\ Throughput(h).unserved <= Throughput(g).unserved
  BY <1>11, <1>15, <1>16
<1>18. Throughput(h).cause = "none" <=> Throughput(h).unserved = 0
  BY <1>15, <1>16
<1>19. QED BY <1>5, <1>17, <1>18 DEF D, l, g

(* The stars.                                                              *)

LEMMA StandardsAre ==
  /\ DOMAIN StarStandards = 1 .. 5 /\ Len(StarStandards) = 5
  /\ \A n \in 1 .. 5 :
       /\ DOMAIN StarStandards[n] = {"room", "reception", "maintenance", "facilities"}
       /\ StarStandards[n].room \in Nat /\ StarStandards[n].reception \in Nat \ {0}
<1>1. DOMAIN StarStandards = 1 .. 5 /\ Len(StarStandards) = 5
  BY DEF StarStandards
<1>2. ASSUME NEW n \in 1 .. 5
      PROVE  /\ DOMAIN StarStandards[n] = {"room", "reception", "maintenance", "facilities"}
             /\ StarStandards[n].room \in Nat /\ StarStandards[n].reception \in Nat \ {0}
  <2>1. CASE n = 1
    <3>1. StarStandards[1] = [room |-> 25, reception |-> 25, maintenance |-> 25, facilities |-> 0]
      BY DEF StarStandards
    <3>2. QED BY <2>1, <3>1
  <2>2. CASE n = 2
    <3>1. StarStandards[2] = [room |-> 40, reception |-> 40, maintenance |-> 40, facilities |-> 15]
      BY DEF StarStandards
    <3>2. QED BY <2>2, <3>1
  <2>3. CASE n = 3
    <3>1. StarStandards[3] = [room |-> 60, reception |-> 60, maintenance |-> 60, facilities |-> 40]
      BY DEF StarStandards
    <3>2. QED BY <2>3, <3>1
  <2>4. CASE n = 4
    <3>1. StarStandards[4] = [room |-> 75, reception |-> 75, maintenance |-> 75, facilities |-> 65]
      BY DEF StarStandards
    <3>2. QED BY <2>4, <3>1
  <2>5. CASE n = 5
    <3>1. StarStandards[5] = [room |-> 88, reception |-> 90, maintenance |-> 88, facilities |-> 85]
      BY DEF StarStandards
    <3>2. QED BY <2>5, <3>1
  <2>6. n = 1 \/ n = 2 \/ n = 3 \/ n = 4 \/ n = 5
    OBVIOUS
  <2>7. QED BY <2>1, <2>2, <2>3, <2>4, <2>5, <2>6
<1>3. QED BY <1>1, <1>2

LEMMA LeastOfSome ==
  ASSUME NEW S, S \subseteq Nat, S # {}
  PROVE  Min(S) \in S /\ \A n \in S : Min(S) <= n
  BY LeastNumber DEF Min

LEMMA StarsAre ==
  ASSUME NEW h \in LobbyStates, NEW sqm \in Nat
  PROVE  LET c == Classify(ScoresOf(h, sqm))
         IN  /\ c.stars \in 0 .. 5
             /\ \A n \in 1 .. c.stars : h.condition >= StarStandards[n].room
                                        /\ 100 - 10 * h.queue >= StarStandards[n].reception
             /\ c.stars < Len(StarStandards) => c.blockedBy # {}
<1> DEFINE s == ScoresOf(h, sqm)
           missed == {n \in DOMAIN StarStandards : Fails(s, StarStandards[n]) # {}}
           c == Classify(s)
<1>1. /\ s.room = h.condition /\ s.reception = Large(0, 100 - 10 * h.queue)
      /\ h.condition \in Nat /\ h.queue \in Nat
  BY LobbyStateIs DEF ScoresOf
<1>2. c = IF missed = {} THEN [stars |-> Len(StarStandards), blockedBy |-> {}]
          ELSE [stars |-> Min(missed) - 1, blockedBy |-> Fails(s, StarStandards[Min(missed)])]
  BY DEF Classify
<1>3. \A n \in 1 .. 5 : n \in missed <=> Fails(s, StarStandards[n]) # {}
  BY StandardsAre
<1>4. missed \subseteq 1 .. 5
  BY StandardsAre
<1> HIDE DEF s, missed
<1>5. \A n \in 1 .. 5 : n \notin missed =>
        h.condition >= StarStandards[n].room /\ 100 - 10 * h.queue >= StarStandards[n].reception
  <2> SUFFICES ASSUME NEW n \in 1 .. 5, n \notin missed
               PROVE  h.condition >= StarStandards[n].room /\ 100 - 10 * h.queue >= StarStandards[n].reception
    OBVIOUS
  <2>1. Fails(s, StarStandards[n]) = {}
    BY <1>3
  <2>2. ~(s.room < StarStandards[n].room) /\ ~(s.reception < StarStandards[n].reception)
    BY <2>1, StandardsAre DEF Fails
  <2>3. StarStandards[n].room \in Nat /\ StarStandards[n].reception \in Nat \ {0}
    BY StandardsAre
  <2>4. QED BY <1>1, <2>2, <2>3 DEF Large
<1>6. CASE missed = {}
  <2>1. c.stars = 5
    BY <1>2, <1>6, StandardsAre
  <2> HIDE DEF c
  <2>2. \A n \in 1 .. c.stars : n \in 1 .. 5 /\ n \notin missed
    BY <1>6, <2>1
  <2>3. c.stars \in 0 .. 5 /\ ~(c.stars < Len(StarStandards))
    BY <2>1, StandardsAre
  <2>4. QED BY <1>5, <2>2, <2>3 DEF c, s
<1>7. CASE missed # {}
  <2>1. missed \subseteq Nat
    BY <1>4
  <2>2. Min(missed) \in missed /\ \A n \in missed : Min(missed) <= n
    BY <1>7, <2>1, LeastOfSome
  <2>3. c.stars = Min(missed) - 1 /\ c.blockedBy = Fails(s, StarStandards[Min(missed)])
    BY <1>2, <1>7
  <2> HIDE DEF c
  <2>4. Min(missed) \in 1 .. 5
    BY <1>4, <2>2
  <2>5. \A n \in 1 .. c.stars : n \in 1 .. 5 /\ n \notin missed
    BY <2>2, <2>3, <2>4
  <2>6. c.blockedBy # {}
    BY <1>3, <2>2, <2>3, <2>4
  <2>7. c.stars \in 0 .. 5
    BY <2>3, <2>4
  <2>8. QED BY <1>5, <2>5, <2>6, <2>7 DEF c, s
<1>8. QED BY <1>6, <1>7

(* What the owners put in, and the loans.                                  *)

FundsOn(f, t) ==
  /\ DOMAIN f = {"cash", "contributed", "posted", "bought"}
  /\ f.cash \in Int /\ f.contributed \in Int /\ f.posted \in Int /\ f.bought \in Int
  /\ f.contributed = OpeningUnder(t) /\ f.posted = f.contributed
  /\ f.cash = f.contributed - f.bought

LEMMA FundsFollow ==
  ASSUME NEW f, NEW t, NEW u, OnTerms(t), OnTerms(u), FundsOn(f, t)
  PROVE  FundsOn(OpenedUnder(f, t, u), u)
<1> DEFINE delta == OpeningUnder(u) - OpeningUnder(t)
           g == [f EXCEPT !.cash = @ + delta, !.contributed = @ + delta, !.posted = @ + delta]
<1>1. OpeningUnder(u) \in Int /\ OpeningUnder(t) \in Int
  BY OpeningIs
<1>2. delta \in Int /\ OpeningUnder(u) = OpeningUnder(t) + delta
  BY <1>1
<1>3. OpenedUnder(f, t, u) = g
  BY DEF OpenedUnder
<1> HIDE DEF delta
<1>4. /\ DOMAIN f = {"cash", "contributed", "posted", "bought"}
      /\ f.cash \in Int /\ f.contributed \in Int /\ f.posted \in Int /\ f.bought \in Int
      /\ f.contributed = OpeningUnder(t) /\ f.posted = f.contributed
      /\ f.cash = f.contributed - f.bought
  BY DEF FundsOn
<1>5. /\ DOMAIN g = {"cash", "contributed", "posted", "bought"}
      /\ g.cash = f.cash + delta /\ g.contributed = f.contributed + delta
      /\ g.posted = f.posted + delta /\ g.bought = f.bought
  BY <1>4
<1> HIDE DEF g
<1>6. QED BY <1>2, <1>3, <1>4, <1>5 DEF FundsOn

LEMMA FundsMove ==
  ASSUME NEW f, NEW t, FundsOn(f, t), NEW n \in Int
  PROVE  /\ FundsOn([f EXCEPT !.cash = @ - n, !.bought = @ + n], t)
         /\ FundsOn([f EXCEPT !.cash = @ + n, !.bought = @ - n], t)
<1> DEFINE g == [f EXCEPT !.cash = @ - n, !.bought = @ + n]
           h == [f EXCEPT !.cash = @ + n, !.bought = @ - n]
<1>1. /\ DOMAIN f = {"cash", "contributed", "posted", "bought"}
      /\ f.cash \in Int /\ f.contributed \in Int /\ f.posted \in Int /\ f.bought \in Int
      /\ f.contributed = OpeningUnder(t) /\ f.posted = f.contributed
      /\ f.cash = f.contributed - f.bought
  BY DEF FundsOn
<1>2. /\ DOMAIN g = {"cash", "contributed", "posted", "bought"}
      /\ g.cash = f.cash - n /\ g.contributed = f.contributed
      /\ g.posted = f.posted /\ g.bought = f.bought + n
  BY <1>1
<1>3. /\ DOMAIN h = {"cash", "contributed", "posted", "bought"}
      /\ h.cash = f.cash + n /\ h.contributed = f.contributed
      /\ h.posted = f.posted /\ h.bought = f.bought - n
  BY <1>1
<1> HIDE DEF g, h
<1>4. FundsOn(g, t)
  BY <1>1, <1>2 DEF FundsOn
<1>5. FundsOn(h, t)
  BY <1>1, <1>3 DEF FundsOn
<1>6. QED BY <1>4, <1>5 DEF g, h

Loans == [opening : BOOLEAN, rate : Nat, agreed : Nat]

DebtsOn(d, t) ==
  /\ d \in Seq(Loans)
  /\ \A i \in DOMAIN d : d[i].opening => i = 1 /\ d[i].rate = RateUnder(t)

LEMMA RateIs == ASSUME NEW t, OnTerms(t) PROVE RateUnder(t) \in Nat
<1>1. Of(t).spread \in Nat /\ OpeningRate \in Nat
  BY OfTerms, CampaignAssumption DEF TermFields
<1>2. QED BY <1>1, ScaledIs DEF RateUnder

LEMMA DebtsRepriced ==
  ASSUME NEW d, NEW t, NEW u, OnTerms(u), DebtsOn(d, t), d # <<>>
  PROVE  DebtsOn([d EXCEPT ![1].rate = RateUnder(u)], u)
<1> DEFINE e == [d EXCEPT ![1].rate = RateUnder(u)]
<1>1. d \in Seq(Loans) /\ \A i \in DOMAIN d : d[i].opening => i = 1
  BY DEF DebtsOn
<1>2. Len(d) \in Nat \ {0} /\ DOMAIN d = 1 .. Len(d) /\ 1 \in DOMAIN d
  BY <1>1
<1>3. RateUnder(u) \in Nat
  BY RateIs
<1>4. d[1] \in Loans
  BY <1>1, <1>2
<1>5. DOMAIN e = DOMAIN d /\ e[1] = [d[1] EXCEPT !.rate = RateUnder(u)]
      /\ \A i \in DOMAIN d : i # 1 => e[i] = d[i]
  BY <1>2
<1>6. e[1] \in Loans /\ e[1].rate = RateUnder(u) /\ e[1].opening = d[1].opening
  BY <1>3, <1>4, <1>5 DEF Loans
<1>7. e \in Seq(Loans)
  BY <1>1, <1>2, <1>3, <1>4 DEF Loans
<1> HIDE DEF e
<1>8. \A i \in DOMAIN e : e[i].opening => i = 1 /\ e[i].rate = RateUnder(u)
  <2> SUFFICES ASSUME NEW i \in DOMAIN e, e[i].opening PROVE i = 1 /\ e[i].rate = RateUnder(u)
    OBVIOUS
  <2>1. CASE i = 1
    BY <1>6, <2>1
  <2>2. CASE i # 1
    BY <1>1, <1>5, <2>2
  <2>3. QED BY <2>1, <2>2
<1>9. QED BY <1>7, <1>8 DEF DebtsOn, e

LEMMA DebtsRepaid ==
  ASSUME NEW d, NEW t, DebtsOn(d, t), d # <<>>
  PROVE  DebtsOn(Tail(d), t)
<1>1. d \in Seq(Loans) /\ \A i \in DOMAIN d : d[i].opening => i = 1
  BY DEF DebtsOn
<1>2. Tail(d) \in Seq(Loans) /\ Len(Tail(d)) = Len(d) - 1
      /\ \A i \in 1 .. Len(d) - 1 : Tail(d)[i] = d[i + 1]
  BY <1>1
<1>3. \A i \in DOMAIN Tail(d) : ~Tail(d)[i].opening
  <2> SUFFICES ASSUME NEW i \in DOMAIN Tail(d) PROVE ~Tail(d)[i].opening
    OBVIOUS
  <2>1. Len(d) \in Nat /\ i \in 1 .. Len(d) - 1 /\ i + 1 \in DOMAIN d /\ i + 1 # 1
    BY <1>1, <1>2
  <2>2. Tail(d)[i] = d[i + 1]
    BY <1>2, <2>1
  <2>3. QED BY <1>1, <2>1, <2>2
<1>4. QED BY <1>2, <1>3 DEF DebtsOn

LEMMA DebtsTaken ==
  ASSUME NEW d, NEW t, DebtsOn(d, t), NEW r \in Nat
  PROVE  DebtsOn(Append(d, [opening |-> FALSE, rate |-> r, agreed |-> r]), t)
<1> DEFINE l == [opening |-> FALSE, rate |-> r, agreed |-> r]
           e == Append(d, l)
<1>1. d \in Seq(Loans) /\ \A i \in DOMAIN d : d[i].opening => i = 1 /\ d[i].rate = RateUnder(t)
  BY DEF DebtsOn
<1>2. l \in Loans /\ ~l.opening
  BY DEF Loans
<1> HIDE DEF l
<1>3. e \in Seq(Loans) /\ Len(e) = Len(d) + 1 /\ e[Len(d) + 1] = l
      /\ \A i \in 1 .. Len(d) : e[i] = d[i]
  BY <1>1, <1>2
<1> HIDE DEF e
<1>4. \A i \in DOMAIN e : e[i].opening => i = 1 /\ e[i].rate = RateUnder(t)
  <2> SUFFICES ASSUME NEW i \in DOMAIN e, e[i].opening PROVE i = 1 /\ e[i].rate = RateUnder(t)
    OBVIOUS
  <2>1. Len(d) \in Nat /\ DOMAIN d = 1 .. Len(d) /\ i \in 1 .. Len(d) + 1
    BY <1>1, <1>3
  <2>2. i # Len(d) + 1
    BY <1>2, <1>3
  <2>3. i \in DOMAIN d /\ e[i] = d[i]
    BY <1>3, <2>1, <2>2
  <2>4. QED BY <1>1, <2>3
<1>5. QED BY <1>3, <1>4 DEF DebtsOn, e, l

(* The invariant.                                                          *)

TermsStand == OnTerms(terms) /\ begun \in BOOLEAN /\ FundsOn(funding, terms) /\ DebtsOn(debts, terms)

DrawnForecast(f) == \E b, k \in Nat : k <= 100 /\ f = ForecastBand(b, k)

ForecastDrawn ==
  /\ DOMAIN research = {"quality", "forecast"}
  /\ research.quality \in Nat /\ research.quality <= 100 /\ wanted \in Nat
  /\ DrawnForecast(research.forecast)
  /\ DOMAIN spells = {"lobbies", "months"} /\ spells.lobbies \in Nat /\ spells.months \in Nat
  /\ spells.months > 0 => begun /\ research.forecast = ForecastUnder(wanted, research.quality, terms)

HouseSeen ==
  /\ service \in LobbyStates /\ floor \in Nat
  /\ lobby = Throughput(service) \/ lobby = [served |-> 0, unserved |-> 0, cause |-> "none"]
  /\ starsTold = stars.stars
  /\ ~begun => stars.stars = 0
  /\ begun => \E f \in Nat : stars = Classify(ScoresOf(service, f))

CityMoves ==
  /\ rival.rate \in Nat /\ 1 <= rival.rate /\ rival.rate <= Large(LeastRate, TopWillingness)
  /\ rival.appeal \in Nat /\ 4000 <= rival.appeal /\ rival.appeal <= Neutral
  /\ rival.relation \in Int
  /\ labour \in LeastPressure .. TopPressure /\ danger.risk \in 0 .. Neutral
  /\ patience \in 0 .. 100

CampaignInv == TermsStand /\ ForecastDrawn /\ HouseSeen /\ CityMoves

LEMMA CityMonthIs ==
  ASSUME NEW c \in CityMonths
  PROVE  /\ c.nights \in Nat /\ c.rate \in Nat /\ c.occupancy \in Nat /\ c.interest \in Nat
         /\ c.pressure \in LeastPressure .. TopPressure
  BY CampaignAssumption

LEMMA ForecastIs ==
  ASSUME NEW t, OnTerms(t), NEW b \in Nat, NEW q \in Nat
  PROVE  DrawnForecast(ForecastUnder(b, q, t)) /\ ForecastUnder(b, q, t) = ForecastBand(b, Known(q, t))
<1>1. Known(q, t) \in Nat /\ Known(q, t) <= 100
  BY KnownIs
<1>2. ForecastUnder(b, q, t) = ForecastBand(b, Known(q, t))
  BY DEF ForecastUnder
<1>3. QED BY <1>1, <1>2 DEF DrawnForecast

LEMMA GoodwillIs ==
  ASSUME NEW t, OnTerms(t), NEW score \in Int, NEW delta \in Int
  PROVE  GoodwillAfter(score, delta, t) \in 0 .. 100
<1>1. Of(t).tolerance \in Nat \ {0}
  BY OfTerms DEF TermFields
<1>2. Tolerated(delta, t) \in Int
  <2>1. CASE delta >= 0
    BY <2>1 DEF Tolerated
  <2>2. CASE ~(delta >= 0)
    <3>1. -delta \in Nat
      BY <2>2
    <3>2. InverselyScaled(-delta, Of(t).tolerance) \in Nat
      BY <1>1, <3>1, SparedIs
    <3>3. Tolerated(delta, t) = -InverselyScaled(-delta, Of(t).tolerance)
      BY <2>2 DEF Tolerated
    <3>4. QED BY <3>2, <3>3
  <2>3. QED BY <2>1, <2>2
<1>3. score + Tolerated(delta, t) \in Int
  BY <1>2
<1> DEFINE v == score + Tolerated(delta, t)
<1>4. GoodwillAfter(score, delta, t) = Bounded(0, 100, v)
  BY DEF GoodwillAfter
<1> HIDE DEF v
<1>5. v \in Int
  BY <1>3 DEF v
<1>6. QED BY <1>4, <1>5 DEF Bounded, Large, Small

LEMMA FeeIs == ASSUME NEW t, OnTerms(t) PROVE ReportFee(t) \in Int
<1> DEFINE a == Of(t).assistance
<1>1. a \in Nat \ {0} /\ ReportCost \in Nat
  BY OfTerms, CampaignAssumption DEF TermFields
<1>2. ReportFee(t) = (ReportCost * Neutral + a - 1) \div a
  BY DEF ReportFee
<1> HIDE DEF a
<1>3. ReportCost * Neutral + a - 1 \in Int
  BY <1>1 DEF Neutral
<1>4. QED BY <1>1, <1>2, <1>3, QuotientsAre

LEMMA CampaignBegins == CampaignInit => CampaignInv
<1> SUFFICES ASSUME CampaignInit PROVE CampaignInv
  OBVIOUS
<1>1. OnTerms(terms)
  BY DEF CampaignInit, Standard, DefaultSandbox, OnTerms, Difficulties, Neutral
<1>2. Of(terms).capital = Neutral /\ Of(terms).spread = Neutral /\ terms.sandbox["capital"] = Neutral
  BY DEF CampaignInit, Standard, Preset, Of, DefaultSandbox, Levers, Neutral
<1>3. \A v \in Nat : ScaledBy(v, Neutral) = v
  BY DEF ScaledBy, Neutral
<1>4. OpeningCapital \in Nat /\ OpeningRate \in Nat
  BY CampaignAssumption
<1>5. OpeningUnder(terms) = OpeningCapital /\ RateUnder(terms) = OpeningRate
  BY <1>2, <1>3, <1>4 DEF OpeningUnder, RateUnder
<1>6. FundsOn(funding, terms)
  BY <1>4, <1>5 DEF CampaignInit, FundsOn
<1>7. DebtsOn(debts, terms)
  <2> DEFINE l == [opening |-> TRUE, rate |-> OpeningRate, agreed |-> OpeningRate]
  <2>1. l \in Loans /\ l.rate = OpeningRate
    BY <1>4 DEF Loans
  <2>2. debts = <<l>>
    BY DEF CampaignInit
  <2> HIDE DEF l
  <2>3. debts \in Seq(Loans) /\ DOMAIN debts = {1} /\ debts[1] = l
    BY <2>1, <2>2
  <2>4. QED BY <1>5, <2>1, <2>3 DEF DebtsOn
<1>8. TermsStand
  BY <1>1, <1>6, <1>7 DEF TermsStand, CampaignInit
<1>9. PICK first \in CityMonths :
        /\ wanted = first.nights
        /\ research = [quality |-> 0, forecast |-> ForecastBand(first.nights, 0)]
        /\ rival = [rate |-> OwnRate, appeal |-> Neutral, relation |-> 50]
        /\ labour = first.pressure
  BY DEF CampaignInit
<1>10. first.nights \in Nat /\ first.pressure \in LeastPressure .. TopPressure
  BY CityMonthIs
<1>11. ForecastDrawn
  <2>1. DrawnForecast(ForecastBand(first.nights, 0))
    BY <1>10 DEF DrawnForecast
  <2>2. DOMAIN research = {"quality", "forecast"} /\ research.quality = 0
        /\ research.forecast = ForecastBand(first.nights, 0) /\ wanted = first.nights
    BY <1>9
  <2>3. spells = [lobbies |-> 0, months |-> 0]
    BY DEF CampaignInit
  <2>4. DOMAIN spells = {"lobbies", "months"} /\ spells.lobbies = 0 /\ spells.months = 0
    BY <2>3
  <2>5. QED BY <1>10, <2>1, <2>2, <2>4 DEF ForecastDrawn
<1>12. HouseSeen
  BY DEF CampaignInit, HouseSeen
<1>13. CityMoves
  <2>1. OwnRate \in 1 .. TopWillingness /\ LeastRate \in Nat /\ TopWillingness \in Nat
    BY CampaignAssumption
  <2>2. rival.rate = OwnRate /\ rival.appeal = Neutral /\ rival.relation = 50 /\ labour = first.pressure
    BY <1>9
  <2>3. rival.rate \in Nat /\ 1 <= rival.rate /\ rival.rate <= Large(LeastRate, TopWillingness)
    BY <2>1, <2>2 DEF Large
  <2>4. Neutral \in Nat /\ 4000 <= Neutral
    BY DEF Neutral
  <2>5. danger.risk = 0 /\ patience = 60
    BY DEF CampaignInit
  <2>6. QED BY <1>10, <2>2, <2>3, <2>4, <2>5 DEF CityMoves
<1>14. QED BY <1>8, <1>11, <1>12, <1>13 DEF CampaignInv

LEMMA TermsAreSet ==
  ASSUME CampaignInv, NEW chosen, OnTerms(chosen), ~begun, terms' = chosen,
         funding' = OpenedUnder(funding, terms, chosen), DebtsOn(debts', chosen),
         UNCHANGED <<begun, research, wanted, patience, rival, labour, danger, placeVars, spells>>
  PROVE  CampaignInv'
<1>1. TermsStand'
  BY FundsFollow DEF CampaignInv, TermsStand
<1>2. ForecastDrawn'
  BY DEF CampaignInv, ForecastDrawn
<1>3. HouseSeen'
  BY DEF CampaignInv, HouseSeen, placeVars
<1>4. CityMoves'
  BY DEF CampaignInv, CityMoves
<1>5. QED BY <1>1, <1>2, <1>3, <1>4 DEF CampaignInv

LEMMA DifficultySet ==
  ASSUME CampaignInv, NEW d \in Difficulties, SetDifficulty(d), UNCHANGED spells
  PROVE  CampaignInv'
<1> DEFINE chosen == [terms EXCEPT !.difficulty = d]
<1>1. /\ ~begun /\ terms' = chosen /\ funding' = OpenedUnder(funding, terms, chosen)
      /\ debts' = IF debts = <<>> THEN debts ELSE [debts EXCEPT ![1].rate = RateUnder(chosen)]
      /\ UNCHANGED <<begun, research, wanted, patience, rival, labour, danger, placeVars>>
  BY DEF SetDifficulty
<1>2. OnTerms(chosen)
  BY DEF CampaignInv, TermsStand, OnTerms
<1> HIDE DEF chosen
<1>3. DebtsOn(debts', chosen)
  <2>1. DebtsOn(debts, terms)
    BY DEF CampaignInv, TermsStand
  <2>2. CASE debts = <<>>
    BY <1>1, <2>1, <2>2 DEF DebtsOn
  <2>3. CASE debts # <<>>
    BY <1>1, <1>2, <2>1, <2>3, DebtsRepriced
  <2>4. QED BY <2>2, <2>3
<1>4. UNCHANGED <<begun, research, wanted, patience, rival, labour, danger, placeVars, spells>>
  BY <1>1
<1>5. QED BY <1>1, <1>2, <1>3, <1>4, TermsAreSet

LEMMA SandboxSet ==
  ASSUME CampaignInv, NEW l \in Turned, NEW v \in Settings, SetSandbox(l, v), UNCHANGED spells
  PROVE  CampaignInv'
<1> DEFINE chosen == [terms EXCEPT !.sandbox[l] = v]
<1>1. /\ ~begun /\ terms' = chosen /\ funding' = OpenedUnder(funding, terms, chosen)
      /\ UNCHANGED <<settingVars, begun, research, patience, placeVars>>
  BY DEF SetSandbox
<1>2. OnTerms(terms) /\ l \in Levers /\ v \in Nat
  BY CampaignAssumption DEF CampaignInv, TermsStand
<1>3. OnTerms(chosen) /\ chosen.difficulty = terms.difficulty
  BY <1>2 DEF OnTerms
<1> HIDE DEF chosen
<1>4. RateUnder(chosen) = RateUnder(terms)
  BY <1>3 DEF RateUnder, Of
<1>5. DebtsOn(debts', chosen)
  BY <1>1, <1>4 DEF CampaignInv, TermsStand, DebtsOn, settingVars
<1>6. UNCHANGED <<begun, research, wanted, patience, rival, labour, danger, placeVars, spells>>
  BY <1>1 DEF settingVars
<1>7. QED BY <1>1, <1>3, <1>5, <1>6, TermsAreSet

\* Money comes and goes before the first quantum, and after it.
LEMMA MoneyMoves ==
  ASSUME CampaignInv, FundsOn(funding', terms), DebtsOn(debts', terms),
         UNCHANGED <<terms, begun, research, wanted, patience, rival, labour, danger, placeVars, spells>>
  PROVE  CampaignInv'
<1>1. TermsStand'
  BY DEF CampaignInv, TermsStand
<1>2. ForecastDrawn'
  BY DEF CampaignInv, ForecastDrawn
<1>3. HouseSeen'
  BY DEF CampaignInv, HouseSeen, placeVars
<1>4. CityMoves'
  BY DEF CampaignInv, CityMoves
<1>5. QED BY <1>1, <1>2, <1>3, <1>4 DEF CampaignInv

LEMMA LoansMove ==
  ASSUME CampaignInv, RepayFirst \/ (\E rate \in BankRates : TakeNewLoan(rate)), UNCHANGED spells
  PROVE  CampaignInv'
<1>1. FundsOn(funding, terms) /\ DebtsOn(debts, terms) /\ OpeningDebt \in Int
  BY CampaignAssumption DEF CampaignInv, TermsStand
<1>2. CASE RepayFirst
  <2>1. /\ debts # <<>> /\ debts' = Tail(debts)
        /\ funding' = [funding EXCEPT !.cash = @ - OpeningDebt, !.bought = @ + OpeningDebt]
        /\ UNCHANGED <<terms, begun, research, wanted, patience, rival, labour, danger, placeVars, spells>>
    BY <1>2 DEF RepayFirst
  <2>2. FundsOn(funding', terms) /\ DebtsOn(debts', terms)
    BY <1>1, <2>1, FundsMove, DebtsRepaid
  <2>3. QED BY <2>1, <2>2, MoneyMoves
<1>3. CASE \E rate \in BankRates : TakeNewLoan(rate)
  <2>1. PICK rate \in BankRates : TakeNewLoan(rate)
    BY <1>3
  <2>2. /\ debts' = Append(debts, [opening |-> FALSE, rate |-> rate, agreed |-> rate])
        /\ funding' = [funding EXCEPT !.cash = @ + OpeningDebt, !.bought = @ - OpeningDebt]
        /\ UNCHANGED <<terms, begun, research, wanted, patience, rival, labour, danger, placeVars, spells>>
    BY <2>1 DEF TakeNewLoan
  <2>3. rate \in Nat
    BY CampaignAssumption
  <2>4. FundsOn(funding', terms) /\ DebtsOn(debts', terms)
    BY <1>1, <2>2, <2>3, FundsMove, DebtsTaken
  <2>5. QED BY <2>2, <2>4, MoneyMoves
<1>4. QED BY <1>2, <1>3

LEMMA ReportBought ==
  ASSUME CampaignInv, BuyResearch, UNCHANGED spells
  PROVE  CampaignInv'
<1>1. /\ funding' = [funding EXCEPT !.cash = @ - ReportFee(terms), !.bought = @ + ReportFee(terms)]
      /\ research' = [quality |-> QualityAfterReport(research.quality),
                      forecast |-> ForecastUnder(wanted, QualityAfterReport(research.quality), terms)]
      /\ UNCHANGED <<terms, begun, patience, debts, wanted, rival, labour, danger, placeVars, spells>>
  BY DEF BuyResearch, settingVars
<1>2. /\ OnTerms(terms) /\ FundsOn(funding, terms) /\ DebtsOn(debts, terms)
      /\ wanted \in Nat /\ research.quality \in Nat /\ research.quality <= 100
  BY DEF CampaignInv, TermsStand, ForecastDrawn
<1>3. FundsOn(funding', terms)
  BY <1>1, <1>2, FeeIs, FundsMove
<1> DEFINE q == QualityAfterReport(research.quality)
<1>4. q \in Nat /\ q <= 100
  BY <1>2, ReportTells
<1>5. research' = [quality |-> q, forecast |-> ForecastUnder(wanted, q, terms)]
  BY <1>1
<1> HIDE DEF q
<1>6. DrawnForecast(ForecastUnder(wanted, q, terms))
  BY <1>2, <1>4, ForecastIs
<1>7. TermsStand'
  BY <1>1, <1>2, <1>3 DEF CampaignInv, TermsStand
<1>8. ForecastDrawn'
  <2>1. /\ DOMAIN research' = {"quality", "forecast"} /\ research'.quality = q
        /\ research'.forecast = ForecastUnder(wanted, q, terms)
    BY <1>5
  <2>2. /\ DOMAIN spells = {"lobbies", "months"} /\ spells.lobbies \in Nat /\ spells.months \in Nat
        /\ spells.months > 0 => begun
    BY DEF CampaignInv, ForecastDrawn
  <2>3. QED BY <1>1, <1>2, <1>4, <1>6, <2>1, <2>2 DEF ForecastDrawn
<1>9. HouseSeen'
  BY <1>1 DEF CampaignInv, HouseSeen, placeVars
<1>10. CityMoves'
  BY <1>1 DEF CampaignInv, CityMoves
<1>11. QED BY <1>7, <1>8, <1>9, <1>10 DEF CampaignInv

LEMMA FacilityExpanded ==
  ASSUME CampaignInv, ExpandFacility, UNCHANGED spells
  PROVE  CampaignInv'
<1>1. /\ funding' = [funding EXCEPT !.cash = @ - ExpansionCost, !.bought = @ + ExpansionCost]
      /\ floor' = floor + 60
      /\ UNCHANGED <<terms, begun, research, patience, debts, wanted, rival, labour, danger, service,
                     lobby, stars, starsTold, spells>>
  BY DEF ExpandFacility, settingVars
<1>2. ExpansionCost \in Int
  BY CampaignAssumption
<1>3. TermsStand'
  BY <1>1, <1>2, FundsMove DEF CampaignInv, TermsStand
<1>4. ForecastDrawn'
  BY <1>1 DEF CampaignInv, ForecastDrawn
<1>5. HouseSeen'
  BY <1>1 DEF CampaignInv, HouseSeen
<1>6. CityMoves'
  BY <1>1 DEF CampaignInv, CityMoves
<1>7. QED BY <1>3, <1>4, <1>5, <1>6 DEF CampaignInv

LEMMA QuantumSeen ==
  ASSUME CampaignInv, NEW h \in LobbyStates, NEW sorry \in Recoveries, LobbyQuantum(h, sorry)
  PROVE  CampaignInv'
<1>1. /\ begun' = TRUE /\ service' = h
      /\ patience' = IF h.queue = 0 THEN patience
                     ELSE GoodwillAfter(GoodwillAfter(patience, -4, terms), sorry, terms)
      /\ lobby' = Throughput(h) /\ stars' = Classify(ScoresOf(h, floor))
      /\ starsTold' = IF stars'.stars # stars.stars THEN stars'.stars ELSE starsTold
      /\ spells' = [spells EXCEPT !.lobbies = @ + 1]
      /\ UNCHANGED <<debts, wanted, rival, labour, danger, terms, funding, research, floor, turns>>
  BY DEF LobbyQuantum, settingVars
<1>2. OnTerms(terms) /\ patience \in 0 .. 100 /\ sorry \in Int
  BY CampaignAssumption DEF CampaignInv, TermsStand, CityMoves
<1>3. TermsStand'
  BY <1>1 DEF CampaignInv, TermsStand
<1>4. ForecastDrawn'
  <2>1. DOMAIN spells = {"lobbies", "months"} /\ spells.lobbies \in Nat /\ spells.months \in Nat
    BY DEF CampaignInv, ForecastDrawn
  <2>2. /\ DOMAIN spells' = {"lobbies", "months"} /\ spells'.lobbies = spells.lobbies + 1
        /\ spells'.months = spells.months
    BY <1>1, <2>1
  <2>3. QED BY <1>1, <2>1, <2>2 DEF CampaignInv, ForecastDrawn
<1>5. HouseSeen'
  <2>1. floor \in Nat /\ starsTold = stars.stars
    BY DEF CampaignInv, HouseSeen
  <2>2. starsTold' = stars'.stars
    BY <1>1, <2>1
  <2>3. QED BY <1>1, <2>1, <2>2 DEF HouseSeen
<1>6. CityMoves'
  <2>1. patience' \in 0 .. 100
    <3>1. -4 \in Int /\ patience \in Int
      BY <1>2
    <3>2. GoodwillAfter(patience, -4, terms) \in 0 .. 100
      BY <1>2, <3>1, GoodwillIs
    <3>3. GoodwillAfter(patience, -4, terms) \in Int
      BY <3>2
    <3>4. GoodwillAfter(GoodwillAfter(patience, -4, terms), sorry, terms) \in 0 .. 100
      BY <1>2, <3>3, GoodwillIs
    <3>5. QED BY <1>1, <1>2, <3>4
  <2>2. QED BY <1>1, <2>1 DEF CampaignInv, CityMoves
<1>7. QED BY <1>3, <1>4, <1>5, <1>6 DEF CampaignInv

LEMMA PressureIs ==
  ASSUME NEW t, OnTerms(t), NEW p, p \in LeastPressure .. TopPressure
  PROVE  WagePressure(p, t) \in LeastPressure .. TopPressure
<1>1. LeastPressure \in Nat /\ TopPressure \in Nat /\ LeastPressure <= TopPressure
  BY DEF LeastPressure, TopPressure
<1>2. p \in Nat /\ Of(t).scarcity \in Nat
  BY <1>1, OfTerms DEF TermFields
<1>3. ScaledBy(p, Of(t).scarcity) \in Nat
  BY <1>2, ScaledIs
<1> DEFINE v == ScaledBy(p, Of(t).scarcity)
<1>4. WagePressure(p, t) = Bounded(LeastPressure, TopPressure, v)
  BY DEF WagePressure
<1>5. v \in Int
  BY <1>3
<1> HIDE DEF v
<1>6. LeastPressure \in Int /\ TopPressure \in Int
  BY <1>1
<1>7. QED BY <1>1, <1>4, <1>5, <1>6, BoundedIs

LEMMA MonthPassed ==
  ASSUME CampaignInv, NEW c \in CityMonths, NEW crisis \in BOOLEAN, MonthPasses(c, crisis)
  PROVE  CampaignInv'
<1>1. /\ begun /\ wanted' = c.nights
      /\ research' = [research EXCEPT !.forecast = ForecastUnder(c.nights, research.quality, terms)]
      /\ rival' = RivalAfter(rival, c.rate, c.occupancy, terms)
      /\ labour' = WagePressure(c.pressure, terms)
      /\ danger' = [risk |-> RiskOfCrisis(c.interest, terms), came |-> crisis]
      /\ spells' = [spells EXCEPT !.months = @ + 1]
      /\ UNCHANGED <<terms, funding, debts, begun, patience, placeVars, turns>>
  BY DEF MonthPasses
<1>2. /\ c.nights \in Nat /\ c.rate \in Nat /\ c.occupancy \in Nat /\ c.interest \in Nat
      /\ c.pressure \in LeastPressure .. TopPressure
  BY CityMonthIs
<1>3. OnTerms(terms)
  BY DEF CampaignInv, TermsStand
<1>4. TermsStand'
  BY <1>1 DEF CampaignInv, TermsStand
<1>5. ForecastDrawn'
  <2>1. /\ DOMAIN research = {"quality", "forecast"}
        /\ research.quality \in Nat /\ research.quality <= 100
        /\ DOMAIN spells = {"lobbies", "months"} /\ spells.lobbies \in Nat /\ spells.months \in Nat
    BY DEF CampaignInv, ForecastDrawn
  <2> DEFINE f == ForecastUnder(c.nights, research.quality, terms)
  <2>2. DrawnForecast(f)
    BY <1>2, <1>3, <2>1, ForecastIs
  <2>3. research' = [research EXCEPT !.forecast = f]
    BY <1>1
  <2>4. f = ForecastUnder(wanted', research.quality, terms')
    BY <1>1
  <2> HIDE DEF f
  <2>5. /\ DOMAIN research' = {"quality", "forecast"} /\ research'.quality = research.quality
        /\ research'.forecast = f
    BY <2>1, <2>3
  <2>6. /\ DOMAIN spells' = {"lobbies", "months"} /\ spells'.lobbies = spells.lobbies
        /\ spells'.months = spells.months + 1
    BY <1>1, <2>1
  <2>7. QED BY <1>1, <1>2, <2>1, <2>2, <2>4, <2>5, <2>6 DEF ForecastDrawn
<1>6. HouseSeen'
  BY <1>1 DEF CampaignInv, HouseSeen, placeVars
<1>7. CityMoves'
  <2>1. /\ rival.appeal \in Nat /\ 4000 <= rival.appeal /\ rival.appeal <= Neutral
        /\ rival.relation \in Int /\ patience \in 0 .. 100
    BY DEF CampaignInv, CityMoves
  <2>2. /\ rival'.rate \in Nat /\ 1 <= rival'.rate /\ rival'.rate <= Large(LeastRate, TopWillingness)
        /\ rival'.appeal \in Nat /\ 4000 <= rival'.appeal /\ rival'.appeal <= Neutral
        /\ rival'.relation \in Int
    BY <1>1, <1>2, <1>3, <2>1, RivalIs
  <2>3. labour' \in LeastPressure .. TopPressure
    BY <1>1, <1>2, <1>3, PressureIs
  <2>4. danger'.risk \in 0 .. Neutral
    BY <1>1, <1>2, <1>3, RiskIs
  <2>5. QED BY <1>1, <2>1, <2>2, <2>3, <2>4 DEF CityMoves
<1>8. QED BY <1>4, <1>5, <1>6, <1>7 DEF CampaignInv

LEMMA CampaignGoesOn == CampaignInv /\ [CampaignNext]_campaignVars => CampaignInv'
<1> SUFFICES ASSUME CampaignInv, [CampaignNext]_campaignVars PROVE CampaignInv'
  OBVIOUS
<1>1. CASE UNCHANGED spells /\ \E d \in Difficulties : SetDifficulty(d)
  BY <1>1, DifficultySet
<1>2. CASE UNCHANGED spells /\ \E l \in Turned, v \in Settings : SetSandbox(l, v)
  BY <1>2, SandboxSet
<1>3. CASE UNCHANGED spells /\ (RepayFirst \/ \E rate \in BankRates : TakeNewLoan(rate))
  BY <1>3, LoansMove
<1>4. CASE UNCHANGED spells /\ BuyResearch
  BY <1>4, ReportBought
<1>5. CASE UNCHANGED spells /\ ExpandFacility
  BY <1>5, FacilityExpanded
<1>6. CASE \E h \in LobbyStates, sorry \in Recoveries : LobbyQuantum(h, sorry)
  BY <1>6, QuantumSeen
<1>7. CASE \E c \in CityMonths, crisis \in BOOLEAN : MonthPasses(c, crisis)
  BY <1>7, MonthPassed
<1>8. CASE UNCHANGED campaignVars
  BY <1>8 DEF campaignVars, CampaignInv, TermsStand, ForecastDrawn, HouseSeen, CityMoves
<1>9. QED BY <1>1, <1>2, <1>3, <1>4, <1>5, <1>6, <1>7, <1>8 DEF CampaignNext

LEMMA LobbyUnaided ==
  ASSUME NEW h \in LobbyStates
  PROVE  Throughput([h EXCEPT !.installed = {}]).unserved \in Nat
  BY LobbyIs

LEMMA CampaignShows == CampaignInv => CampaignHolds
<1> SUFFICES ASSUME CampaignInv PROVE CampaignHolds
  OBVIOUS
<1>1. OnTerms(terms) /\ FundsOn(funding, terms) /\ DebtsOn(debts, terms)
  BY DEF CampaignInv, TermsStand
<1>2. CapitalIsTheTerms
  BY <1>1 DEF FundsOn, CapitalIsTheTerms
<1>3. OpeningLoanIsAtItsTerms
  BY <1>1 DEF DebtsOn, OpeningLoanIsAtItsTerms
<1>4. HarderIsHarder
  BY <1>1, HarderIs
<1>5. ForecastIsHonest
  <2>1. /\ research.quality \in Nat /\ research.quality <= 100 /\ wanted \in Nat
        /\ DrawnForecast(research.forecast)
        /\ spells.months > 0 => research.forecast = ForecastUnder(wanted, research.quality, terms)
    BY DEF CampaignInv, ForecastDrawn
  <2>2. PICK b \in Nat, k \in Nat : k <= 100 /\ research.forecast = ForecastBand(b, k)
    BY <2>1 DEF DrawnForecast
  <2>3. /\ research.forecast.low <= research.forecast.base
        /\ research.forecast.base > 25 => research.forecast.low < research.forecast.high
    BY <2>2, BandIs
  <2> DEFINE q == QualityAfterReport(research.quality)
  <2>4. q \in Nat /\ research.quality <= q
    BY <2>1, ReportTells
  <2> HIDE DEF q
  <2>5. ForecastUnder(wanted, q, terms).high <= ForecastUnder(wanted, research.quality, terms).high
    <3> DEFINE m == Known(research.quality, terms)
               n == Known(q, terms)
    <3>1. m \in Nat /\ n \in Nat /\ n <= 100
      BY <1>1, <2>1, <2>4, KnownIs
    <3>2. Of(terms).accuracy <= Of(terms).accuracy
      <4>1. Of(terms).accuracy \in Nat
        BY <1>1, OfTerms DEF TermFields
      <4>2. QED BY <4>1
    <3>3. m <= n
      BY <1>1, <2>1, <2>4, <3>2, KnownGrows
    <3> HIDE DEF m, n
    <3>4. ForecastBand(wanted, n).high <= ForecastBand(wanted, m).high
      BY <2>1, <3>1, <3>3, BandNarrows
    <3>5. QED BY <3>4 DEF ForecastUnder, m, n
  <2>6. QED BY <2>1, <2>3, <2>5 DEF ForecastIsHonest, q
<1>6. LobbyServes
  <2>1. service \in LobbyStates
        /\ (lobby = Throughput(service) \/ lobby = [served |-> 0, unserved |-> 0, cause |-> "none"])
    BY DEF CampaignInv, HouseSeen
  <2>2. /\ Throughput(service).served \in Nat /\ Throughput(service).unserved \in Nat
        /\ Throughput(service).unserved <= Throughput([service EXCEPT !.installed = {}]).unserved
        /\ Throughput(service).cause = "none" <=> Throughput(service).unserved = 0
        /\ \A s \in Sources : LeftFor(service)[s] >= (Demand(service)[s] * 3) \div 10
    BY <2>1, LobbyIs
  <2> DEFINE unaided == Throughput([service EXCEPT !.installed = {}]).unserved
  <2>3. unaided \in Nat
    BY <2>1, LobbyUnaided
  <2> HIDE DEF unaided
  <2>4. /\ lobby.served >= 0 /\ lobby.unserved >= 0 /\ lobby.unserved <= unaided
        /\ lobby.cause = "none" <=> lobby.unserved = 0
    <3>1. CASE lobby = Throughput(service)
      BY <2>2, <3>1 DEF unaided
    <3>2. CASE lobby = [served |-> 0, unserved |-> 0, cause |-> "none"]
      BY <2>3, <3>2
    <3>3. QED BY <2>1, <3>1, <3>2
  <2>5. QED BY <2>2, <2>4 DEF LobbyServes, unaided
<1>7. StarsAreEarned
  <2>1. starsTold = stars.stars /\ service \in LobbyStates
    BY DEF CampaignInv, HouseSeen
  <2>2. ASSUME begun
        PROVE  /\ \A n \in 1 .. stars.stars : service.condition >= StarStandards[n].room
                                               /\ 100 - 10 * service.queue >= StarStandards[n].reception
               /\ stars.stars < Len(StarStandards) => stars.blockedBy # {}
    <3>1. PICK f \in Nat : stars = Classify(ScoresOf(service, f))
      BY <2>2 DEF CampaignInv, HouseSeen
    <3>2. QED BY <2>1, <3>1, StarsAre
  <2>3. QED BY <2>1, <2>2 DEF StarsAreEarned
<1>8. RivalIsReasonable
  <2>1. \A c, d \in CityMonths : c.occupancy <= d.occupancy =>
          AskedRate(c.rate, c.occupancy, terms) <= AskedRate(c.rate, d.occupancy, terms)
    BY <1>1, CityMonthIs, AskedGrows
  <2>2. /\ rival.rate \in Nat /\ 1 <= rival.rate /\ rival.rate <= Large(LeastRate, TopWillingness)
        /\ rival.appeal \in Nat /\ 4000 <= rival.appeal
        /\ labour \in LeastPressure .. TopPressure /\ danger.risk \in 0 .. Neutral
        /\ patience \in 0 .. 100
    BY DEF CampaignInv, CityMoves
  <2>3. Large(LeastRate, TopWillingness) \in Nat
    BY CampaignAssumption DEF Large
  <2>4. rival.rate \in 1 .. Large(LeastRate, TopWillingness) /\ rival.appeal >= 4000
    BY <2>2, <2>3
  <2>5. QED BY <2>1, <2>2, <2>4 DEF RivalIsReasonable
<1>9. QED BY <1>2, <1>3, <1>4, <1>5, <1>6, <1>7, <1>8 DEF CampaignHolds

\* The terms of a career (difficultyEffects.ts, GameSimulation.ts): the capital, the opening
\* loan, the forecast, the rival and the lobby are those of the difficulty played, and a
\* harder one is in no term kinder, for any sizes of the house and its market.
THEOREM TermsAreKept == CampaignSpec => []CampaignHolds
<1>1. CampaignInit => CampaignInv
  BY CampaignBegins
<1>2. CampaignInv /\ [CampaignNext]_campaignVars => CampaignInv'
  BY CampaignGoesOn
<1>3. CampaignInv => CampaignHolds
  BY CampaignShows
<1>4. QED BY <1>1, <1>2, <1>3, PTL DEF CampaignSpec

-----------------------------------------------------------------------------
(* The registers of the group.                                            *)

\* The registers, and what each of them has about a house.
Registries ==
  {"portfolio", "managed", "models", "accounts", "hq", "managers", "budgets", "flags", "audits",
   "escalations", "results", "schemes", "acquired", "inspected"}

AuditsIn(ours) == [house : ours, brand : Brands, month : Nat, compliant : BOOLEAN]

Registered(c) ==
  /\ DOMAIN c = Registries
  /\ c.portfolio \subseteq Houses
  /\ DOMAIN c.managed = c.portfolio \ {Flagship}
  /\ DOMAIN c.accounts = c.portfolio /\ DOMAIN c.models = c.portfolio
  /\ c.managers = c.portfolio /\ c.budgets \subseteq c.portfolio
  /\ DOMAIN c.results \subseteq c.portfolio
  /\ DOMAIN c.flags \subseteq c.portfolio /\ \A h \in DOMAIN c.flags : c.flags[h] \in Brands
  /\ \A e \in c.escalations : "house" \in DOMAIN e /\ e.house \in c.portfolio
  /\ c.audits \in Seq(AuditsIn(c.portfolio))

\* A scheme stays open once it is, and its house stands in its city; a target is bought once.
Originated(c, b) ==
  /\ \A h \in DOMAIN c.schemes : DOMAIN c.schemes[h] = {"city", "missing", "open"}
  /\ \A h \in c.portfolio \cap Schemed :
       h \in DOMAIN c.schemes /\ c.schemes[h].open /\ c.managed[h] = c.schemes[h].city
  /\ c.portfolio \cap ForSale \subseteq c.acquired
  /\ DOMAIN b = Houses /\ \A h \in ForSale : b[h] = IF h \in c.acquired THEN 1 ELSE 0

GroupInv == Registered(company) /\ Originated(company, brought) /\ closed \in Nat

LEMMA HousesApart ==
  /\ Flagship \notin Schemed /\ Flagship \notin ForSale
  /\ \A h \in Schemed : h \notin ForSale
  /\ Schemed \subseteq Houses /\ ForSale \subseteq Houses /\ Flagship \in Houses
  /\ Houses \subseteq Nat
BY GroupAssumption DEF Houses

LEMMA GroupBegins == GroupInit => GroupInv
<1> SUFFICES ASSUME GroupInit PROVE GroupInv
  OBVIOUS
<1>1. Registered(company)
  BY HousesApart DEF GroupInit, Registered, Registries
<1>2. Originated(company, brought)
  BY HousesApart DEF GroupInit, Originated
<1>3. QED BY <1>1, <1>2 DEF GroupInv, GroupInit

\* What holds of the registers holds whatever headquarters has.
LEMMA SyncingKeeps ==
  ASSUME NEW c, Registered(c), NEW cash
  PROVE  /\ Registered(SyncTreasury(c, cash))
         /\ \A b : Originated(c, b) => Originated(SyncTreasury(c, cash), b)
<1> DEFINE d == SyncTreasury(c, cash)
<1>1. DOMAIN d = DOMAIN c /\ \A f \in Registries : f # "hq" => d[f] = c[f]
  BY DEF SyncTreasury, Registered
<1> HIDE DEF d
<1>2. /\ d.portfolio = c.portfolio /\ d.managed = c.managed /\ d.models = c.models
      /\ d.accounts = c.accounts /\ d.managers = c.managers /\ d.budgets = c.budgets
      /\ d.flags = c.flags /\ d.audits = c.audits /\ d.escalations = c.escalations
      /\ d.results = c.results /\ d.schemes = c.schemes /\ d.acquired = c.acquired
  BY <1>1 DEF Registries
<1>3. Registered(d)
  BY <1>1, <1>2 DEF Registered
<1>4. \A b : Originated(c, b) => Originated(d, b)
  BY <1>2 DEF Originated
<1>5. QED BY <1>3, <1>4 DEF d

LEMMA AuditsCarryOver ==
  ASSUME NEW A, NEW B, A \subseteq B
  PROVE  Seq(AuditsIn(A)) \subseteq Seq(AuditsIn(B))
<1>1. AuditsIn(A) \subseteq AuditsIn(B)
  BY DEF AuditsIn
<1> DEFINE X == AuditsIn(A)
           Y == AuditsIn(B)
<1> HIDE DEF X, Y
<1>2. X \subseteq Y => Seq(X) \subseteq Seq(Y)
  OBVIOUS
<1>3. QED BY <1>1, <1>2 DEF X, Y

\* A house comes in: it stands in every register from then on.
LEMMA AdmittingKeeps ==
  ASSUME NEW c, Registered(c), NEW h \in Houses \ {Flagship}, NEW city
  PROVE  LET d == AdmitHotel(c, h, city)
         IN  /\ Registered(d)
             /\ d.portfolio = c.portfolio \cup {h}
             /\ d.schemes = c.schemes /\ d.acquired = c.acquired
             /\ d.managed[h] = city
             /\ \A k \in c.portfolio \ {Flagship, h} : d.managed[k] = c.managed[k]
<1> DEFINE d == AdmitHotel(c, h, city)
<1>1. /\ DOMAIN d = Registries
      /\ d.portfolio = c.portfolio \cup {h} /\ d.managed = With(c.managed, h, city)
      /\ d.models = With(c.models, h, "owned") /\ d.accounts = With(c.accounts, h, 0)
      /\ d.managers = c.managers \cup {h} /\ d.budgets = c.budgets
      /\ d.flags = c.flags /\ d.audits = c.audits /\ d.escalations = c.escalations
      /\ d.results = c.results /\ d.schemes = c.schemes /\ d.acquired = c.acquired
  BY DEF AdmitHotel, Registered, Registries
<1> HIDE DEF d
<1>2. /\ DOMAIN With(c.managed, h, city) = DOMAIN c.managed \cup {h}
      /\ DOMAIN With(c.models, h, "owned") = DOMAIN c.models \cup {h}
      /\ DOMAIN With(c.accounts, h, 0) = DOMAIN c.accounts \cup {h}
  BY DEF With
<1>3. With(c.managed, h, city)[h] = city
  BY DEF With
<1>4. \A k \in c.portfolio \ {Flagship, h} : With(c.managed, h, city)[k] = c.managed[k]
  BY DEF With, Registered
<1>5. d.audits \in Seq(AuditsIn(d.portfolio))
  <2>1. c.portfolio \subseteq d.portfolio
    BY <1>1
  <2>2. QED BY <1>1, <2>1, AuditsCarryOver DEF Registered
<1>6. Registered(d)
  <2>1. /\ DOMAIN d.managed = DOMAIN c.managed \cup {h}
        /\ DOMAIN d.models = DOMAIN c.models \cup {h}
        /\ DOMAIN d.accounts = DOMAIN c.accounts \cup {h}
    BY <1>1, <1>2
  <2>2. /\ \A k \in DOMAIN d.flags : d.flags[k] \in Brands
        /\ \A e \in d.escalations : "house" \in DOMAIN e /\ e.house \in d.portfolio
        /\ d.budgets \cup DOMAIN d.flags \cup DOMAIN d.results \subseteq d.portfolio
    BY <1>1 DEF Registered
  <2>3. /\ d.portfolio \subseteq Houses /\ DOMAIN d.managed = d.portfolio \ {Flagship}
        /\ DOMAIN d.accounts = d.portfolio /\ DOMAIN d.models = d.portfolio
        /\ d.managers = d.portfolio
    BY <1>1, <2>1 DEF Registered
  <2>4. QED BY <1>1, <1>5, <2>2, <2>3 DEF Registered
<1>7. QED BY <1>1, <1>3, <1>4, <1>6 DEF d

LEMMA OthersAudits ==
  ASSUME NEW ours, NEW audits \in Seq(AuditsIn(ours)), NEW leaving
  PROVE  AuditsOfOthers(audits, leaving) \in Seq(AuditsIn(ours \ leaving))
<1> DEFINE X == AuditsIn(ours)
           kept == {a \in ElementsOf(audits) : a.house \notin leaving}
           s == Sifted(audits, kept)
<1>1. s \in Seq(X) /\ ElementsOf(s) = ElementsOf(audits) \cap kept
  <2> HIDE DEF X, kept, s
  <2>1. audits \in Seq(X)
    BY DEF X
  <2>2. QED BY <2>1, SiftedIs DEF s
<1>2. \A i \in DOMAIN s : s[i] \in X /\ s[i].house \notin leaving
  <2> HIDE DEF X, s
  <2>1. SUFFICES ASSUME NEW i \in DOMAIN s PROVE s[i] \in X /\ s[i].house \notin leaving
    OBVIOUS
  <2>2. s[i] \in ElementsOf(s)
    BY DEF ElementsOf
  <2>3. s[i] \in X
    BY <1>1
  <2>4. QED BY <1>1, <2>2, <2>3
<1>3. \A a \in X : a.house \notin leaving => a \in AuditsIn(ours \ leaving)
  BY DEF AuditsIn
<1> DEFINE Y == AuditsIn(ours \ leaving)
<1>4. \A i \in DOMAIN s : s[i] \in Y
  <2> HIDE DEF X, s
  <2>1. QED BY <1>2, <1>3
<1> HIDE DEF X, Y, s, kept
<1>5. s \in Seq(Y)
  BY <1>1, <1>4
<1>6. QED BY <1>5 DEF Y, s, kept, AuditsOfOthers

\* Houses leave: they stand in no register from then on.
LEMMA RetiringKeeps ==
  ASSUME NEW c, Registered(c), NEW leaving, Flagship \notin leaving
  PROVE  LET d == RetireHotelFromCompany(c, leaving)
         IN  /\ Registered(d)
             /\ d.portfolio = c.portfolio \ leaving
             /\ d.schemes = c.schemes /\ d.acquired = c.acquired
             /\ \A k \in d.portfolio \ {Flagship} : d.managed[k] = c.managed[k]
<1> DEFINE d == RetireHotelFromCompany(c, leaving)
<1>1. /\ DOMAIN d = Registries
      /\ d.portfolio = c.portfolio \ leaving /\ d.managed = Without(c.managed, leaving)
      /\ d.models = Without(c.models, leaving) /\ d.accounts = Without(c.accounts, leaving)
      /\ d.managers = c.managers \ leaving /\ d.budgets = c.budgets \ leaving
      /\ d.flags = Without(c.flags, leaving) /\ d.audits = AuditsOfOthers(c.audits, leaving)
      /\ d.escalations = {e \in c.escalations : e.house \notin leaving}
      /\ d.results = Without(c.results, leaving) /\ d.schemes = c.schemes
      /\ d.acquired = c.acquired
  BY DEF RetireHotelFromCompany, Registered, Registries
<1> HIDE DEF d
<1>2. \A f : /\ DOMAIN Without(f, leaving) = DOMAIN f \ leaving
             /\ \A k \in DOMAIN f \ leaving : Without(f, leaving)[k] = f[k]
  BY DEF Without
<1>3. d.audits \in Seq(AuditsIn(d.portfolio))
  BY <1>1, OthersAudits DEF Registered
<1>4. Registered(d)
  <2>1. /\ DOMAIN d.managed = DOMAIN c.managed \ leaving
        /\ DOMAIN d.models = DOMAIN c.models \ leaving
        /\ DOMAIN d.accounts = DOMAIN c.accounts \ leaving
        /\ DOMAIN d.flags = DOMAIN c.flags \ leaving
        /\ DOMAIN d.results = DOMAIN c.results \ leaving
    BY <1>1, <1>2
  <2>2. \A h \in DOMAIN d.flags : d.flags[h] \in Brands
    BY <1>1, <1>2, <2>1 DEF Registered
  <2>3. QED BY <1>1, <1>3, <2>1, <2>2 DEF Registered
<1>5. \A k \in d.portfolio \ {Flagship} : d.managed[k] = c.managed[k]
  BY <1>1, <1>2 DEF Registered
<1>6. QED BY <1>1, <1>4, <1>5 DEF d

-----------------------------------------------------------------------------
(* The commands to the company.                                            *)

\* A change of the registers that leaves alone where the houses stand and how they came.
LEMMA SchemesKeep ==
  ASSUME NEW c, NEW d, Registered(c), DOMAIN d = Registries,
         d.portfolio = c.portfolio, d.managed = c.managed, d.models = c.models,
         d.accounts = c.accounts, d.managers = c.managers, d.budgets = c.budgets,
         d.flags = c.flags, d.audits = c.audits, d.escalations = c.escalations,
         d.results = c.results
  PROVE  Registered(d)
BY DEF Registered

LEMMA StartKeeps ==
  ASSUME GroupInv, NEW h \in Schemed, NEW city, StartDevelopment(h, city)
  PROVE  GroupInv'
<1> DEFINE site == [city |-> city, missing |-> Checklist, open |-> FALSE]
<1>1. /\ company' = [company EXCEPT !.schemes = With(@, h, site)]
      /\ h \notin company.portfolio /\ closed' = closed /\ brought' = brought
  BY DEF StartDevelopment
<1>2. /\ DOMAIN company' = Registries /\ company'.schemes = With(company.schemes, h, site)
      /\ company'.portfolio = company.portfolio /\ company'.managed = company.managed
      /\ company'.models = company.models /\ company'.accounts = company.accounts
      /\ company'.managers = company.managers /\ company'.budgets = company.budgets
      /\ company'.flags = company.flags /\ company'.audits = company.audits
      /\ company'.escalations = company.escalations /\ company'.results = company.results
      /\ company'.acquired = company.acquired
  BY <1>1 DEF GroupInv, Registered, Registries
<1>3. Registered(company')
  BY <1>2, SchemesKeep DEF GroupInv
<1>4. /\ DOMAIN company'.schemes = DOMAIN company.schemes \cup {h}
      /\ \A k \in DOMAIN company'.schemes :
           company'.schemes[k] = IF k = h THEN site ELSE company.schemes[k]
  BY <1>2 DEF With
<1>5. DOMAIN site = {"city", "missing", "open"}
  OBVIOUS
<1> HIDE DEF site
<1>6. Originated(company', brought')
  BY <1>1, <1>2, <1>4, <1>5 DEF GroupInv, Originated
<1>7. QED BY <1>1, <1>3, <1>6 DEF GroupInv

LEMMA TaskKeeps ==
  ASSUME GroupInv, NEW h \in Schemed, NEW item, CompletePreOpeningTask(h, item)
  PROVE  GroupInv'
<1>1. /\ company' = [company EXCEPT !.schemes[h].missing = @ \ {item}]
      /\ h \in DOMAIN company.schemes /\ closed' = closed /\ brought' = brought
  BY DEF CompletePreOpeningTask
<1> DEFINE site == [company.schemes[h] EXCEPT !.missing = @ \ {item}]
<1>2. /\ DOMAIN company' = Registries
      /\ company'.schemes = [company.schemes EXCEPT ![h] = site]
      /\ company'.portfolio = company.portfolio /\ company'.managed = company.managed
      /\ company'.models = company.models /\ company'.accounts = company.accounts
      /\ company'.managers = company.managers /\ company'.budgets = company.budgets
      /\ company'.flags = company.flags /\ company'.audits = company.audits
      /\ company'.escalations = company.escalations /\ company'.results = company.results
      /\ company'.acquired = company.acquired
  BY <1>1 DEF GroupInv, Registered, Registries
<1>3. Registered(company')
  BY <1>2, SchemesKeep DEF GroupInv
<1>4. /\ DOMAIN site = {"city", "missing", "open"}
      /\ site.city = company.schemes[h].city /\ site.open = company.schemes[h].open
  BY <1>1 DEF GroupInv, Originated
<1> HIDE DEF site
<1>5. /\ DOMAIN company'.schemes = DOMAIN company.schemes
      /\ \A k \in DOMAIN company.schemes :
           company'.schemes[k] = IF k = h THEN site ELSE company.schemes[k]
  BY <1>2
<1>6. Originated(company', brought')
  BY <1>1, <1>2, <1>4, <1>5 DEF GroupInv, Originated
<1>7. QED BY <1>1, <1>3, <1>6 DEF GroupInv

LEMMA OpeningKeeps ==
  ASSUME GroupInv, NEW h \in Schemed, OpenDevelopment(h)
  PROVE  GroupInv'
<1> DEFINE site == [company.schemes[h] EXCEPT !.open = TRUE]
           c == [company EXCEPT !.schemes[h].open = TRUE]
<1>1. /\ company' = AdmitHotel(c, h, company.schemes[h].city)
      /\ h \in DOMAIN company.schemes /\ ~company.schemes[h].open
      /\ closed' = closed /\ brought' = [brought EXCEPT ![h] = @ + 1]
  BY DEF OpenDevelopment
<1>2. /\ DOMAIN c = Registries
      /\ c.schemes = [company.schemes EXCEPT ![h] = site]
      /\ c.portfolio = company.portfolio /\ c.managed = company.managed
      /\ c.models = company.models /\ c.accounts = company.accounts
      /\ c.managers = company.managers /\ c.budgets = company.budgets
      /\ c.flags = company.flags /\ c.audits = company.audits
      /\ c.escalations = company.escalations /\ c.results = company.results
      /\ c.acquired = company.acquired
  BY DEF GroupInv, Registered, Registries
<1> HIDE DEF c
<1>3. Registered(c)
  BY <1>2, SchemesKeep DEF GroupInv
<1>4. /\ DOMAIN site = {"city", "missing", "open"}
      /\ site.city = company.schemes[h].city /\ site.open
  BY <1>1 DEF GroupInv, Originated
<1> HIDE DEF site
<1>5. /\ DOMAIN c.schemes = DOMAIN company.schemes
      /\ \A k \in DOMAIN company.schemes :
           c.schemes[k] = IF k = h THEN site ELSE company.schemes[k]
  BY <1>2
<1>6. h \in Houses \ {Flagship} /\ h \notin ForSale
  BY HousesApart
<1>7. /\ Registered(company') /\ company'.portfolio = c.portfolio \cup {h}
      /\ company'.schemes = c.schemes /\ company'.acquired = c.acquired
      /\ company'.managed[h] = company.schemes[h].city
      /\ \A k \in c.portfolio \ {Flagship, h} : company'.managed[k] = c.managed[k]
  BY <1>1, <1>3, <1>6, AdmittingKeeps
<1>8. \A k \in company'.portfolio \cap Schemed :
        /\ k \in DOMAIN company'.schemes /\ company'.schemes[k].open
        /\ company'.managed[k] = company'.schemes[k].city
  <2>1. SUFFICES ASSUME NEW k \in company'.portfolio \cap Schemed
                 PROVE  /\ k \in DOMAIN company'.schemes /\ company'.schemes[k].open
                        /\ company'.managed[k] = company'.schemes[k].city
    OBVIOUS
  <2>2. CASE k = h
    BY <1>1, <1>4, <1>5, <1>7, <2>2
  <2>3. CASE k # h
    BY <1>2, <1>5, <1>7, <2>3, HousesApart DEF GroupInv, Originated
  <2>4. QED BY <2>2, <2>3
<1>9. \A k \in DOMAIN company'.schemes : DOMAIN company'.schemes[k] = {"city", "missing", "open"}
  BY <1>4, <1>5, <1>7 DEF GroupInv, Originated
<1>10. /\ DOMAIN brought' = Houses
       /\ \A k \in ForSale : brought'[k] = IF k \in company'.acquired THEN 1 ELSE 0
  BY <1>1, <1>2, <1>6, <1>7 DEF GroupInv, Originated
<1>11. company'.portfolio \cap ForSale \subseteq company'.acquired
  BY <1>2, <1>6, <1>7 DEF GroupInv, Originated
<1>12. Originated(company', brought')
  BY <1>8, <1>9, <1>10, <1>11 DEF Originated
<1>13. QED BY <1>1, <1>7, <1>12 DEF GroupInv

LEMMA DiligenceKeeps ==
  ASSUME GroupInv, NEW h, RunDueDiligence(h)
  PROVE  GroupInv'
<1>1. /\ company' = [company EXCEPT !.inspected = @ \cup {h}]
      /\ closed' = closed /\ brought' = brought
  BY DEF RunDueDiligence
<1>2. /\ DOMAIN company' = Registries /\ company'.schemes = company.schemes
      /\ company'.portfolio = company.portfolio /\ company'.managed = company.managed
      /\ company'.models = company.models /\ company'.accounts = company.accounts
      /\ company'.managers = company.managers /\ company'.budgets = company.budgets
      /\ company'.flags = company.flags /\ company'.audits = company.audits
      /\ company'.escalations = company.escalations /\ company'.results = company.results
      /\ company'.acquired = company.acquired
  BY <1>1 DEF GroupInv, Registered, Registries
<1>3. Registered(company')
  BY <1>2, SchemesKeep DEF GroupInv
<1>4. QED BY <1>1, <1>2, <1>3 DEF GroupInv, Originated

LEMMA PurchaseKeeps ==
  ASSUME GroupInv, NEW h \in ForSale, AcquireHotel(h)
  PROVE  GroupInv'
<1> DEFINE c == [company EXCEPT !.acquired = @ \cup {h}]
<1>1. /\ company' = AdmitHotel(c, h, Home) /\ h \notin company.acquired
      /\ closed' = closed /\ brought' = [brought EXCEPT ![h] = @ + 1]
  BY DEF AcquireHotel
<1>2. /\ DOMAIN c = Registries /\ c.schemes = company.schemes
      /\ c.portfolio = company.portfolio /\ c.managed = company.managed
      /\ c.models = company.models /\ c.accounts = company.accounts
      /\ c.managers = company.managers /\ c.budgets = company.budgets
      /\ c.flags = company.flags /\ c.audits = company.audits
      /\ c.escalations = company.escalations /\ c.results = company.results
      /\ c.acquired = company.acquired \cup {h}
  BY DEF GroupInv, Registered, Registries
<1> HIDE DEF c
<1>3. Registered(c)
  BY <1>2, SchemesKeep DEF GroupInv
<1>4. h \in Houses \ {Flagship} /\ h \notin Schemed
  BY HousesApart
<1>5. /\ Registered(company') /\ company'.portfolio = c.portfolio \cup {h}
      /\ company'.schemes = c.schemes /\ company'.acquired = c.acquired
      /\ \A k \in c.portfolio \ {Flagship, h} : company'.managed[k] = c.managed[k]
  BY <1>1, <1>3, <1>4, AdmittingKeeps
<1>6. \A k \in company'.portfolio \cap Schemed :
        /\ k \in DOMAIN company'.schemes /\ company'.schemes[k].open
        /\ company'.managed[k] = company'.schemes[k].city
  BY <1>2, <1>4, <1>5, HousesApart DEF GroupInv, Originated
<1>7. /\ DOMAIN brought' = Houses
      /\ \A k \in ForSale : brought'[k] = IF k \in company'.acquired THEN 1 ELSE 0
  <2>1. brought[h] = 0
    BY <1>1 DEF GroupInv, Originated
  <2>2. QED BY <1>1, <1>2, <1>4, <1>5, <2>1 DEF GroupInv, Originated
<1>8. Originated(company', brought')
  BY <1>2, <1>5, <1>6, <1>7 DEF GroupInv, Originated
<1>9. QED BY <1>1, <1>5, <1>8 DEF GroupInv

-----------------------------------------------------------------------------
(* Decisions of the centre.                                                *)

\* A decision that leaves alone which houses there are and how they came.
LEMMA HousesStay ==
  ASSUME GroupInv, Registered(company'),
         company'.portfolio = company.portfolio, company'.managed = company.managed,
         company'.schemes = company.schemes, company'.acquired = company.acquired,
         brought' = brought, closed' \in Nat
  PROVE  GroupInv'
BY DEF GroupInv, Originated

LEMMA FlagKeeps ==
  ASSUME GroupInv, NEW h, NEW brand \in Brands, AssignBrand(h, brand)
  PROVE  GroupInv'
<1> DEFINE flags == With(company.flags, h, brand)
<1>1. /\ company' = [company EXCEPT !.flags = flags]
      /\ h \in company.portfolio /\ closed' = closed /\ brought' = brought
  BY DEF AssignBrand
<1>2. /\ DOMAIN flags = DOMAIN company.flags \cup {h}
      /\ \A k \in DOMAIN flags : flags[k] \in Brands
  BY DEF With, GroupInv, Registered
<1> HIDE DEF flags
<1>3. /\ DOMAIN company' = Registries /\ company'.schemes = company.schemes
      /\ company'.portfolio = company.portfolio /\ company'.managed = company.managed
      /\ company'.models = company.models /\ company'.accounts = company.accounts
      /\ company'.managers = company.managers /\ company'.budgets = company.budgets
      /\ company'.flags = flags /\ company'.audits = company.audits
      /\ company'.escalations = company.escalations /\ company'.results = company.results
      /\ company'.acquired = company.acquired
  BY <1>1 DEF GroupInv, Registered, Registries
<1>4. Registered(company')
  BY <1>1, <1>2, <1>3 DEF GroupInv, Registered
<1>5. QED BY <1>1, <1>3, <1>4, HousesStay DEF GroupInv

LEMMA UnflagKeeps ==
  ASSUME GroupInv, NEW h, RemoveBrand(h)
  PROVE  GroupInv'
<1> DEFINE flags == Without(company.flags, {h})
<1>1. /\ company' = [company EXCEPT !.flags = flags]
      /\ closed' = closed /\ brought' = brought
  BY DEF RemoveBrand
<1>2. /\ DOMAIN flags \subseteq DOMAIN company.flags
      /\ \A k \in DOMAIN flags : flags[k] \in Brands
  BY DEF Without, GroupInv, Registered
<1> HIDE DEF flags
<1>3. /\ DOMAIN company' = Registries /\ company'.schemes = company.schemes
      /\ company'.portfolio = company.portfolio /\ company'.managed = company.managed
      /\ company'.models = company.models /\ company'.accounts = company.accounts
      /\ company'.managers = company.managers /\ company'.budgets = company.budgets
      /\ company'.flags = flags /\ company'.audits = company.audits
      /\ company'.escalations = company.escalations /\ company'.results = company.results
      /\ company'.acquired = company.acquired
  BY <1>1 DEF GroupInv, Registered, Registries
<1>4. Registered(company')
  BY <1>2, <1>3 DEF GroupInv, Registered
<1>5. QED BY <1>1, <1>3, <1>4, HousesStay DEF GroupInv

LEMMA ModelKeeps ==
  ASSUME GroupInv, NEW h, h \in company.portfolio, NEW models,
         DOMAIN models = DOMAIN company.models \cup {h},
         company' = [company EXCEPT !.models = models],
         closed' = closed, brought' = brought
  PROVE  GroupInv'
<1>1. /\ DOMAIN company' = Registries /\ company'.schemes = company.schemes
      /\ company'.portfolio = company.portfolio /\ company'.managed = company.managed
      /\ company'.models = models /\ company'.accounts = company.accounts
      /\ company'.managers = company.managers /\ company'.budgets = company.budgets
      /\ company'.flags = company.flags /\ company'.audits = company.audits
      /\ company'.escalations = company.escalations /\ company'.results = company.results
      /\ company'.acquired = company.acquired
  BY DEF GroupInv, Registered, Registries
<1>2. Registered(company')
  BY <1>1 DEF GroupInv, Registered
<1>3. QED BY <1>1, <1>2, HousesStay DEF GroupInv

LEMMA BudgetKeeps ==
  ASSUME GroupInv, NEW h, SetHotelBudget(h)
  PROVE  GroupInv'
<1>1. /\ company' = [company EXCEPT !.budgets = @ \cup {h}]
      /\ h \in company.portfolio /\ closed' = closed /\ brought' = brought
  BY DEF SetHotelBudget
<1>2. /\ DOMAIN company' = Registries /\ company'.schemes = company.schemes
      /\ company'.portfolio = company.portfolio /\ company'.managed = company.managed
      /\ company'.models = company.models /\ company'.accounts = company.accounts
      /\ company'.managers = company.managers /\ company'.budgets = company.budgets \cup {h}
      /\ company'.flags = company.flags /\ company'.audits = company.audits
      /\ company'.escalations = company.escalations /\ company'.results = company.results
      /\ company'.acquired = company.acquired
  BY <1>1 DEF GroupInv, Registered, Registries
<1>3. Registered(company')
  BY <1>1, <1>2 DEF GroupInv, Registered
<1>4. QED BY <1>1, <1>2, <1>3, HousesStay DEF GroupInv

LEMMA AnswerKeeps ==
  ASSUME GroupInv, NEW e \in company.escalations, NEW approve, ResolveEscalation(e, approve)
  PROVE  GroupInv'
<1> DEFINE answered == [e EXCEPT !.status = IF approve THEN "approved" ELSE "rejected"]
           rest == (company.escalations \ {e}) \cup {answered}
<1>1. /\ company' = [company EXCEPT !.escalations = rest]
      /\ closed' = closed /\ brought' = brought
  BY DEF ResolveEscalation
<1>2. "house" \in DOMAIN e /\ e.house \in company.portfolio
  BY DEF GroupInv, Registered
<1>3. "house" \in DOMAIN answered /\ answered.house = e.house
  BY <1>2
<1> HIDE DEF answered
<1>4. \A x \in rest : "house" \in DOMAIN x /\ x.house \in company.portfolio
  BY <1>2, <1>3 DEF GroupInv, Registered
<1> HIDE DEF rest
<1>5. /\ DOMAIN company' = Registries /\ company'.schemes = company.schemes
      /\ company'.portfolio = company.portfolio /\ company'.managed = company.managed
      /\ company'.models = company.models /\ company'.accounts = company.accounts
      /\ company'.managers = company.managers /\ company'.budgets = company.budgets
      /\ company'.flags = company.flags /\ company'.audits = company.audits
      /\ company'.escalations = rest /\ company'.results = company.results
      /\ company'.acquired = company.acquired
  BY <1>1 DEF GroupInv, Registered, Registries
<1>6. Registered(company')
  BY <1>4, <1>5 DEF GroupInv, Registered
<1>7. QED BY <1>1, <1>5, <1>6, HousesStay DEF GroupInv

LEMMA FundingKeeps ==
  ASSUME GroupInv, NEW h, NEW direction, NEW n, TransferInternalFunding(h, direction, n)
  PROVE  GroupInv'
<1>1. PICK up : company' = [company EXCEPT !.hq = @ + up, !.accounts[h] = @ - up]
  BY DEF TransferInternalFunding
<1>2. closed' = closed /\ brought' = brought
  BY DEF TransferInternalFunding
<1>3. /\ DOMAIN company' = Registries /\ company'.schemes = company.schemes
      /\ company'.portfolio = company.portfolio /\ company'.managed = company.managed
      /\ company'.models = company.models
      /\ DOMAIN company'.accounts = DOMAIN company.accounts
      /\ company'.managers = company.managers /\ company'.budgets = company.budgets
      /\ company'.flags = company.flags /\ company'.audits = company.audits
      /\ company'.escalations = company.escalations /\ company'.results = company.results
      /\ company'.acquired = company.acquired
  BY <1>1 DEF GroupInv, Registered, Registries
<1>4. Registered(company')
  BY <1>3 DEF GroupInv, Registered
<1>5. QED BY <1>2, <1>3, <1>4, HousesStay DEF GroupInv

-----------------------------------------------------------------------------
(* Distress.                                                               *)

\* A house on record left the group in some way, and the others stay as they were.
LEMMA LeavingKeeps ==
  ASSUME GroupInv, NEW c, Registered(c), c.portfolio \subseteq company.portfolio,
         c.acquired = company.acquired,
         \A k \in c.portfolio \ {Flagship} : c.managed[k] = company.managed[k],
         DOMAIN c.schemes \subseteq DOMAIN company.schemes,
         \A k \in DOMAIN c.schemes : c.schemes[k] = company.schemes[k],
         c.portfolio \cap Schemed \cap DOMAIN company.schemes \subseteq DOMAIN c.schemes
  PROVE  Originated(c, brought)
<1>1. \A k \in c.portfolio \cap Schemed :
        k \in DOMAIN c.schemes /\ c.schemes[k].open /\ c.managed[k] = c.schemes[k].city
  BY HousesApart DEF GroupInv, Originated
<1>2. QED BY <1>1 DEF GroupInv, Originated

\* The least of some numbers is one of them.
LEMMA LeastOf == \A S : S \subseteq Nat /\ S # {} => Min(S) \in S
<1> SUFFICES ASSUME NEW S, S \subseteq Nat, S # {} PROVE Min(S) \in S
  OBVIOUS
<1>1. \E x \in S : \A y \in S : x <= y
  BY LeastNumber
<1>2. QED BY <1>1 DEF Min

LEMMA SaleOfAHouseKeeps ==
  ASSUME GroupInv, SellHotel
  PROVE  GroupInv'
<1> DEFINE h == Min(Saleable)
           c == RetireHotelFromCompany(company, {h})
<1>1. /\ company' = SyncTreasury(c, purse.cash + Proceeds(h)) /\ Saleable # {}
      /\ closed' = closed /\ brought' = brought
  BY DEF SellHotel
<1>2. h # Flagship
  <2>1. Saleable \subseteq Houses \ {Flagship}
    BY DEF Saleable, GroupInv, Registered
  <2>2. h \in Saleable
    BY <1>1, <2>1, HousesApart, LeastOf
  <2>3. QED BY <2>1, <2>2
<1> HIDE DEF h
<1>3. /\ Registered(c) /\ c.portfolio = company.portfolio \ {h}
      /\ c.schemes = company.schemes /\ c.acquired = company.acquired
      /\ \A k \in c.portfolio \ {Flagship} : c.managed[k] = company.managed[k]
  BY <1>2, RetiringKeeps DEF GroupInv
<1> HIDE DEF c
<1>4. Originated(c, brought)
  BY <1>3, LeavingKeeps
<1>5. QED BY <1>1, <1>3, <1>4, SyncingKeeps DEF GroupInv

LEMMA LeasebackKeeps ==
  ASSUME GroupInv, AssetSale
  PROVE  GroupInv'
<1> DEFINE h == Min(Leasebackable)
           c == [company EXCEPT !.models[h] = "leased"]
<1>1. /\ company' = SyncTreasury(c, purse.cash + Proceeds(h))
      /\ closed' = closed /\ brought' = brought
  BY DEF AssetSale
<1> HIDE DEF h
<1>2. /\ DOMAIN c = Registries /\ c.schemes = company.schemes
      /\ c.portfolio = company.portfolio /\ c.managed = company.managed
      /\ DOMAIN c.models = DOMAIN company.models /\ c.accounts = company.accounts
      /\ c.managers = company.managers /\ c.budgets = company.budgets
      /\ c.flags = company.flags /\ c.audits = company.audits
      /\ c.escalations = company.escalations /\ c.results = company.results
      /\ c.acquired = company.acquired
  BY DEF GroupInv, Registered, Registries
<1> HIDE DEF c
<1>3. Registered(c)
  BY <1>2 DEF GroupInv, Registered
<1>4. Originated(c, brought)
  BY <1>2 DEF GroupInv, Originated
<1>5. QED BY <1>1, <1>3, <1>4, SyncingKeeps DEF GroupInv

\* What is being built in the city that is given up is given up with it, and no house that
\* stays stands there.
LEMMA ExitKeeps ==
  ASSUME GroupInv, NEW city, MarketExit(city)
  PROVE  GroupInv'
<1> DEFINE leaving == HousesIn(city)
           left == RetireHotelFromCompany(company, leaving)
           building == {h \in DOMAIN left.schemes : left.schemes[h].city = city}
           c == [left EXCEPT !.schemes = Without(@, building)]
           cash == purse.cash + SumFunction([h \in leaving |-> Proceeds(h)])
<1>1. company' = SyncTreasury(c, cash) /\ closed' = closed /\ brought' = brought
  BY DEF MarketExit
<1> HIDE DEF cash
<1>2. /\ Flagship \notin leaving
      /\ \A k \in company.portfolio \ {Flagship} : k \notin leaving => company.managed[k] # city
  BY DEF HousesIn, GroupInv, Registered
<1> HIDE DEF leaving
<1>3. /\ Registered(left) /\ left.portfolio = company.portfolio \ leaving
      /\ left.schemes = company.schemes /\ left.acquired = company.acquired
      /\ \A k \in left.portfolio \ {Flagship} : left.managed[k] = company.managed[k]
  BY <1>2, RetiringKeeps DEF GroupInv
<1> HIDE DEF left
<1>4. /\ DOMAIN c = Registries /\ c.schemes = Without(left.schemes, building)
      /\ c.portfolio = left.portfolio /\ c.managed = left.managed
      /\ c.models = left.models /\ c.accounts = left.accounts
      /\ c.managers = left.managers /\ c.budgets = left.budgets
      /\ c.flags = left.flags /\ c.audits = left.audits
      /\ c.escalations = left.escalations /\ c.results = left.results
      /\ c.acquired = left.acquired
  BY <1>3 DEF Registered, Registries
<1> HIDE DEF c
<1>5. Registered(c)
  BY <1>3, <1>4, SchemesKeep
<1>6. /\ DOMAIN c.schemes = DOMAIN company.schemes \ building
      /\ \A k \in DOMAIN c.schemes : c.schemes[k] = company.schemes[k]
  BY <1>3, <1>4 DEF Without
<1>7. \A k \in c.portfolio \cap Schemed : k \notin building
  <2>1. SUFFICES ASSUME NEW k \in c.portfolio \cap Schemed PROVE company.schemes[k].city # city
    BY <1>3
  <2>2. k \in company.portfolio \ {Flagship} /\ k \notin leaving
    BY <1>3, <1>4, HousesApart
  <2>3. company.managed[k] = company.schemes[k].city
    BY <2>2 DEF GroupInv, Originated
  <2>4. QED BY <1>2, <2>2, <2>3
<1>8. Originated(c, brought)
  BY <1>3, <1>4, <1>5, <1>6, <1>7, LeavingKeeps
<1>9. QED BY <1>1, <1>5, <1>8, SyncingKeeps DEF GroupInv

-----------------------------------------------------------------------------
(* The month of the company.                                               *)

LEMMA NewestAuditsAre ==
  ASSUME NEW V, NEW audits \in Seq(V)
  PROVE  NewestAudits(audits) \in Seq(V)
<1>1. AuditLimit \in Nat \ {0} /\ Len(audits) \in Nat
  BY GroupAssumption
<1>2. CASE Len(audits) > AuditLimit
  <2> DEFINE m == Len(audits) - AuditLimit + 1
  <2>1. m \in 1 .. Len(audits)
    BY <1>1, <1>2
  <2> HIDE DEF m
  <2>2. SubSeq(audits, m, Len(audits)) \in Seq(V)
    BY <1>1, <2>1
  <2>3. NewestAudits(audits) = SubSeq(audits, m, Len(audits))
    BY <1>2 DEF NewestAudits, m
  <2>4. QED BY <2>2, <2>3
<1>3. CASE ~(Len(audits) > AuditLimit)
  BY <1>3 DEF NewestAudits
<1>4. QED BY <1>2, <1>3

\* The audit of one house, if it is under a brand.
AuditedHouse(c, failing, at, audits, h) ==
  IF h \in DOMAIN c.flags
  THEN NewestAudits(Append(audits, [house |-> h, brand |-> c.flags[h], month |-> at,
                                    compliant |-> h \notin failing]))
  ELSE audits

LEMMA OneHouseAudited ==
  ASSUME NEW c, Registered(c), NEW failing, NEW at \in Nat,
         NEW audits \in Seq(AuditsIn(c.portfolio)), NEW h
  PROVE  AuditedHouse(c, failing, at, audits, h) \in Seq(AuditsIn(c.portfolio))
<1>1. CASE h \in DOMAIN c.flags
  <2> DEFINE V == AuditsIn(c.portfolio)
             a == [house |-> h, brand |-> c.flags[h], month |-> at,
                   compliant |-> h \notin failing]
  <2>1. a \in V
    <3>1. h \in c.portfolio /\ c.flags[h] \in Brands /\ (h \notin failing) \in BOOLEAN
      BY <1>1 DEF Registered
    <3>2. QED BY <3>1 DEF AuditsIn
  <2> HIDE DEF V
  <2>2. audits \in Seq(V)
    BY DEF V
  <2>3. Append(audits, a) \in Seq(V)
    BY <2>1, <2>2
  <2>4. NewestAudits(Append(audits, a)) \in Seq(V)
    BY <2>3, NewestAuditsAre
  <2>5. AuditedHouse(c, failing, at, audits, h) = NewestAudits(Append(audits, a))
    BY <1>1 DEF AuditedHouse
  <2>6. QED BY <2>4, <2>5 DEF V
<1>2. CASE h \notin DOMAIN c.flags
  BY <1>2 DEF AuditedHouse
<1>3. QED BY <1>1, <1>2

LEMMA GreatestHouse == Max(Houses) + 1 \in Nat
<1>1. Houses \subseteq Int /\ Houses # {}
  BY HousesApart
<1>2. \E x \in Houses : \A y \in Houses : x >= y
  BY <1>1, GreatestNumber, GroupAssumption
<1>3. Max(Houses) \in Houses
  BY <1>2 DEF Max
<1> DEFINE m == Max(Houses)
<1>4. m \in Nat
  BY <1>3, HousesApart
<1> HIDE DEF m
<1>5. m + 1 \in Nat
  BY <1>4
<1>6. QED BY <1>5 DEF m

\* auditBrands: house after house, the list of audits is one of houses in the group.
LEMMA AuditsStay ==
  ASSUME NEW c, Registered(c), NEW failing, NEW at \in Nat
  PROVE  Audited(c, failing, at) \in Seq(AuditsIn(c.portfolio))
<1> DEFINE N == Max(Houses) + 1
           V == Seq(AuditsIn(c.portfolio))
           base == c.audits
           step == [p \in V \X (1 .. N) |-> AuditedHouse(c, failing, at, p[1], p[2] - 1)]
           Audit(h) == [house |-> h, brand |-> c.flags[h], month |-> at,
                        compliant |-> h \notin failing]
           Solves(f) == f = [n \in 0 .. N |->
              IF n = 0 THEN c.audits
              ELSE IF n - 1 \in DOMAIN c.flags
                   THEN NewestAudits(Append(f[n - 1], Audit(n - 1)))
                   ELSE f[n - 1]]
           h == CHOOSE f : Solves(f)
<1>1. N \in Nat
  BY GreatestHouse
<1>2. step \in [V \X (1 .. N) -> V]
  <2>1. ASSUME NEW audits \in V, NEW n \in 1 .. N
        PROVE  AuditedHouse(c, failing, at, audits, n - 1) \in V
    BY OneHouseAudited
  <2>2. QED BY <2>1
<1>3. PICK f \in [0 .. N -> V] :
        f[0] = base /\ \A n \in 1 .. N : f[n] = step[<<f[n - 1], n>>]
  <2>1. base \in V
    BY DEF Registered
  <2> HIDE DEF N, V, base, step
  <2>2. CoursesOf(N, V, base, step) # {}
    BY <1>1, <1>2, <2>1, BoundedRecursion
  <2>3. QED BY <2>2 DEF CoursesOf
<1> HIDE DEF N, V
<1>4. \A n \in 1 .. N : f[n] = AuditedHouse(c, failing, at, f[n - 1], n - 1)
  <2>1. SUFFICES ASSUME NEW n \in 1 .. N
                 PROVE  f[n] = AuditedHouse(c, failing, at, f[n - 1], n - 1)
    OBVIOUS
  <2>2. f[n - 1] \in V
    BY <1>1, <1>3
  <2>3. f[n] = step[<<f[n - 1], n>>]
    BY <1>3, Zenon
  <2>4. QED BY <2>2, <2>3
<1>5. Solves(f)
  <2>1. f = [n \in 0 .. N |-> f[n]]
    OBVIOUS
  <2> HIDE DEF step
  <2>2. \A n \in 0 .. N : f[n] =
          IF n = 0 THEN c.audits
          ELSE IF n - 1 \in DOMAIN c.flags
               THEN NewestAudits(Append(f[n - 1], Audit(n - 1)))
               ELSE f[n - 1]
    <3>1. \A n \in 0 .. N : n = 0 \/ n \in 1 .. N
      BY <1>1
    <3>2. QED BY <1>3, <1>4, <3>1, Zenon DEF AuditedHouse
  <2>3. QED BY <2>1, <2>2, Zenon
<1>6. Solves(h)
  <2> HIDE DEF Solves
  <2>1. QED BY <1>5
<1>7. Audited(c, failing, at) = h[N]
  BY DEF Audited, N
<1> HIDE DEF h
<1>8. \A n \in 0 .. N : h[n] =
        IF n = 0 THEN c.audits
        ELSE IF n - 1 \in DOMAIN c.flags
             THEN NewestAudits(Append(h[n - 1], Audit(n - 1)))
             ELSE h[n - 1]
  BY <1>6, Zenon
<1> DEFINE P == {n \in 0 .. N : h[n] \in V}
<1>9. 0 \in P
  <2>1. 0 \in 0 .. N
    BY <1>1
  <2>2. h[0] = c.audits
    BY <1>8, <2>1, Zenon
  <2>3. QED BY <2>1, <2>2 DEF V, Registered
<1>10. \A n \in 0 .. N - 1 : n \in P => n + 1 \in P
  <2>1. SUFFICES ASSUME NEW n \in 0 .. N - 1, h[n] \in V PROVE n + 1 \in P
    OBVIOUS
  <2>2. n + 1 \in 0 .. N /\ n + 1 # 0 /\ (n + 1) - 1 = n
    BY <1>1
  <2>3. h[n + 1] = IF n \in DOMAIN c.flags THEN NewestAudits(Append(h[n], Audit(n))) ELSE h[n]
    BY <1>8, <2>2
  <2>4. h[n + 1] = AuditedHouse(c, failing, at, h[n], n)
    BY <2>3, Zenon DEF AuditedHouse
  <2>5. h[n + 1] \in V
    BY <2>1, <2>4, OneHouseAudited DEF V
  <2>6. QED BY <2>2, <2>5
<1>11. N \in P
  <2> HIDE DEF P
  <2>1. 0 .. N \subseteq P
    BY <1>1, <1>9, <1>10, BoundedInduction
  <2>2. QED BY <1>1, <2>1
<1>12. QED BY <1>7, <1>11 DEF V

\* What the month does to the registers: who leads a house and where it stands is not its matter.
LEMMA AuditingKeeps ==
  ASSUME NEW c, Registered(c), NEW failing, NEW at \in Nat
  PROVE  LET d == AuditBrands(c, failing, at)
         IN  /\ Registered(d) /\ d.portfolio = c.portfolio /\ d.managed = c.managed
             /\ d.schemes = c.schemes /\ d.acquired = c.acquired
<1> DEFINE d == AuditBrands(c, failing, at)
           audits == Audited(c, failing, at)
<1>1. PICK lost : d = [c EXCEPT !.audits = audits, !.flags = Without(@, lost)]
  BY DEF AuditBrands
<1>2. audits \in Seq(AuditsIn(c.portfolio))
  BY AuditsStay
<1> HIDE DEF d, audits
<1>3. /\ DOMAIN d = Registries /\ d.schemes = c.schemes
      /\ d.portfolio = c.portfolio /\ d.managed = c.managed
      /\ d.models = c.models /\ d.accounts = c.accounts
      /\ d.managers = c.managers /\ d.budgets = c.budgets
      /\ d.flags = Without(c.flags, lost) /\ d.audits = audits
      /\ d.escalations = c.escalations /\ d.results = c.results /\ d.acquired = c.acquired
  BY <1>1 DEF Registered, Registries
<1>4. DOMAIN d.flags \subseteq DOMAIN c.flags /\ \A k \in DOMAIN d.flags : d.flags[k] = c.flags[k]
  BY <1>3 DEF Without
<1>5. Registered(d)
  BY <1>2, <1>3, <1>4 DEF Registered
<1>6. QED BY <1>3, <1>5 DEF d

LEMMA RaisingKeeps ==
  ASSUME NEW c, Registered(c), NEW at
  PROVE  LET d == RaiseManagerEscalations(c, at)
         IN  /\ Registered(d) /\ d.portfolio = c.portfolio /\ d.managed = c.managed
             /\ d.schemes = c.schemes /\ d.acquired = c.acquired
<1> DEFINE d == RaiseManagerEscalations(c, at)
           failures == {h \in c.portfolio \cap c.managers : FailedLastAudit(c, h)}
           losing == {h \in (c.portfolio \cap c.managers) \ failures :
                        -c.results[h] > RepairLimit}
           Raised(h, kind, n) == [house |-> h, month |-> at, kind |-> kind,
                                  amount |-> n, status |-> "open"]
           new == {Raised(h, "capex", 1) : h \in failures}
                    \cup {Raised(h, "repair", -c.results[h]) : h \in losing}
<1>1. d = [c EXCEPT !.escalations = @ \cup {Raised(h, "capex", 1) : h \in failures}
                       \cup {Raised(h, "repair", -c.results[h]) : h \in losing}]
  BY DEF RaiseManagerEscalations
<1>2. \A x \in new : "house" \in DOMAIN x /\ x.house \in c.portfolio
  <2>1. failures \subseteq c.portfolio /\ losing \subseteq c.portfolio
    OBVIOUS
  <2> HIDE DEF failures, losing
  <2>2. QED BY <2>1
<1>3. d.escalations = c.escalations \cup new
  <2>1. "escalations" \in DOMAIN c
    BY DEF Registered, Registries
  <2> HIDE DEF failures, losing
  <2>2. QED BY <1>1, <2>1
<1>4. /\ DOMAIN d = Registries /\ d.schemes = c.schemes
      /\ d.portfolio = c.portfolio /\ d.managed = c.managed
      /\ d.models = c.models /\ d.accounts = c.accounts
      /\ d.managers = c.managers /\ d.budgets = c.budgets
      /\ d.flags = c.flags /\ d.audits = c.audits
      /\ d.results = c.results /\ d.acquired = c.acquired
  <2> HIDE DEF failures, losing
  <2>1. QED BY <1>1 DEF Registered, Registries
<1> HIDE DEF d, new
<1>5. Registered(d)
  BY <1>2, <1>3, <1>4 DEF Registered
<1>6. QED BY <1>4, <1>5 DEF d

LEMMA MonthKeepsHouses ==
  ASSUME GroupInv, NEW results \in [company.portfolio -> Profits], NEW failing,
         RunCompanyMonth(results, failing)
  PROVE  GroupInv'
<1> DEFINE synced == SyncTreasury(company, purse.cash)
           houses == DOMAIN company.managed
           traded == [synced EXCEPT
                        !.results = results,
                        !.accounts = [h \in DOMAIN @ |->
                                        @[h] + (IF h \in houses THEN results[h] ELSE 0)]]
           audited == AuditBrands(traded, failing, closed)
           raised == RaiseManagerEscalations(audited, closed)
<1>1. /\ \E cash : company' = SyncTreasury(raised, cash)
      /\ closed' = closed + 1 /\ brought' = brought
  BY DEF RunCompanyMonth
<1>2. /\ Registered(synced) /\ synced.portfolio = company.portfolio
      /\ synced.managed = company.managed /\ synced.schemes = company.schemes
      /\ synced.acquired = company.acquired
  <2>1. Registered(synced)
    BY SyncingKeeps DEF GroupInv
  <2>2. QED BY <2>1 DEF SyncTreasury
<1> HIDE DEF synced, houses
<1>3. /\ DOMAIN traded = Registries /\ traded.schemes = synced.schemes
      /\ traded.portfolio = synced.portfolio /\ traded.managed = synced.managed
      /\ traded.models = synced.models /\ DOMAIN traded.accounts = DOMAIN synced.accounts
      /\ traded.managers = synced.managers /\ traded.budgets = synced.budgets
      /\ traded.flags = synced.flags /\ traded.audits = synced.audits
      /\ traded.escalations = synced.escalations
      /\ traded.results = results /\ traded.acquired = synced.acquired
  BY <1>2 DEF Registered, Registries
<1> HIDE DEF traded
<1>4. Registered(traded)
  BY <1>2, <1>3 DEF Registered
<1>5. /\ Registered(audited) /\ audited.portfolio = traded.portfolio
      /\ audited.managed = traded.managed /\ audited.schemes = traded.schemes
      /\ audited.acquired = traded.acquired
  BY <1>4, AuditingKeeps DEF GroupInv
<1> HIDE DEF audited
<1>6. /\ Registered(raised) /\ raised.portfolio = audited.portfolio
      /\ raised.managed = audited.managed /\ raised.schemes = audited.schemes
      /\ raised.acquired = audited.acquired
  BY <1>5, RaisingKeeps
<1> HIDE DEF raised
<1>7. Originated(raised, brought)
  <2>1. /\ raised.portfolio = company.portfolio /\ raised.managed = company.managed
        /\ raised.schemes = company.schemes /\ raised.acquired = company.acquired
    BY <1>2, <1>3, <1>5, <1>6
  <2>2. QED BY <2>1 DEF GroupInv, Originated
<1>8. closed' \in Nat
  BY <1>1 DEF GroupInv
<1>9. QED BY <1>1, <1>6, <1>7, <1>8, SyncingKeeps DEF GroupInv

LEMMA RefreshKeepsHouses ==
  ASSUME GroupInv, RefreshMetrics
  PROVE  GroupInv'
<1>1. /\ \E cash : company' = SyncTreasury(company, cash)
      /\ closed' = closed /\ brought' = brought
  BY DEF RefreshMetrics
<1>2. QED BY <1>1, SyncingKeeps DEF GroupInv

LEMMA GroupStays == GroupInv /\ [GroupNext]_groupVars => GroupInv'
<1> SUFFICES ASSUME GroupInv, [GroupNext]_groupVars PROVE GroupInv'
  OBVIOUS
<1>1. CASE UNCHANGED groupVars
  BY <1>1 DEF groupVars, GroupInv
<1>2. ASSUME NEW h \in Schemed, NEW city \in Cities, StartDevelopment(h, city) PROVE GroupInv'
  BY <1>2, StartKeeps
<1>3. ASSUME NEW h \in Schemed, NEW item, CompletePreOpeningTask(h, item) PROVE GroupInv'
  BY <1>3, TaskKeeps
<1>4. ASSUME NEW h \in Schemed, OpenDevelopment(h) PROVE GroupInv'
  BY <1>4, OpeningKeeps
<1>5. ASSUME NEW h \in ForSale, RunDueDiligence(h) \/ AcquireHotel(h) PROVE GroupInv'
  BY <1>5, DiligenceKeeps, PurchaseKeeps
<1>6. ASSUME NEW h \in Houses, NEW brand \in Brands, AssignBrand(h, brand) PROVE GroupInv'
  BY <1>6, FlagKeeps
<1>7. ASSUME NEW h \in Houses, RemoveBrand(h) \/ SetHotelBudget(h) PROVE GroupInv'
  BY <1>7, UnflagKeeps, BudgetKeeps
<1>8. ASSUME NEW h \in Houses, NEW model, SetOperatingModel(h, model) PROVE GroupInv'
  <2> DEFINE models == With(company.models, h, model)
  <2>1. /\ company' = [company EXCEPT !.models = models]
        /\ h \in company.portfolio /\ closed' = closed /\ brought' = brought
    BY <1>8 DEF SetOperatingModel
  <2>2. DOMAIN models = DOMAIN company.models \cup {h}
    BY DEF With
  <2> HIDE DEF models
  <2>3. QED BY <2>1, <2>2, ModelKeeps
<1>9. ASSUME NEW e \in company.escalations, NEW approve, ResolveEscalation(e, approve)
      PROVE  GroupInv'
  BY <1>9, AnswerKeeps
<1>10. ASSUME NEW h, NEW direction, TransferInternalFunding(h, direction, 1) PROVE GroupInv'
  BY <1>10, FundingKeeps
<1>11. ASSUME NEW city, MarketExit(city) PROVE GroupInv'
  BY <1>11, ExitKeeps
<1>12. ASSUME NEW results \in [company.portfolio -> Profits],
              NEW failing \in SUBSET DOMAIN company.flags, RunCompanyMonth(results, failing)
       PROVE  GroupInv'
  BY <1>12, MonthKeepsHouses
<1>13. CASE SellHotel \/ AssetSale
  BY <1>13, SaleOfAHouseKeeps, LeasebackKeeps
<1>14. CASE SpendElsewhere(GroupCash)
  BY <1>14 DEF SpendElsewhere, GroupInv
<1>15. CASE RefreshMetrics
  BY <1>15, RefreshKeepsHouses
<1>16. CASE GroupNext
  BY <1>2, <1>3, <1>4, <1>5, <1>6, <1>7, <1>8, <1>9, <1>10, <1>11, <1>12, <1>13, <1>14, <1>15,
     <1>16 DEF GroupNext
<1>17. QED BY <1>1, <1>16

LEMMA GroupShows == GroupInv => GroupAgrees
<1> SUFFICES ASSUME GroupInv PROVE GroupAgrees
  OBVIOUS
<1>1. \A i \in DOMAIN company.audits : company.audits[i].house \in company.portfolio
  <2> DEFINE V == AuditsIn(company.portfolio)
  <2>1. \A a \in V : a.house \in company.portfolio
    BY DEF AuditsIn
  <2>2. company.audits \in Seq(V)
    BY DEF GroupInv, Registered
  <2> HIDE DEF V
  <2>3. QED BY <2>1, <2>2
<1>2. RegistersAgree
  BY <1>1 DEF GroupInv, Registered, RegistersAgree
<1>3. EveryHouseHasOneOrigin
  BY HousesApart DEF GroupInv, Originated, EveryHouseHasOneOrigin, Registered
<1>4. QED BY <1>2, <1>3 DEF GroupAgrees

\* A house stands in all the registers of the group or in none, and came in by one scheme or
\* one purchase, whatever is opened, bought, flagged, sold and given up (companyCommands.ts,
\* recovery.ts, companyMonth.ts).
THEOREM RegistersAreOneGroup == GroupSpec => []GroupAgrees
<1>1. GroupSpec => []GroupInv
  BY GroupBegins, GroupStays, PTL DEF GroupSpec
<1>2. QED BY <1>1, GroupShows, PTL

-----------------------------------------------------------------------------
(* The ventures of the group.                                              *)

LEMMA GreaterIs ==
  \A a, b \in Int : Max({a, b}) = IF b <= a THEN a ELSE b
<1> SUFFICES ASSUME NEW a \in Int, NEW b \in Int
             PROVE  Max({a, b}) = IF b <= a THEN a ELSE b
  OBVIOUS
<1>1. \E x \in {a, b} : \A y \in {a, b} : x >= y
  <2>1. CASE a >= b
    BY <2>1
  <2>2. CASE ~(a >= b)
    BY <2>2
  <2>3. QED BY <2>1, <2>2
<1>2. Max({a, b}) \in {a, b} /\ \A y \in {a, b} : Max({a, b}) >= y
  BY <1>1 DEF Max
<1>3. QED BY <1>2

LEMMA LesserIs ==
  \A a, b \in Int : Min({a, b}) = IF a <= b THEN a ELSE b
<1> SUFFICES ASSUME NEW a \in Int, NEW b \in Int
             PROVE  Min({a, b}) = IF a <= b THEN a ELSE b
  OBVIOUS
<1>1. \E x \in {a, b} : \A y \in {a, b} : x <= y
  <2>1. CASE a <= b
    BY <2>1
  <2>2. CASE ~(a <= b)
    BY <2>2
  <2>3. QED BY <2>1, <2>2
<1>2. Min({a, b}) \in {a, b} /\ \A y \in {a, b} : Min({a, b}) <= y
  BY <1>1 DEF Min
<1>3. QED BY <1>2

LEMMA RatesAre ==
  /\ Whole \in Nat \ {0} /\ MonthsOfYear \in Nat \ {0}
  /\ RampMonths \in Nat \ {0} /\ SoldDivisor \in Nat \ {0}
  /\ OpeningCapture \in Nat /\ OpeningCapture <= Whole /\ Margin \in Nat
  /\ SoldOccupancy \in Nat /\ Ancillary \in Nat /\ AreaCost \in Nat /\ Multiple \in Nat
  /\ Uncertainty \in Nat /\ Uncertainty <= Whole /\ Uplifts \subseteq Nat
  BY VenturesAssumption

LEMMA YearHasNights == NightsOfYear \in Nat \ {0}
  BY VenturesAssumption

LEMMA MonthHasNights == \A m \in Int : NightsOf(m) \in Nat \ {0}
<1> SUFFICES ASSUME NEW m \in Int PROVE NightsOf(m) \in Nat \ {0}
  OBVIOUS
<1> DEFINE n == Len(MonthNights)
<1>1. MonthNights \in Seq(Nat \ {0}) /\ n \in Nat \ {0} /\ DOMAIN MonthNights = 1 .. n
  BY VenturesAssumption, LenProperties, EmptySeq
<1>2. (m % n) + 1 \in 1 .. n
  BY <1>1
<1>3. QED BY <1>1, <1>2, ElementOfSeq DEF NightsOf

\* A share of what is not negative is a natural number, and of more it is no less.
LEMMA ShareIs == \A n, bp \in Nat : Scaled(n, bp) \in Nat
  BY RatesAre, ProductsAre, QuotientsAre DEF Scaled

LEMMA SharesGrow ==
  \A m, n, bp \in Nat : m <= n => Scaled(m, bp) <= Scaled(n, bp)
<1> SUFFICES ASSUME NEW m \in Nat, NEW n \in Nat, NEW bp \in Nat, m <= n
             PROVE  Scaled(m, bp) <= Scaled(n, bp)
  OBVIOUS
<1> DEFINE p == m * bp
           q == n * bp
<1>1. p \in Int /\ q \in Int /\ p <= q
  BY ProductsAre, ProductsGrow
<1>2. Scaled(m, bp) = p \div Whole /\ Scaled(n, bp) = q \div Whole
  BY DEF Scaled
<1> HIDE DEF p, q
<1>3. QED BY <1>1, <1>2, RatesAre, QuotientsGrow

\* A share of at most the whole is at most what it is a share of.
LEMMA ShareIsPart == \A n, bp \in Nat : bp <= Whole => Scaled(n, bp) <= n
<1> SUFFICES ASSUME NEW n \in Nat, NEW bp \in Nat, bp <= Whole PROVE Scaled(n, bp) <= n
  OBVIOUS
<1> DEFINE p == n * bp
           q == n * Whole
<1>1. p \in Int /\ q \in Int /\ p <= q
  BY RatesAre, ProductsAre, ProductsGrow
<1>2. q \div Whole = n
  BY RatesAre
<1>3. Scaled(n, bp) = p \div Whole
  BY DEF Scaled
<1> HIDE DEF p, q
<1>4. p \div Whole <= q \div Whole
  BY <1>1, RatesAre, QuotientsGrow
<1>5. QED BY <1>2, <1>3, <1>4

\* The study of a scheme: what it takes is not negative, and the downside returns no more
\* on the cost than the base case.
SchemeFields(p) ==
  p.rooms \in Nat \ {0} /\ p.adr \in Nat /\ p.occupancy \in Nat /\ p.investment \in Nat

LEMMA PlansAre == \A p \in Plans : SchemeFields(p)
  BY VenturesAssumption, RatesAre DEF SchemeFields

LEMMA ReturnsGrow ==
  \A r, s \in Nat, n \in Nat \ {0} :
    r <= s => (Scaled(r, Margin) * Whole) \div n <= (Scaled(s, Margin) * Whole) \div n
<1> SUFFICES ASSUME NEW r \in Nat, NEW s \in Nat, NEW n \in Nat \ {0}, r <= s
             PROVE  (Scaled(r, Margin) * Whole) \div n <= (Scaled(s, Margin) * Whole) \div n
  OBVIOUS
<1> DEFINE p == Scaled(r, Margin)
           q == Scaled(s, Margin)
<1>1. p \in Nat /\ q \in Nat /\ p <= q
  BY RatesAre, ShareIs, SharesGrow
<1> HIDE DEF p, q
<1>2. p * Whole <= q * Whole /\ p * Whole \in Int /\ q * Whole \in Int
  BY <1>1, RatesAre, ProductsGrow, ProductsAre
<1>3. (p * Whole) \div n <= (q * Whole) \div n
  BY <1>2, QuotientsGrow
<1>4. QED BY <1>3 DEF p, q

LEMMA StudyIsCautious ==
  ASSUME NEW p, SchemeFields(p)
  PROVE  Study(p).base \in Nat /\ Study(p).onCostLow <= Study(p).onCost
<1> DEFINE gross == p.adr * p.rooms * NightsOfYear
           base == Scaled(gross, p.occupancy)
           spread == Scaled(base, Uncertainty)
           low == base - spread
<1>1. gross \in Nat
  BY YearHasNights, ProductsAre DEF SchemeFields
<1> HIDE DEF gross
<1>2. base \in Nat
  BY <1>1, ShareIs DEF SchemeFields
<1> HIDE DEF base
<1>3. spread \in Nat /\ spread <= base
  BY <1>2, RatesAre, ShareIs, ShareIsPart
<1> HIDE DEF spread
<1>4. low \in Nat /\ low <= base
  BY <1>2, <1>3
<1>5. Study(p).base = base
  BY DEF Study, base, gross
<1>6. /\ Study(p).onCost = IF p.investment = 0 THEN -1
                           ELSE (Scaled(base, Margin) * Whole) \div p.investment
      /\ Study(p).onCostLow = IF p.investment = 0 THEN -1
                              ELSE (Scaled(low, Margin) * Whole) \div p.investment
  BY DEF Study, base, gross, spread, low
<1> HIDE DEF low
<1>7. CASE p.investment = 0
  BY <1>2, <1>5, <1>6, <1>7
<1>8. CASE p.investment # 0
  <2>1. p.investment \in Nat \ {0}
    BY <1>8 DEF SchemeFields
  <2>2. (Scaled(low, Margin) * Whole) \div p.investment
          <= (Scaled(base, Margin) * Whole) \div p.investment
    BY <2>1, <1>2, <1>4, ReturnsGrow
  <2>3. QED BY <1>2, <1>5, <1>6, <1>8, <2>2
<1>9. QED BY <1>7, <1>8

\* A house is open no shorter later, takes no smaller a part of its demand for that, and
\* sells no less of its nights.
LEMMA HousesAge ==
  ASSUME NEW h, h.opened \in Int, NEW m \in Int, NEW n \in Int, m <= n
  PROVE  /\ MonthsOpen(h, m) \in Nat /\ MonthsOpen(h, n) \in Nat
         /\ MonthsOpen(h, m) <= MonthsOpen(h, n)
<1>1. \A a, b \in Int : a <= b => /\ Max({0, a}) \in Nat /\ Max({0, b}) \in Nat
                                  /\ Max({0, a}) <= Max({0, b})
  <2>1. SUFFICES ASSUME NEW a \in Int, NEW b \in Int, a <= b
                 PROVE  /\ Max({0, a}) \in Nat /\ Max({0, b}) \in Nat
                        /\ Max({0, a}) <= Max({0, b})
    OBVIOUS
  <2>2. Max({0, a}) = IF a <= 0 THEN 0 ELSE a
    BY GreaterIs
  <2>3. Max({0, b}) = IF b <= 0 THEN 0 ELSE b
    BY GreaterIs
  <2>4. QED BY <2>1, <2>2, <2>3
<1>2. CASE h.first
  <2> DEFINE a == m - h.opened
             b == n - h.opened
  <2>1. a \in Int /\ b \in Int /\ a <= b
    OBVIOUS
  <2>2. MonthsOpen(h, m) = Max({0, a}) /\ MonthsOpen(h, n) = Max({0, b})
    BY <1>2 DEF MonthsOpen
  <2> HIDE DEF a, b
  <2>3. QED BY <1>1, <2>1, <2>2
<1>3. CASE ~h.first
  <2> DEFINE a == m - h.opened - 1
             b == n - h.opened - 1
  <2>1. a \in Int /\ b \in Int /\ a <= b
    OBVIOUS
  <2>2. MonthsOpen(h, m) = Max({0, a}) /\ MonthsOpen(h, n) = Max({0, b})
    BY <1>3 DEF MonthsOpen
  <2> HIDE DEF a, b
  <2>3. QED BY <1>1, <2>1, <2>2
<1>4. QED BY <1>2, <1>3

LEMMA RampsRise ==
  \A a, b \in Nat : a <= b => Ramp(a) \in Nat /\ Ramp(b) \in Nat /\ Ramp(a) <= Ramp(b)
<1> DEFINE gap == Whole - OpeningCapture
<1>1. gap \in Nat /\ OpeningCapture + gap = Whole
  BY RatesAre
<1> HIDE DEF gap
<1>2. ASSUME NEW a \in Nat, a < RampMonths
      PROVE  /\ Ramp(a) = OpeningCapture + (a * gap) \div RampMonths
             /\ (a * gap) \div RampMonths \in Nat
             /\ (a * gap) \div RampMonths <= gap
  <2> DEFINE p == a * gap
             q == RampMonths * gap
  <2>1. p \in Nat /\ q \in Nat /\ p <= q
    BY <1>1, <1>2, RatesAre, ProductsAre, ProductsGrow
  <2>2. q \div RampMonths = gap
    BY <1>1, RatesAre
  <2>3. Ramp(a) = OpeningCapture + p \div RampMonths
    BY <1>2, RatesAre DEF Ramp, gap
  <2>4. p = a * gap
    OBVIOUS
  <2> HIDE DEF p, q
  <2>5. p \div RampMonths \in Nat /\ p \div RampMonths <= q \div RampMonths
    BY <2>1, RatesAre, QuotientsAre, QuotientsGrow
  <2>6. QED BY <2>2, <2>3, <2>4, <2>5
<1>3. ASSUME NEW a \in Nat, ~(a < RampMonths) PROVE Ramp(a) = Whole
  BY <1>3, RatesAre DEF Ramp
<1>4. SUFFICES ASSUME NEW a \in Nat, NEW b \in Nat, a <= b
               PROVE  Ramp(a) \in Nat /\ Ramp(b) \in Nat /\ Ramp(a) <= Ramp(b)
  OBVIOUS
<1>5. CASE b < RampMonths
  <2> DEFINE p == a * gap
             q == b * gap
             x == p \div RampMonths
             y == q \div RampMonths
  <2>1. a < RampMonths
    BY <1>4, <1>5, RatesAre
  <2>2. Ramp(a) = OpeningCapture + x /\ Ramp(b) = OpeningCapture + y /\ x \in Nat /\ y \in Nat
    BY <1>2, <1>5, <2>1
  <2>3. p \in Int /\ q \in Int /\ p <= q
    BY <1>1, <1>4, ProductsAre, ProductsGrow
  <2> HIDE DEF p, q
  <2>4. x <= y
    BY <2>3, RatesAre, QuotientsGrow
  <2> HIDE DEF x, y
  <2>5. QED BY <2>2, <2>4, RatesAre
<1>6. CASE ~(b < RampMonths) /\ a < RampMonths
  <2> DEFINE x == (a * gap) \div RampMonths
  <2>1. Ramp(a) = OpeningCapture + x /\ x \in Nat /\ x <= gap /\ Ramp(b) = Whole
    BY <1>2, <1>3, <1>6
  <2> HIDE DEF x
  <2>2. QED BY <2>1, <1>1, RatesAre
<1>7. CASE ~(b < RampMonths) /\ ~(a < RampMonths)
  BY <1>3, <1>7, RatesAre
<1>8. QED BY <1>5, <1>6, <1>7

\* A house: what its month is counted from.
OwnedFields(h) ==
  /\ h.rooms \in Nat /\ h.adr \in Nat /\ h.occupancy \in Nat /\ h.opened \in Int

Capture(h, now, uplift) ==
  Min({Whole, (h.occupancy * Ramp(MonthsOpen(h, now)) * (Whole + uplift)) \div (Whole * Whole)})

LEMMA CapturesRise ==
  ASSUME NEW h, OwnedFields(h), NEW m \in Int, NEW n \in Int, m <= n,
         NEW u \in Nat, NEW v \in Nat, u <= v
  PROVE  /\ Capture(h, m, u) \in Nat /\ Capture(h, n, v) \in Nat
         /\ Capture(h, m, u) <= Capture(h, n, v)
<1> DEFINE r == Ramp(MonthsOpen(h, m))
           s == Ramp(MonthsOpen(h, n))
           c == h.occupancy
           p == c * r
           q == c * s
           x == p * (Whole + u)
           y == q * (Whole + v)
           w == Whole * Whole
           k == x \div w
           l == y \div w
<1>1. r \in Nat /\ s \in Nat /\ r <= s /\ c \in Nat
  <2>1. h.opened \in Int
    BY DEF OwnedFields
  <2>2. QED BY <2>1, HousesAge, RampsRise DEF OwnedFields
<1>2. Capture(h, m, u) = Min({Whole, k}) /\ Capture(h, n, v) = Min({Whole, l})
  BY DEF Capture
<1> HIDE DEF r, s, c
<1>3. p \in Nat /\ q \in Nat /\ p <= q
  BY <1>1, ProductsAre, ProductsGrow
<1> HIDE DEF p, q
<1>4. Whole + u \in Nat /\ Whole + v \in Nat /\ Whole + u <= Whole + v
  BY RatesAre
<1>5. x \in Nat /\ y \in Nat /\ x <= y
  BY <1>3, <1>4, ProductsAre, ProductsGrow
<1>6. w \in Nat \ {0}
  BY RatesAre
<1> HIDE DEF x, y, w
<1>7. k \in Nat /\ l \in Nat /\ k <= l
  BY <1>5, <1>6, QuotientsAre, QuotientsGrow
<1> HIDE DEF k, l
<1>8. /\ Min({Whole, k}) = IF Whole <= k THEN Whole ELSE k
      /\ Min({Whole, l}) = IF Whole <= l THEN Whole ELSE l
  BY <1>7, RatesAre, LesserIs
<1>9. QED BY <1>2, <1>7, <1>8, RatesAre

MonthRecords ==
  [available : Nat, sold : Nat, room : Nat, other : Nat, gop : Nat, expense : Int, uplift : Nat]

LEMMA MonthIs ==
  ASSUME NEW h, OwnedFields(h), NEW m \in Int, NEW u \in Nat
  PROVE  /\ Month(h, m, u) \in MonthRecords
         /\ Month(h, m, u).uplift = u
         /\ Month(h, m, u).available = h.rooms * NightsOf(m)
         /\ Month(h, m, u).sold = Scaled(h.rooms * NightsOf(m), Capture(h, m, u))
<1> DEFINE capture == Capture(h, m, u)
           rooms == h.rooms * NightsOf(m)
           nightsSold == Scaled(rooms, capture)
           room == nightsSold * h.adr
           other == Scaled(room, Ancillary)
           gop == Scaled(room + other, Margin)
<1>1. Month(h, m, u) = [available |-> rooms, sold |-> nightsSold, room |-> room,
                        other |-> other, gop |-> gop, expense |-> room + other - gop,
                        uplift |-> u]
  BY DEF Month, Capture
<1>2. capture \in Nat
  BY CapturesRise
<1> HIDE DEF capture
<1>3. rooms \in Nat /\ h.adr \in Nat
  BY MonthHasNights, ProductsAre DEF OwnedFields
<1>4. rooms = h.rooms * NightsOf(m)
  OBVIOUS
<1> HIDE DEF rooms
<1>5. nightsSold \in Nat
  BY <1>2, <1>3, ShareIs
<1>6. nightsSold = Scaled(rooms, capture)
  OBVIOUS
<1> HIDE DEF nightsSold
<1>7. room \in Nat
  BY <1>3, <1>5, ProductsAre
<1> HIDE DEF room
<1>8. other \in Nat /\ room + other \in Nat
  BY <1>7, RatesAre, ShareIs
<1> HIDE DEF other
<1>9. gop \in Nat /\ room + other - gop \in Int
  <2>1. gop \in Nat
    BY <1>8, RatesAre, ShareIs
  <2> HIDE DEF gop
  <2>2. QED BY <2>1, <1>7, <1>8
<1> HIDE DEF gop
<1>10. Month(h, m, u) \in MonthRecords
  BY <1>1, <1>3, <1>5, <1>7, <1>8, <1>9 DEF MonthRecords
<1>11. /\ Month(h, m, u).uplift = u /\ Month(h, m, u).sold = nightsSold
       /\ Month(h, m, u).available = rooms
  BY <1>1
<1>12. QED BY <1>4, <1>6, <1>10, <1>11 DEF capture

LEMMA MonthsRipen ==
  ASSUME NEW h, OwnedFields(h), NEW m \in Int, NEW n \in Int, m <= n,
         NEW u \in Nat, NEW v \in Nat, u <= v,
         Month(h, m, u).available <= Month(h, n, v).available
  PROVE  Month(h, m, u).sold <= Month(h, n, v).sold
<1> DEFINE r == h.rooms * NightsOf(m)
           s == h.rooms * NightsOf(n)
           c == Capture(h, m, u)
           d == Capture(h, n, v)
<1>1. r \in Nat /\ s \in Nat
  BY MonthHasNights, ProductsAre DEF OwnedFields
<1>2. c \in Nat /\ d \in Nat /\ c <= d
  BY CapturesRise
<1>3. /\ Month(h, m, u).sold = Scaled(r, c) /\ Month(h, n, v).sold = Scaled(s, d)
      /\ Month(h, m, u).available = r /\ Month(h, n, v).available = s
  BY MonthIs
<1>3a. r <= s
  BY <1>3
<1> HIDE DEF r, s, c, d
<1>4. r * c \in Int /\ s * d \in Int /\ r * c <= s * d
  BY <1>1, <1>2, <1>3a, ProductsAre, ProductsGrow
<1>5. Scaled(r, c) <= Scaled(s, d)
  <2> DEFINE p == r * c
             q == s * d
  <2>1. p \in Int /\ q \in Int /\ p <= q
    BY <1>4
  <2>2. Scaled(r, c) = p \div Whole /\ Scaled(s, d) = q \div Whole
    BY DEF Scaled
  <2> HIDE DEF p, q
  <2>3. QED BY <2>1, <2>2, RatesAre, QuotientsGrow
<1>6. QED BY <1>3, <1>5

\* What a house has made in the months it has traded.
EarnedOver(months) == SumFunction([i \in DOMAIN months |-> months[i].gop])

\* A house the group holds: every month it has traded is the month of a house of that age,
\* and its account is what they made with what was moved into it, and is not overdrawn.
HouseIsKept(h) ==
  /\ OwnedFields(held[h])
  /\ history[h] \in Seq(MonthRecords)
  /\ \A i \in DOMAIN history[h] :
       history[h][i] = Month(held[h], month - Len(history[h]) + i - 1, history[h][i].uplift)
  /\ EarnedOver(history[h]) \in Int /\ allotted[h] \in Int
  /\ accounts[h] = EarnedOver(history[h]) + allotted[h] /\ accounts[h] >= 0

HousesAreKept ==
  /\ month \in Int
  /\ DOMAIN contract = DOMAIN held /\ DOMAIN accounts = DOMAIN held
  /\ DOMAIN history = DOMAIN held /\ DOMAIN allotted = DOMAIN held
  /\ \A h \in DOMAIN held : HouseIsKept(h)

\* A scheme and the house it becomes, which may have been given up since.
SchemeIsPaid(s) ==
  /\ s \in Schemes
  /\ DOMAIN schemes[s] = {"plan", "study", "done", "open"}
  /\ SchemeFields(schemes[s].plan) /\ schemes[s].study = Study(schemes[s].plan)
  /\ schemes[s].open \in BOOLEAN
  /\ schemes[s].open <=> s \in DOMAIN held \cup parted
  /\ schemes[s].open => schemes[s].done = Tasks
  /\ s \in DOMAIN spentOn /\ spentOn[s] = schemes[s].plan.investment

SchemesArePaid ==
  /\ \A s \in DOMAIN schemes : SchemeIsPaid(s)
  /\ \A s \in Schemes : s \in DOMAIN spentOn \cup DOMAIN held \cup parted => s \in DOMAIN schemes

\* A house for sale: what has been spent on it pays for the report that is kept, and once
\* it is bought, for its price as well.
Looked(t) == IF t \in DOMAIN reports THEN reports[t] ELSE {}

TargetIsPriced(t) ==
  /\ Looked(t) \subseteq Areas
  /\ PaidFor(t) \in Int /\ PaidFor(t) >= Cardinality(Looked(t)) * AreaCost
  /\ t \in DOMAIN held =>
       /\ t \in DOMAIN spentOn
       /\ PaidFor(t) + Liability(t, Looked(t))
            >= EquityValue(t) + Cardinality(Looked(t)) * AreaCost

TargetsArePriced == \A t \in Targets : TargetIsPriced(t)

VenturesInv == HousesAreKept /\ SchemesArePaid /\ TargetsArePriced

\* What spending on a house leaves of what was spent.
LEMMA SpendingIs ==
  ASSUME NEW h, NEW n, SpendOn(h, n)
  PROVE  /\ DOMAIN spentOn' = DOMAIN spentOn \cup {h}
         /\ PaidFor(h)' = PaidFor(h) + n
         /\ spentOn'[h] = PaidFor(h) + n
         /\ \A x : x # h => PaidFor(x)' = PaidFor(x)
         /\ \A x \in DOMAIN spentOn : x # h => spentOn'[x] = spentOn[x]
<1>1. spentOn' = Put(spentOn, h, PaidFor(h) + n)
  BY DEF SpendOn
<1>2. /\ DOMAIN spentOn' = DOMAIN spentOn \cup {h} /\ spentOn'[h] = PaidFor(h) + n
      /\ \A x \in DOMAIN spentOn : x # h => spentOn'[x] = spentOn[x]
  BY <1>1 DEF Put
<1>3. PaidFor(h)' = PaidFor(h) + n
  BY <1>2 DEF PaidFor
<1>4. \A x : x # h => PaidFor(x)' = PaidFor(x)
  BY <1>2 DEF PaidFor
<1>5. QED BY <1>2, <1>3, <1>4

LEMMA NothingEarned == EarnedOver(<<>>) = 0
<1> DEFINE w == [i \in DOMAIN <<>> |-> <<>>[i].gop]
<1>1. DOMAIN w = {} /\ EarnedOver(<<>>) = SumFunctionOnSet(w, DOMAIN w)
  BY DEF EarnedOver, SumFunction
<1> HIDE DEF w
<1>2. QED BY <1>1, SumOfNothing

LEMMA EarnedOnce ==
  ASSUME NEW months \in Seq(MonthRecords), NEW m \in MonthRecords
  PROVE  EarnedOver(Append(months, m)) = EarnedOver(months) + m.gop
<1> DEFINE n == Len(months)
           longer == Append(months, m)
           v == [i \in DOMAIN months |-> months[i].gop]
           w == [i \in DOMAIN longer |-> longer[i].gop]
           S == 1 .. n
<1>1. n \in Nat /\ DOMAIN months = S /\ \A i \in S : months[i] \in MonthRecords
  BY LenProperties, ElementOfSeq
<1>2. /\ longer \in Seq(MonthRecords) /\ DOMAIN longer = 1 .. (n + 1) /\ longer[n + 1] = m
      /\ \A i \in S : longer[i] = months[i]
  BY AppendProperties
<1>3. DOMAIN w = S \cup {n + 1} /\ DOMAIN v = S /\ n + 1 \notin S
  BY <1>1, <1>2
<1>4. m.gop \in Int /\ \A i \in S : v[i] \in Int
  BY <1>1 DEF MonthRecords
<1>5. w[n + 1] = m.gop /\ \A i \in S : w[i] = v[i]
  BY <1>1, <1>2
<1>6. EarnedOver(longer) = SumFunctionOnSet(w, DOMAIN w) /\ EarnedOver(months) = SumFunctionOnSet(v, DOMAIN v)
  BY DEF EarnedOver, SumFunction
<1>7. IsFiniteSet(S)
  BY <1>1, FS_Interval
<1> HIDE DEF v, w, S, longer, n
<1>8. SumFunctionOnSet(w, S \cup {n + 1}) = w[n + 1] + SumFunctionOnSet(w, S)
  BY <1>3, <1>4, <1>5, <1>7, SumPutsIn
<1>9. SumFunctionOnSet(w, S) = SumFunctionOnSet(v, S) /\ SumFunctionOnSet(v, S) \in Int
  BY <1>4, <1>5, <1>7, SumsCompare, SumIsANumber
<1>10. QED BY <1>3, <1>4, <1>5, <1>6, <1>8, <1>9 DEF longer

LEMMA VenturesBegin == VenturesInit => VenturesInv
<1> SUFFICES ASSUME VenturesInit PROVE VenturesInv
  OBVIOUS
<1>1. /\ DOMAIN schemes = {} /\ DOMAIN reports = {} /\ DOMAIN held = {} /\ DOMAIN contract = {}
      /\ DOMAIN accounts = {} /\ DOMAIN history = {} /\ DOMAIN spentOn = {} /\ month = 0
      /\ DOMAIN allotted = {} /\ parted = {}
  BY DEF VenturesInit
<1>2. HousesAreKept /\ SchemesArePaid
  BY <1>1 DEF HousesAreKept, SchemesArePaid
<1>3. ASSUME NEW t \in Targets PROVE TargetIsPriced(t)
  <2>1. Looked(t) = {} /\ PaidFor(t) = 0 /\ t \notin DOMAIN held
    BY <1>1 DEF Looked, PaidFor
  <2>2. Cardinality({}) = 0
    BY FS_EmptySet
  <2>3. QED BY <2>1, <2>2, RatesAre DEF TargetIsPriced
<1>4. QED BY <1>2, <1>3 DEF VenturesInv, TargetsArePriced

\* A house that is entered has traded no month and earned nothing.
LEMMA AdmissionKeeps ==
  ASSUME HousesAreKept, NEW h, NEW house, OwnedFields(house), Admit(h, house), month' = month
  PROVE  HousesAreKept' /\ DOMAIN held' = DOMAIN held \cup {h}
<1>1. /\ held' = Put(held, h, house) /\ accounts' = Put(accounts, h, 0)
      /\ history' = Put(history, h, <<>>) /\ allotted' = Put(allotted, h, 0)
      /\ contract' = Put(contract, h, [kind |-> "owned", terms |-> 0])
  BY DEF Admit
<1>2. /\ DOMAIN held' = DOMAIN held \cup {h} /\ DOMAIN accounts' = DOMAIN held'
      /\ DOMAIN history' = DOMAIN held' /\ DOMAIN contract' = DOMAIN held'
      /\ DOMAIN allotted' = DOMAIN held'
  BY <1>1 DEF Put, HousesAreKept
<1>3. HouseIsKept(h)'
  <2>1. held'[h] = house /\ accounts'[h] = 0 /\ history'[h] = <<>> /\ allotted'[h] = 0
    BY <1>1 DEF Put
  <2>2. <<>> \in Seq(MonthRecords) /\ DOMAIN <<>> = {}
    OBVIOUS
  <2>3. QED BY <2>1, <2>2, NothingEarned DEF HouseIsKept
<1>4. ASSUME NEW x \in DOMAIN held, x # h PROVE HouseIsKept(x)'
  <2>1. /\ held'[x] = held[x] /\ accounts'[x] = accounts[x] /\ history'[x] = history[x]
        /\ allotted'[x] = allotted[x]
    BY <1>1, <1>4 DEF Put, HousesAreKept
  <2>2. HouseIsKept(x)
    BY DEF HousesAreKept
  <2>3. QED BY <2>1, <2>2 DEF HouseIsKept
<1>5. QED BY <1>2, <1>3, <1>4 DEF HousesAreKept

LEMMA HousesRest ==
  ASSUME HousesAreKept, UNCHANGED <<month, held, contract, accounts, allotted, history>>
  PROVE  HousesAreKept'
  BY DEF HousesAreKept, HouseIsKept

\* What is not touched of a scheme or of a house for sale.
LEMMA SchemeRests ==
  ASSUME NEW s, SchemeIsPaid(s), schemes'[s] = schemes[s],
         s \in DOMAIN held' \cup parted' <=> s \in DOMAIN held \cup parted,
         s \in DOMAIN spentOn', spentOn'[s] = spentOn[s]
  PROVE  SchemeIsPaid(s)'
  BY DEF SchemeIsPaid

LEMMA TargetRests ==
  ASSUME NEW t, TargetIsPriced(t), t \in DOMAIN reports' <=> t \in DOMAIN reports,
         reports'[t] = reports[t], t \in DOMAIN held' => t \in DOMAIN held,
         t \in DOMAIN spentOn' <=> t \in DOMAIN spentOn, PaidFor(t)' = PaidFor(t)
  PROVE  TargetIsPriced(t)'
<1>1. Looked(t)' = Looked(t)
  BY DEF Looked
<1>2. QED BY <1>1 DEF TargetIsPriced

LEMMA StartSchemeKeeps ==
  ASSUME VenturesInv, NEW s \in Schemes, NEW p \in Plans, StartScheme(s, p)
  PROVE  VenturesInv'
<1>1. HousesAreKept'
  BY HousesRest DEF VenturesInv, StartScheme
<1>2. /\ SpendOn(s, p.investment) /\ s \notin DOMAIN schemes /\ s \notin DOMAIN held
      /\ schemes' = Put(schemes, s, [plan |-> p, study |-> Study(p), done |-> {}, open |-> FALSE])
      /\ held' = held /\ parted' = parted /\ reports' = reports
  BY DEF StartScheme
<1>3. s \notin DOMAIN spentOn /\ PaidFor(s) = 0 /\ s \notin parted
  BY <1>2 DEF VenturesInv, SchemesArePaid, PaidFor
<1>4. SchemeFields(p)
  BY PlansAre
<1>5. /\ s \in DOMAIN spentOn' /\ spentOn'[s] = p.investment
      /\ DOMAIN spentOn' = DOMAIN spentOn \cup {s}
      /\ \A x : x # s => PaidFor(x)' = PaidFor(x)
      /\ \A x \in DOMAIN spentOn : x # s => spentOn'[x] = spentOn[x]
  <2>1. p.investment \in Int
    BY <1>4 DEF SchemeFields
  <2>2. 0 + p.investment = p.investment
    BY <2>1
  <2>3. QED BY <1>2, <1>3, <2>2, SpendingIs
<1>6. SchemeIsPaid(s)'
  <2>1. schemes'[s] = [plan |-> p, study |-> Study(p), done |-> {}, open |-> FALSE]
    BY <1>2 DEF Put
  <2>2. /\ DOMAIN schemes'[s] = {"plan", "study", "done", "open"} /\ schemes'[s].plan = p
        /\ schemes'[s].study = Study(p) /\ schemes'[s].open = FALSE
    BY <2>1
  <2>3. s \notin DOMAIN held' \cup parted'
    BY <1>2, <1>3
  <2>4. QED BY <1>4, <1>5, <2>2, <2>3 DEF SchemeIsPaid
<1>7. ASSUME NEW x \in DOMAIN schemes PROVE SchemeIsPaid(x)'
  <2>1. x # s /\ schemes'[x] = schemes[x] /\ SchemeIsPaid(x)
    BY <1>2 DEF Put, VenturesInv, SchemesArePaid
  <2>2. x \in DOMAIN spentOn
    BY <2>1 DEF SchemeIsPaid
  <2>3. QED BY <1>2, <1>5, <2>1, <2>2, SchemeRests
<1>8. DOMAIN schemes' = DOMAIN schemes \cup {s}
  BY <1>2 DEF Put
<1>9. SchemesArePaid'
  BY <1>2, <1>5, <1>6, <1>7, <1>8 DEF SchemesArePaid, VenturesInv
<1>10. ASSUME NEW t \in Targets PROVE TargetIsPriced(t)'
  <2>1. t # s
    BY VenturesAssumption
  <2>2. TargetIsPriced(t)
    BY DEF VenturesInv, TargetsArePriced
  <2>3. QED BY <1>2, <1>5, <2>1, <2>2, TargetRests
<1>11. QED BY <1>1, <1>9, <1>10 DEF VenturesInv, TargetsArePriced

LEMMA CompleteTaskKeeps ==
  ASSUME VenturesInv, NEW s \in Schemes, NEW item \in Tasks, CompleteTask(s, item)
  PROVE  VenturesInv'
<1>1. HousesAreKept'
  BY HousesRest DEF VenturesInv, CompleteTask
<1>2. /\ s \in DOMAIN schemes /\ ~schemes[s].open
      /\ schemes' = [schemes EXCEPT ![s].done = @ \cup {item}]
      /\ held' = held /\ parted' = parted /\ reports' = reports /\ spentOn' = spentOn
  BY DEF CompleteTask
<1>3. SchemeIsPaid(s)'
  <2>1. SchemeIsPaid(s)
    BY <1>2 DEF VenturesInv, SchemesArePaid
  <2>2. /\ DOMAIN schemes'[s] = DOMAIN schemes[s] /\ schemes'[s].plan = schemes[s].plan
        /\ schemes'[s].study = schemes[s].study /\ schemes'[s].open = schemes[s].open
    BY <1>2, <2>1 DEF SchemeIsPaid
  <2>3. QED BY <1>2, <2>1, <2>2 DEF SchemeIsPaid
<1>4. ASSUME NEW x \in DOMAIN schemes, x # s PROVE SchemeIsPaid(x)'
  <2>1. schemes'[x] = schemes[x] /\ SchemeIsPaid(x)
    BY <1>2, <1>4 DEF VenturesInv, SchemesArePaid
  <2>2. QED BY <1>2, <2>1 DEF SchemeIsPaid
<1>5. DOMAIN schemes' = DOMAIN schemes
  BY <1>2
<1>6. SchemesArePaid'
  BY <1>2, <1>3, <1>4, <1>5 DEF SchemesArePaid, VenturesInv
<1>7. ASSUME NEW t \in Targets PROVE TargetIsPriced(t)'
  BY <1>2 DEF VenturesInv, TargetsArePriced, TargetIsPriced, Looked, PaidFor
<1>8. QED BY <1>1, <1>6, <1>7 DEF VenturesInv, TargetsArePriced

LEMMA OpenSchemeKeeps ==
  ASSUME VenturesInv, NEW s \in DOMAIN schemes, NEW first \in BOOLEAN, OpenScheme(s, first)
  PROVE  VenturesInv'
<1> DEFINE p == schemes[s].plan
           house == [rooms |-> p.rooms,
                     adr |-> schemes[s].study.base \div (p.rooms * NightsOfYear),
                     occupancy |-> p.occupancy, opened |-> month, first |-> first]
<1>1. /\ ~schemes[s].open /\ schemes[s].done = Tasks
      /\ schemes' = [schemes EXCEPT ![s].open = TRUE]
      /\ Admit(s, house)
      /\ month' = month /\ reports' = reports /\ spentOn' = spentOn /\ parted' = parted
  BY DEF OpenScheme
<1>2. SchemeIsPaid(s) /\ HousesAreKept
  BY DEF VenturesInv, SchemesArePaid
<1>3. OwnedFields(house)
  <2> DEFINE n == p.rooms * NightsOfYear
             b == schemes[s].study.base
  <2>1. b \in Nat /\ p.rooms \in Nat \ {0} /\ p.occupancy \in Nat
    BY <1>2, StudyIsCautious DEF SchemeIsPaid, SchemeFields
  <2>2. n \in Nat \ {0}
    BY <2>1, YearHasNights
  <2> HIDE DEF n, b
  <2>3. b \div n \in Nat
    BY <2>1, <2>2, QuotientsAre
  <2>4. house.adr = b \div n /\ house.rooms = p.rooms /\ house.occupancy = p.occupancy
        /\ house.opened = month
    BY DEF b, n
  <2>5. QED BY <1>2, <2>1, <2>3, <2>4 DEF OwnedFields, HousesAreKept
<1> HIDE DEF house
<1>4. HousesAreKept' /\ DOMAIN held' = DOMAIN held \cup {s}
  BY <1>1, <1>2, <1>3, AdmissionKeeps
<1>5. SchemeIsPaid(s)'
  <2>1. /\ DOMAIN schemes'[s] = DOMAIN schemes[s] /\ schemes'[s].plan = schemes[s].plan
        /\ schemes'[s].study = schemes[s].study /\ schemes'[s].open = TRUE
        /\ schemes'[s].done = schemes[s].done
    BY <1>1, <1>2 DEF SchemeIsPaid
  <2>2. QED BY <1>1, <1>2, <1>4, <2>1 DEF SchemeIsPaid
<1>6. ASSUME NEW x \in DOMAIN schemes, x # s PROVE SchemeIsPaid(x)'
  <2>1. schemes'[x] = schemes[x] /\ SchemeIsPaid(x)
    BY <1>1, <1>6 DEF VenturesInv, SchemesArePaid
  <2>2. QED BY <1>1, <1>4, <1>6, <2>1 DEF SchemeIsPaid
<1>7. DOMAIN schemes' = DOMAIN schemes
  BY <1>1
<1>8. SchemesArePaid'
  BY <1>1, <1>4, <1>5, <1>6, <1>7 DEF SchemesArePaid, VenturesInv
<1>9. ASSUME NEW t \in Targets PROVE TargetIsPriced(t)'
  <2>1. t # s
    BY <1>2, VenturesAssumption DEF SchemeIsPaid
  <2>2. TargetIsPriced(t) /\ (t \in DOMAIN held' <=> t \in DOMAIN held)
    BY <1>4, <2>1 DEF VenturesInv, TargetsArePriced
  <2>3. PaidFor(t)' = PaidFor(t)
    BY <1>1 DEF PaidFor
  <2>4. QED BY <1>1, <2>2, <2>3, TargetRests
<1>10. QED BY <1>4, <1>8, <1>9 DEF VenturesInv, TargetsArePriced

\* The schemes, when what is done concerns a house for sale.
LEMMA SchemesRest ==
  ASSUME VenturesInv, NEW t \in Targets, schemes' = schemes,
         \A x : x # t => (x \in DOMAIN held' <=> x \in DOMAIN held), parted' = parted,
         DOMAIN spentOn' = DOMAIN spentOn \cup {t},
         \A x \in DOMAIN spentOn : x # t => spentOn'[x] = spentOn[x]
  PROVE  SchemesArePaid'
<1>1. t \notin Schemes
  BY VenturesAssumption
<1>2. ASSUME NEW x \in DOMAIN schemes PROVE SchemeIsPaid(x)'
  <2>1. SchemeIsPaid(x)
    BY DEF VenturesInv, SchemesArePaid
  <2>2. x # t /\ x \in DOMAIN spentOn
    BY <1>1, <2>1 DEF SchemeIsPaid
  <2>3. QED BY <2>1, <2>2, SchemeRests
<1>3. QED BY <1>1, <1>2 DEF SchemesArePaid, VenturesInv

LEMMA LiabilityIs ==
  ASSUME NEW t \in Targets, NEW areas, areas \subseteq Areas
  PROVE  Liability(t, areas) \in Int /\ Cardinality(areas) \in Nat
<1>1. IsFiniteSet(areas)
  BY VenturesAssumption, FS_Subset
<1>2. \A a \in areas : Hidden[t][a] \in Int
  BY VenturesAssumption
<1>3. Cardinality(areas) \in Nat
  BY <1>1, FS_CardinalityType
<1>4. SumFunctionOnSet(Hidden[t], areas) \in Int
  BY <1>1, <1>2, SumIsANumber
<1>5. QED BY <1>3, <1>4 DEF Liability

LEMMA InspectKeeps ==
  ASSUME VenturesInv, NEW t \in Targets, NEW areas \in SUBSET Areas, Inspect(t, areas)
  PROVE  VenturesInv'
<1> DEFINE fee == Cardinality(areas) * AreaCost
<1>1. HousesAreKept'
  BY HousesRest DEF VenturesInv, Inspect
<1>2. /\ t \notin DOMAIN held /\ SpendOn(t, fee) /\ reports' = Put(reports, t, areas)
      /\ schemes' = schemes /\ held' = held /\ parted' = parted
  BY DEF Inspect
<1>3. fee \in Nat
  BY LiabilityIs, RatesAre, ProductsAre
<1>4. fee = Cardinality(areas) * AreaCost
  OBVIOUS
<1> HIDE DEF fee
<1>5. /\ DOMAIN spentOn' = DOMAIN spentOn \cup {t}
      /\ PaidFor(t)' = PaidFor(t) + fee
      /\ \A x : x # t => PaidFor(x)' = PaidFor(x)
      /\ \A x \in DOMAIN spentOn : x # t => spentOn'[x] = spentOn[x]
  BY <1>2, SpendingIs
<1>6. SchemesArePaid'
  BY <1>2, <1>5, SchemesRest
<1>7. TargetIsPriced(t)'
  <2>1. Looked(t)' = areas
    BY <1>2 DEF Looked, Put
  <2>2. PaidFor(t) \in Int /\ PaidFor(t) >= 0
    <3>1. TargetIsPriced(t)
      BY DEF VenturesInv, TargetsArePriced
    <3> DEFINE c == Cardinality(Looked(t)) * AreaCost
    <3>2. c \in Nat
      <4>1. Cardinality(Looked(t)) \in Nat
        BY <3>1, LiabilityIs DEF TargetIsPriced
      <4>2. QED BY <4>1, RatesAre, ProductsAre
    <3>3. PaidFor(t) \in Int /\ PaidFor(t) >= c
      BY <3>1 DEF TargetIsPriced
    <3> HIDE DEF c
    <3>4. QED BY <3>2, <3>3
  <2>3. PaidFor(t)' \in Int /\ PaidFor(t)' >= fee
    BY <1>3, <1>5, <2>2
  <2>4. t \notin DOMAIN held'
    BY <1>2
  <2>5. Looked(t)' \subseteq Areas /\ PaidFor(t)' >= Cardinality(Looked(t)') * AreaCost
    BY <1>4, <2>1, <2>3
  <2>6. QED BY <2>3, <2>4, <2>5 DEF TargetIsPriced
<1>8. ASSUME NEW x \in Targets, x # t PROVE TargetIsPriced(x)'
  <2>1. TargetIsPriced(x)
    BY DEF VenturesInv, TargetsArePriced
  <2>2. (x \in DOMAIN reports' <=> x \in DOMAIN reports)
    BY <1>2, <1>8 DEF Put
  <2>3. Looked(x)' = Looked(x)
    BY <1>2, <1>8 DEF Looked, Put
  <2>4. QED BY <1>2, <1>5, <1>8, <2>1, <2>3 DEF TargetIsPriced
<1>9. QED BY <1>1, <1>6, <1>7, <1>8 DEF VenturesInv, TargetsArePriced

\* A house is bought at what it is worth, less what was found in it, or more.
LEMMA FloorHolds ==
  ASSUME NEW t \in Targets, Looked(t) \subseteq Areas
  PROVE  /\ Floor(t) \in Int /\ EquityValue(t) \in Int
         /\ Floor(t) + Liability(t, Looked(t)) >= EquityValue(t)
<1>1. EquityValue(t) \in Int
  <2> DEFINE v == Scaled(OnSale[t].annualGop, Multiple)
  <2>1. OnSale[t].annualGop \in Int /\ OnSale[t].need \in Int /\ OnSale[t].debt \in Int
    BY VenturesAssumption
  <2>2. OnSale[t].annualGop * Multiple \in Int
    BY <2>1, RatesAre
  <2>3. v \in Int
    BY <2>2, RatesAre, QuotientsAre DEF Scaled
  <2> HIDE DEF v
  <2>4. EquityValue(t) = v - OnSale[t].need - OnSale[t].debt
    BY DEF EquityValue, v
  <2>5. QED BY <2>1, <2>3, <2>4
<1> DEFINE found == Liability(t, Looked(t))
           less == EquityValue(t) - found
<1>2. found \in Int
  BY LiabilityIs
<1>3. Floor(t) = Max({0, less})
  <2>1. CASE t \in DOMAIN reports
    BY <2>1 DEF Floor, Looked
  <2>2. CASE t \notin DOMAIN reports
    <3>1. Liability(t, {}) = 0
      BY SumOfNothing DEF Liability
    <3>2. QED BY <2>2, <3>1 DEF Floor, Looked
  <2>3. QED BY <2>1, <2>2
<1> HIDE DEF found
<1>4. less \in Int /\ less + found = EquityValue(t)
  BY <1>1, <1>2
<1> HIDE DEF less
<1>5. Floor(t) \in Int /\ Floor(t) >= less
  BY <1>3, <1>4, GreaterIs
<1>6. Floor(t) + found >= EquityValue(t)
  BY <1>1, <1>2, <1>4, <1>5
<1>7. QED BY <1>1, <1>5, <1>6 DEF found

LEMMA BuyKeeps ==
  ASSUME VenturesInv, NEW t \in Targets, NEW cost \in Int, Buy(t, cost)
  PROVE  VenturesInv'
<1> DEFINE house ==
      [rooms |-> OnSale[t].rooms,
       adr |-> Max({1, OnSale[t].annualGop \div (OnSale[t].rooms * SoldDivisor)}),
       occupancy |-> SoldOccupancy, opened |-> month - RampMonths - 1, first |-> FALSE]
<1>1. /\ t \notin DOMAIN held /\ cost >= Floor(t) /\ SpendOn(t, cost) /\ Admit(t, house)
      /\ month' = month /\ schemes' = schemes /\ reports' = reports /\ parted' = parted
  BY DEF Buy
<1>2. HousesAreKept /\ TargetIsPriced(t)
  BY DEF VenturesInv, TargetsArePriced
<1>3. OwnedFields(house)
  <2> DEFINE n == OnSale[t].rooms * SoldDivisor
             g == OnSale[t].annualGop \div n
  <2>1. OnSale[t].rooms \in Nat \ {0} /\ OnSale[t].annualGop \in Int
    BY VenturesAssumption
  <2>2. n \in Nat \ {0}
    BY <2>1, RatesAre
  <2> HIDE DEF n
  <2>3. g \in Int
    BY <2>1, <2>2, QuotientsAre
  <2>4. house.adr = Max({1, g}) /\ house.rooms = OnSale[t].rooms
        /\ house.occupancy = SoldOccupancy /\ house.opened = month - RampMonths - 1
    BY DEF n
  <2> HIDE DEF g
  <2>5. Max({1, g}) \in Nat
    BY <2>3, GreaterIs
  <2>6. month - RampMonths - 1 \in Int
    BY <1>2, RatesAre DEF HousesAreKept
  <2> HIDE DEF house
  <2>7. QED BY <2>1, <2>4, <2>5, <2>6, RatesAre DEF OwnedFields
<1> HIDE DEF house
<1>4. HousesAreKept' /\ DOMAIN held' = DOMAIN held \cup {t}
  BY <1>1, <1>2, <1>3, AdmissionKeeps
<1>5. /\ DOMAIN spentOn' = DOMAIN spentOn \cup {t}
      /\ PaidFor(t)' = PaidFor(t) + cost
      /\ \A x : x # t => PaidFor(x)' = PaidFor(x)
      /\ \A x \in DOMAIN spentOn : x # t => spentOn'[x] = spentOn[x]
  BY <1>1, SpendingIs
<1>6. SchemesArePaid'
  BY <1>1, <1>4, <1>5, SchemesRest
<1>7. TargetIsPriced(t)'
  <2> DEFINE looked == Looked(t)
             fee == Cardinality(looked) * AreaCost
             found == Liability(t, looked)
  <2>1. looked \subseteq Areas /\ PaidFor(t) \in Int /\ PaidFor(t) >= fee
    BY <1>2 DEF TargetIsPriced
  <2>2. found \in Int /\ Cardinality(looked) \in Nat
    BY <2>1, LiabilityIs
  <2>3. fee \in Int /\ fee >= 0
    BY <2>2, RatesAre, ProductsAre
  <2>4. Floor(t) \in Int /\ EquityValue(t) \in Int /\ Floor(t) + found >= EquityValue(t)
    BY <2>1, FloorHolds
  <2>5. Looked(t)' = looked
    BY <1>1 DEF Looked
  <2>6. fee = Cardinality(looked) * AreaCost /\ found = Liability(t, looked)
    OBVIOUS
  <2>7. cost >= 0
    <3>1. Floor(t) >= 0
      <4> DEFINE less == EquityValue(t) - (IF t \in DOMAIN reports THEN Liability(t, reports[t]) ELSE 0)
      <4>1. Floor(t) = Max({0, less})
        BY DEF Floor
      <4>2. less \in Int
        <5>1. CASE t \in DOMAIN reports
          <6>1. found = Liability(t, reports[t])
            BY <5>1 DEF Looked
          <6>2. less = EquityValue(t) - found
            BY <5>1, <6>1
          <6> HIDE DEF less, found
          <6>3. QED BY <2>2, <2>4, <6>2
        <5>2. CASE t \notin DOMAIN reports
          <6>1. less = EquityValue(t) - 0
            BY <5>2
          <6> HIDE DEF less
          <6>2. QED BY <2>4, <6>1
        <5>3. QED BY <5>1, <5>2
      <4> HIDE DEF less
      <4>3. QED BY <4>1, <4>2, GreaterIs
    <3>2. QED BY <1>1, <2>4, <3>1
  <2> HIDE DEF looked, fee, found
  <2>8. /\ PaidFor(t)' \in Int /\ PaidFor(t)' >= fee
        /\ PaidFor(t)' + found >= EquityValue(t) + fee
    BY <1>1, <1>5, <2>1, <2>2, <2>3, <2>4, <2>7
  <2>9. t \in DOMAIN spentOn'
    BY <1>5
  <2>10. QED BY <2>1, <2>5, <2>6, <2>8, <2>9 DEF TargetIsPriced
<1>8. ASSUME NEW x \in Targets, x # t PROVE TargetIsPriced(x)'
  <2>1. TargetIsPriced(x)
    BY DEF VenturesInv, TargetsArePriced
  <2>2. (x \in DOMAIN held' <=> x \in DOMAIN held) /\ (x \in DOMAIN spentOn' <=> x \in DOMAIN spentOn)
    BY <1>4, <1>5, <1>8
  <2>3. PaidFor(x)' = PaidFor(x) /\ reports'[x] = reports[x]
        /\ (x \in DOMAIN reports' <=> x \in DOMAIN reports)
    BY <1>1, <1>5, <1>8
  <2>4. QED BY <2>1, <2>2, <2>3, TargetRests
<1>9. QED BY <1>4, <1>6, <1>7, <1>8 DEF VenturesInv, TargetsArePriced

LEMMA SignKeeps ==
  ASSUME VenturesInv, NEW h \in DOMAIN held, NEW c \in Contracts, Sign(h, c)
  PROVE  VenturesInv'
<1>1. /\ DOMAIN contract' = DOMAIN contract
      /\ UNCHANGED <<month, schemes, reports, held, accounts, parted, allotted, history, spentOn>>
  BY DEF Sign
<1>2. HousesAreKept'
  BY <1>1 DEF VenturesInv, HousesAreKept, HouseIsKept
<1>3. SchemesArePaid' /\ TargetsArePriced'
  BY <1>1 DEF VenturesInv, SchemesArePaid, SchemeIsPaid, TargetsArePriced, TargetIsPriced,
              Looked, PaidFor
<1>4. QED BY <1>2, <1>3 DEF VenturesInv

LEMMA LeaseBackKeeps ==
  ASSUME VenturesInv, NEW h \in DOMAIN held, LeaseBack(h)
  PROVE  VenturesInv'
<1>1. /\ DOMAIN contract' = DOMAIN contract
      /\ UNCHANGED <<month, schemes, reports, held, accounts, parted, allotted, history, spentOn>>
  BY DEF LeaseBack
<1>2. HousesAreKept'
  BY <1>1 DEF VenturesInv, HousesAreKept, HouseIsKept
<1>3. SchemesArePaid' /\ TargetsArePriced'
  BY <1>1 DEF VenturesInv, SchemesArePaid, SchemeIsPaid, TargetsArePriced, TargetIsPriced,
              Looked, PaidFor
<1>4. QED BY <1>2, <1>3 DEF VenturesInv

\* Neither side gives more than it has, so that an account is not overdrawn.
LEMMA MoveFundingKeeps ==
  ASSUME VenturesInv, NEW h \in DOMAIN held, NEW n \in Transfers,
         NEW direction \in {"fund", "sweep"}, MoveFunding(h, n, direction)
  PROVE  VenturesInv'
<1> DEFINE up == IF direction = "fund" THEN n ELSE -n
<1>1. /\ accounts' = [accounts EXCEPT ![h] = @ + up]
      /\ allotted' = [allotted EXCEPT ![h] = @ + up]
      /\ direction # "fund" => n <= accounts[h]
      /\ UNCHANGED <<month, schemes, reports, held, contract, parted, history, spentOn>>
  BY DEF MoveFunding
<1>2. HousesAreKept /\ n \in Nat
  BY VenturesAssumption DEF VenturesInv
<1>3. up \in Int /\ (up >= 0 \/ (up = -n /\ n <= accounts[h]))
  BY <1>1, <1>2
<1> HIDE DEF up
<1>4. HouseIsKept(h)'
  <2>1. HouseIsKept(h) /\ accounts'[h] = accounts[h] + up /\ allotted'[h] = allotted[h] + up
    BY <1>1, <1>2 DEF HousesAreKept
  <2> DEFINE e == EarnedOver(history[h])
  <2>2. e \in Int /\ allotted[h] \in Int /\ accounts[h] = e + allotted[h] /\ accounts[h] >= 0
    BY <2>1 DEF HouseIsKept
  <2>3. EarnedOver(history[h])' = e
    BY <1>1
  <2> HIDE DEF e
  <2>4. /\ allotted'[h] \in Int /\ accounts'[h] = e + allotted'[h] /\ accounts'[h] >= 0
    BY <1>2, <1>3, <2>1, <2>2
  <2>5. QED BY <1>1, <2>1, <2>2, <2>3, <2>4 DEF HouseIsKept
<1>5. ASSUME NEW x \in DOMAIN held, x # h PROVE HouseIsKept(x)'
  <2>1. HouseIsKept(x) /\ accounts'[x] = accounts[x] /\ allotted'[x] = allotted[x]
    BY <1>1, <1>2, <1>5 DEF HousesAreKept
  <2>2. QED BY <1>1, <2>1 DEF HouseIsKept
<1>6. HousesAreKept'
  BY <1>1, <1>2, <1>4, <1>5 DEF HousesAreKept
<1>7. SchemesArePaid' /\ TargetsArePriced'
  BY <1>1 DEF VenturesInv, SchemesArePaid, SchemeIsPaid, TargetsArePriced, TargetIsPriced,
              Looked, PaidFor
<1>8. QED BY <1>6, <1>7 DEF VenturesInv

\* Houses that are given up leave what the others are as it was; a scheme that is dropped
\* takes its house with it.
LEMMA RetireKeeps ==
  ASSUME VenturesInv, NEW leaving, leaving \subseteq DOMAIN held,
         NEW dropped, dropped \subseteq DOMAIN schemes,
         \A s \in dropped : s \in DOMAIN held => s \in leaving,
         Retire(leaving, dropped), UNCHANGED <<month, reports>>
  PROVE  VenturesInv'
<1>1. /\ DOMAIN held' = DOMAIN held \ leaving /\ DOMAIN contract' = DOMAIN held'
      /\ DOMAIN accounts' = DOMAIN held' /\ DOMAIN allotted' = DOMAIN held'
      /\ DOMAIN history' = DOMAIN held' /\ parted' = (parted \cup leaving) \ dropped
      /\ DOMAIN schemes' = DOMAIN schemes \ dropped
      /\ DOMAIN spentOn' = DOMAIN spentOn \ dropped
  BY DEF Retire, Restrict
<1>2. /\ \A h \in DOMAIN held' : /\ held'[h] = held[h] /\ accounts'[h] = accounts[h]
                                 /\ allotted'[h] = allotted[h] /\ history'[h] = history[h]
      /\ \A s \in DOMAIN schemes' : schemes'[s] = schemes[s]
      /\ \A s \in DOMAIN spentOn' : spentOn'[s] = spentOn[s]
  BY DEF Retire, Restrict
<1>3. month' = month /\ reports' = reports
  OBVIOUS
<1>4. HousesAreKept'
  <2>1. ASSUME NEW h \in DOMAIN held' PROVE HouseIsKept(h)'
    <3>1. HouseIsKept(h)
      BY <1>1 DEF VenturesInv, HousesAreKept
    <3>2. QED BY <1>2, <1>3, <3>1 DEF HouseIsKept
  <2>2. month' \in Int
    BY <1>3 DEF VenturesInv, HousesAreKept
  <2>3. QED BY <1>1, <2>1, <2>2 DEF HousesAreKept
<1>5. ASSUME NEW s \in DOMAIN schemes' PROVE SchemeIsPaid(s)'
  <2>1. SchemeIsPaid(s) /\ s \notin dropped
    BY <1>1 DEF VenturesInv, SchemesArePaid
  <2>2. s \in DOMAIN held' \cup parted' <=> s \in DOMAIN held \cup parted
    BY <1>1, <2>1
  <2>3. s \in DOMAIN spentOn'
    BY <1>1, <2>1 DEF SchemeIsPaid
  <2>4. QED BY <1>2, <2>1, <2>2, <2>3, SchemeRests
<1>6. ASSUME NEW s \in Schemes, s \in DOMAIN spentOn' \cup DOMAIN held' \cup parted'
      PROVE  s \in DOMAIN schemes'
  <2>1. s \in DOMAIN spentOn \cup DOMAIN held \cup parted /\ s \notin dropped
    BY <1>1, <1>6
  <2>2. QED BY <1>1, <2>1 DEF VenturesInv, SchemesArePaid
<1>7. SchemesArePaid'
  BY <1>5, <1>6 DEF SchemesArePaid
<1>8. ASSUME NEW t \in Targets PROVE TargetIsPriced(t)'
  <2>1. t \notin dropped
    BY VenturesAssumption DEF VenturesInv, SchemesArePaid, SchemeIsPaid
  <2>2. t \in DOMAIN spentOn' <=> t \in DOMAIN spentOn
    BY <1>1, <2>1
  <2>3. PaidFor(t)' = PaidFor(t)
    BY <1>2, <2>2 DEF PaidFor
  <2>4. TargetIsPriced(t) /\ (t \in DOMAIN held' => t \in DOMAIN held)
    BY <1>1 DEF VenturesInv, TargetsArePriced
  <2>5. QED BY <1>3, <2>2, <2>3, <2>4, TargetRests
<1>9. QED BY <1>4, <1>7, <1>8 DEF VenturesInv, TargetsArePriced

LEMMA SellHouseKeeps ==
  ASSUME VenturesInv, NEW h \in DOMAIN held, SellHouse(h)
  PROVE  VenturesInv'
<1>1. Retire({h}, {}) /\ UNCHANGED <<month, reports>>
  BY DEF SellHouse
<1>2. {h} \subseteq DOMAIN held /\ {} \subseteq DOMAIN schemes
  OBVIOUS
<1>3. QED BY <1>1, <1>2, RetireKeeps

LEMMA LeaveCityKeeps ==
  ASSUME VenturesInv, NEW city, LeaveCity(city)
  PROVE  VenturesInv'
<1> DEFINE leaving == {h \in DOMAIN held : CityOf[h] = city}
           dropped == {s \in DOMAIN schemes : CityOf[s] = city}
<1>1. Retire(leaving, dropped) /\ UNCHANGED <<month, reports>>
  BY DEF LeaveCity
<1>2. /\ leaving \subseteq DOMAIN held /\ dropped \subseteq DOMAIN schemes
      /\ \A s \in dropped : s \in DOMAIN held => s \in leaving
  OBVIOUS
<1> HIDE DEF leaving, dropped
<1>3. QED BY <1>1, <1>2, RetireKeeps

\* A month adds one to the months of every house, of the age it has now.
LEMMA CloseHousesKeeps ==
  ASSUME VenturesInv, NEW uplift \in [DOMAIN held -> Uplifts], CloseHouses(uplift)
  PROVE  VenturesInv'
<1>1. /\ month' = month + 1
      /\ accounts' = [h \in DOMAIN held |-> accounts[h] + Month(held[h], month, uplift[h]).gop]
      /\ history' = [h \in DOMAIN held |->
                       Append(history[h], Month(held[h], month, uplift[h]))]
      /\ UNCHANGED <<schemes, reports, held, contract, parted, allotted, spentOn>>
  BY DEF CloseHouses
<1>2. HousesAreKept
  BY DEF VenturesInv
<1>3. ASSUME NEW h \in DOMAIN held PROVE HouseIsKept(h)'
  <2> DEFINE m == Month(held[h], month, uplift[h])
             old == history[h]
             n == Len(old)
  <2>1. HouseIsKept(h) /\ month \in Int /\ uplift[h] \in Nat
    BY <1>2, RatesAre DEF HousesAreKept
  <2>2. m \in MonthRecords /\ m.uplift = uplift[h]
    BY <2>1, MonthIs DEF HouseIsKept
  <2>3. m = Month(held[h], month, uplift[h])
    OBVIOUS
  <2>4. history'[h] = Append(old, m) /\ accounts'[h] = accounts[h] + m.gop
    BY <1>1
  <2> HIDE DEF m
  <2>5. old \in Seq(MonthRecords) /\ n \in Nat /\ DOMAIN old = 1 .. n
    BY <2>1, LenProperties DEF HouseIsKept
  <2>6. /\ history'[h] \in Seq(MonthRecords) /\ Len(history'[h]) = n + 1
        /\ DOMAIN history'[h] = 1 .. (n + 1) /\ history'[h][n + 1] = m
        /\ \A i \in 1 .. n : history'[h][i] = old[i]
    BY <2>2, <2>4, <2>5, AppendProperties
  <2>7. ASSUME NEW i \in 1 .. n
        PROVE  history'[h][i] = Month(held[h], (month + 1) - (n + 1) + i - 1, history'[h][i].uplift)
    <3>1. old[i] = Month(held[h], month - n + i - 1, old[i].uplift)
      BY <2>1, <2>5 DEF HouseIsKept
    <3>2. (month + 1) - (n + 1) + i - 1 = month - n + i - 1
      BY <2>1, <2>5
    <3>3. QED BY <2>6, <3>1, <3>2
  <2>8. history'[h][n + 1] =
          Month(held[h], (month + 1) - (n + 1) + (n + 1) - 1, history'[h][n + 1].uplift)
    <3>1. (month + 1) - (n + 1) + (n + 1) - 1 = month
      BY <2>1, <2>5
    <3>2. QED BY <2>2, <2>3, <2>6, <3>1
  <2>9. /\ EarnedOver(history'[h]) \in Int /\ allotted'[h] \in Int
        /\ accounts'[h] = EarnedOver(history'[h]) + allotted'[h] /\ accounts'[h] >= 0
    <3>1. EarnedOver(history'[h]) = EarnedOver(old) + m.gop
      BY <2>2, <2>4, <2>5, EarnedOnce
    <3>2. /\ EarnedOver(old) \in Int /\ allotted[h] \in Int /\ allotted'[h] = allotted[h]
          /\ accounts[h] = EarnedOver(old) + allotted[h] /\ accounts[h] >= 0
      BY <1>1, <2>1 DEF HouseIsKept
    <3>3. m.gop \in Nat
      BY <2>2 DEF MonthRecords
    <3>4. QED BY <2>4, <3>1, <3>2, <3>3
  <2> HIDE DEF old, n
  <2>10. \A i \in 1 .. (n + 1) :
           history'[h][i] = Month(held[h], (month + 1) - (n + 1) + i - 1, history'[h][i].uplift)
    <3>1. \A i \in 1 .. (n + 1) : i \in 1 .. n \/ i = n + 1
      BY <2>5
    <3>2. QED BY <2>7, <2>8, <3>1
  <2>11. held'[h] = held[h] /\ month' = month + 1
    BY <1>1
  <2>12. QED BY <2>1, <2>6, <2>9, <2>10, <2>11 DEF HouseIsKept
<1>4. HousesAreKept'
  <2>1. /\ DOMAIN held' = DOMAIN held /\ DOMAIN accounts' = DOMAIN held
        /\ DOMAIN history' = DOMAIN held /\ DOMAIN contract' = DOMAIN held /\ month' \in Int
        /\ DOMAIN allotted' = DOMAIN held
    BY <1>1, <1>2 DEF HousesAreKept
  <2>2. QED BY <1>3, <2>1 DEF HousesAreKept
<1>5. SchemesArePaid' /\ TargetsArePriced'
  BY <1>1 DEF VenturesInv, SchemesArePaid, SchemeIsPaid, TargetsArePriced, TargetIsPriced,
              Looked, PaidFor
<1>6. QED BY <1>4, <1>5 DEF VenturesInv

LEMMA VenturesKeep == VenturesInv /\ [VenturesNext]_ventureVars => VenturesInv'
<1> SUFFICES ASSUME VenturesInv, [VenturesNext]_ventureVars PROVE VenturesInv'
  OBVIOUS
<1>1. ASSUME NEW t \in Targets, NEW cost \in {Floor(t), Floor(t) + 1}, Buy(t, cost)
      PROVE  VenturesInv'
  <2>1. Looked(t) \subseteq Areas
    BY DEF VenturesInv, TargetsArePriced, TargetIsPriced
  <2>2. cost \in Int
    BY <2>1, FloorHolds
  <2>3. QED BY <1>1, <2>2, BuyKeeps
<1>2. ASSUME NEW s \in Schemes, NEW p \in Plans, StartScheme(s, p) PROVE VenturesInv'
  BY <1>2, StartSchemeKeeps
<1>3. ASSUME NEW s \in Schemes, NEW item \in Tasks, CompleteTask(s, item) PROVE VenturesInv'
  BY <1>3, CompleteTaskKeeps
<1>4. ASSUME NEW s \in DOMAIN schemes, NEW first \in BOOLEAN, OpenScheme(s, first)
      PROVE  VenturesInv'
  BY <1>4, OpenSchemeKeeps
<1>5. ASSUME NEW t \in Targets, NEW areas \in SUBSET Areas, Inspect(t, areas)
      PROVE  VenturesInv'
  BY <1>5, InspectKeeps
<1>6. ASSUME NEW h \in DOMAIN held, NEW c \in Contracts, Sign(h, c) PROVE VenturesInv'
  BY <1>6, SignKeeps
<1>7. ASSUME NEW uplift \in [DOMAIN held -> Uplifts], CloseHouses(uplift) PROVE VenturesInv'
  BY <1>7, CloseHousesKeeps
<1>8. CASE UNCHANGED ventureVars
  BY <1>8 DEF ventureVars, VenturesInv, HousesAreKept, HouseIsKept, SchemesArePaid,
              SchemeIsPaid, TargetsArePriced, TargetIsPriced, Looked, PaidFor
<1>9. ASSUME NEW h \in DOMAIN held, SellHouse(h) \/ LeaseBack(h) PROVE VenturesInv'
  BY <1>9, SellHouseKeeps, LeaseBackKeeps
<1>10. ASSUME NEW h \in DOMAIN held, NEW n \in Transfers, NEW direction \in {"fund", "sweep"},
              MoveFunding(h, n, direction)
       PROVE  VenturesInv'
  BY <1>10, MoveFundingKeeps
<1>11. ASSUME NEW city, LeaveCity(city) PROVE VenturesInv'
  BY <1>11, LeaveCityKeeps
<1>12. QED BY <1>1, <1>2, <1>3, <1>4, <1>5, <1>6, <1>7, <1>8, <1>9, <1>10, <1>11 DEF VenturesNext

\* A house gives no less the longer it is open, of as many nights.
LEMMA HousesDoRipen == HousesAreKept => HousesRipen
<1> SUFFICES ASSUME HousesAreKept, NEW h \in DOMAIN history,
                    NEW i \in DOMAIN history[h], NEW j \in DOMAIN history[h],
                    i < j, history[h][i].available <= history[h][j].available,
                    history[h][i].uplift <= history[h][j].uplift
             PROVE  history[h][i].sold <= history[h][j].sold
  BY DEF HousesRipen
<1> DEFINE n == Len(history[h])
           m == month - n + i - 1
           l == month - n + j - 1
           u == history[h][i].uplift
           v == history[h][j].uplift
<1>1. HouseIsKept(h) /\ month \in Int
  BY DEF HousesAreKept
<1>2. n \in Nat /\ DOMAIN history[h] = 1 .. n /\ history[h] \in Seq(MonthRecords)
  BY <1>1, LenProperties DEF HouseIsKept
<1>3. history[h][i] \in MonthRecords /\ history[h][j] \in MonthRecords
  BY <1>2, ElementOfSeq
<1>4. u \in Nat /\ v \in Nat /\ u <= v
  BY <1>3 DEF MonthRecords
<1>5. m \in Int /\ l \in Int /\ m <= l
  BY <1>1, <1>2
<1>6. history[h][i] = Month(held[h], m, u) /\ history[h][j] = Month(held[h], l, v)
  BY <1>1 DEF HouseIsKept
<1> HIDE DEF m, l, u, v
<1>7. Month(held[h], m, u).available <= Month(held[h], l, v).available
  BY <1>6
<1>8. Month(held[h], m, u).sold <= Month(held[h], l, v).sold
  BY <1>1, <1>4, <1>5, <1>7, MonthsRipen DEF HouseIsKept
<1>9. QED BY <1>6, <1>8

\* Building, buying, running and giving up the group's houses (managedHotels.ts,
\* managedHotelMonth, runDueDiligence, acquisitionFloorMinor, openDevelopment,
\* internalFunding.ts, retireHotelFromCompany): a house sells no less as it ages in months of
\* as many nights, a scheme is paid for once at what its study cleared, a price and what was
\* found cover what a house is worth, and an account holds what its house has made and what
\* was moved into it, and is never overdrawn.
THEOREM VenturesPayTheirWay == VenturesSpec => []VenturesHold
<1>1. VenturesInv => VenturesHold
  <2> SUFFICES ASSUME VenturesInv PROVE VenturesHold
    OBVIOUS
  <2>1. HousesRipen
    BY HousesDoRipen DEF VenturesInv
  <2>2. SchemesArePaidOnce
    <3> SUFFICES ASSUME NEW s \in DOMAIN schemes
                 PROVE  /\ schemes[s].open <=> s \in DOMAIN held \cup parted
                        /\ schemes[s].open => schemes[s].done = Tasks
                        /\ spentOn[s] = schemes[s].plan.investment
                        /\ schemes[s].study.onCostLow <= schemes[s].study.onCost
      BY DEF SchemesArePaidOnce
    <3>1. SchemeIsPaid(s)
      BY DEF VenturesInv, SchemesArePaid
    <3>2. Study(schemes[s].plan).onCostLow <= Study(schemes[s].plan).onCost
      BY <3>1, StudyIsCautious DEF SchemeIsPaid
    <3>3. QED BY <3>1, <3>2 DEF SchemeIsPaid
  <2>3. PricesAreFloored
    BY DEF VenturesInv, TargetsArePriced, TargetIsPriced, Looked, PaidFor, PricesAreFloored
  <2>4. AccountsAreEarned
    BY DEF VenturesInv, HousesAreKept, HouseIsKept, EarnedOver, AccountsAreEarned
  <2>5. QED BY <2>1, <2>2, <2>3, <2>4 DEF VenturesHold
<1>2. QED BY <1>1, VenturesBegin, VenturesKeep, PTL DEF VenturesSpec

-----------------------------------------------------------------------------
(* What may be decided without asking.                                     *)

\* A question in the register: a department asks about a matter, a house about a sum.
Questions ==
  {e \in [who : Desks \cup Inns, about : Matters \cup Spends, month : Nat, figure : Nat,
          limit : Nat, status : {"open", "approved", "rejected"}] :
     /\ e.who \in Desks => e.about \in Matters
     /\ e.who \in Inns => e.about \in Spends}

LEMMA AskersAre ==
  /\ Desks \cap Inns = {} /\ Spends \cap Matters = {} /\ IsFiniteSet(Inns)
  /\ \A x \in Desks \cup Inns \cup Matters : IdRank[x] \in Nat
  /\ \A a, b \in Desks : IdRank[a] = IdRank[b] => a = b
  /\ \A a, b \in Inns : IdRank[a] = IdRank[b] => a = b
  /\ \A a, b \in Matters : IdRank[a] = IdRank[b] => a = b
<1>1. ElementsOf(MatterOrder)
        = {"overtime-cap", "staffing-reserve", "staffing-budget", "service-level"}
  BY DEF ElementsOf, MatterOrder
<1>2. Spends \cap Matters = {}
  BY <1>1, DelegationAssumption DEF Spends, Matters
<1>3. QED BY <1>2, DelegationAssumption

\* The order of ids is an order, and names a question.
Keys == Int \X Int \X Int \X Int

LEMMA KeysAreOrdered ==
  /\ \A k \in Keys : ~Precedes(k, k)
  /\ \A k, l \in Keys : k = l \/ Precedes(k, l) \/ Precedes(l, k)
  /\ \A k, l, m \in Keys : Precedes(k, l) /\ Precedes(l, m) => Precedes(k, m)
<1>1. \A k \in Keys : k[1] \in Int /\ k[2] \in Int /\ k[3] \in Int /\ k[4] \in Int
  BY DEF Keys
<1>2. \A k \in Keys : ~Precedes(k, k)
  BY <1>1 DEF Precedes
<1>3. ASSUME NEW k \in Keys, NEW l \in Keys, k # l PROVE Precedes(k, l) \/ Precedes(l, k)
  <2>1. k[1] # l[1] \/ k[2] # l[2] \/ k[3] # l[3] \/ k[4] # l[4]
    BY <1>3 DEF Keys
  <2>2. QED BY <1>1, <2>1 DEF Precedes
<1>4. ASSUME NEW k \in Keys, NEW l \in Keys, NEW m \in Keys, Precedes(k, l), Precedes(l, m)
      PROVE  Precedes(k, m)
  <2>1. /\ k[1] \in Int /\ k[2] \in Int /\ k[3] \in Int /\ k[4] \in Int
        /\ l[1] \in Int /\ l[2] \in Int /\ l[3] \in Int /\ l[4] \in Int
        /\ m[1] \in Int /\ m[2] \in Int /\ m[3] \in Int /\ m[4] \in Int
    BY <1>1
  <2>2. QED BY <1>4, <2>1 DEF Precedes
<1>5. QED BY <1>2, <1>3, <1>4

LEMMA IdsAreKeys == \A e \in Questions : IdOf(e) \in Keys
<1> SUFFICES ASSUME NEW e \in Questions PROVE IdOf(e) \in Keys
  OBVIOUS
<1>1. e.who \in Desks \cup Inns /\ e.month \in Nat
  BY DEF Questions
<1>2. IdRank[e.who] \in Int /\ (e.about \in Matters => IdRank[e.about] \in Int)
  BY <1>1, AskersAre
<1>3. QED BY <1>1, <1>2 DEF IdOf, Keys

LEMMA QuestionsAreOrdered ==
  /\ \A a \in Questions : ~Before(a, a)
  /\ \A a, b \in Questions : IdOf(a) = IdOf(b) \/ Before(a, b) \/ Before(b, a)
  /\ \A a, b, c \in Questions : Before(a, b) /\ Before(b, c) => Before(a, c)
<1>1. \A e \in Questions : IdOf(e) \in Keys
  BY IdsAreKeys
<1>2. \A a \in Questions : ~Before(a, a)
  BY <1>1, KeysAreOrdered DEF Before
<1>3. \A a, b \in Questions : IdOf(a) = IdOf(b) \/ Before(a, b) \/ Before(b, a)
  BY <1>1, KeysAreOrdered DEF Before
<1>4. \A a, b, c \in Questions : Before(a, b) /\ Before(b, c) => Before(a, c)
  BY <1>1, KeysAreOrdered DEF Before
<1>5. QED BY <1>2, <1>3, <1>4

SameQuestion(x, y) ==
  x.who = y.who /\ x.month = y.month /\ (x.who \in Desks => x.about = y.about)

LEMMA IdsNameQuestions ==
  \A x, y \in Questions : IdOf(x) = IdOf(y) <=> SameQuestion(x, y)
<1> SUFFICES ASSUME NEW x \in Questions, NEW y \in Questions
             PROVE  IdOf(x) = IdOf(y) <=> SameQuestion(x, y)
  OBVIOUS
<1>1. /\ x.who \in Desks \/ (x.who \in Inns /\ x.who \notin Desks)
      /\ y.who \in Desks \/ (y.who \in Inns /\ y.who \notin Desks)
  <2>1. x.who \in Desks \cup Inns /\ y.who \in Desks \cup Inns
    BY DEF Questions
  <2>2. QED BY <2>1
<1>2. /\ x.who \in Desks => x.about \in Matters
      /\ y.who \in Desks => y.about \in Matters
      /\ x.who \notin Desks => x.about \notin Matters
      /\ y.who \notin Desks => y.about \notin Matters
  BY <1>1, AskersAre DEF Questions
<1>3. /\ IdOf(x)[1] = IF x.who \in Desks THEN 0 ELSE 1
      /\ IdOf(x)[2] = IdRank[x.who] /\ IdOf(x)[4] = x.month
      /\ IdOf(x)[3] = IF x.about \in Matters THEN IdRank[x.about] ELSE 0
      /\ IdOf(y)[1] = IF y.who \in Desks THEN 0 ELSE 1
      /\ IdOf(y)[2] = IdRank[y.who] /\ IdOf(y)[4] = y.month
      /\ IdOf(y)[3] = IF y.about \in Matters THEN IdRank[y.about] ELSE 0
  BY DEF IdOf
<1>4. ASSUME IdOf(x) = IdOf(y) PROVE SameQuestion(x, y)
  <2>1. x.who \in Desks <=> y.who \in Desks
    BY <1>3, <1>4
  <2>2. x.who = y.who
    BY <1>1, <1>3, <1>4, <2>1, AskersAre
  <2>3. x.who \in Desks => x.about = y.about
    BY <1>2, <1>3, <1>4, <2>1, AskersAre
  <2>4. x.month = y.month
    BY <1>3, <1>4
  <2>5. QED BY <2>2, <2>3, <2>4 DEF SameQuestion
<1>5. ASSUME SameQuestion(x, y) PROVE IdOf(x) = IdOf(y)
  <2>1. x.who = y.who /\ x.month = y.month /\ (x.who \in Desks => x.about = y.about)
    BY <1>5 DEF SameQuestion
  <2>2. CASE x.who \in Desks
    BY <2>1, <2>2 DEF IdOf
  <2>3. CASE x.who \notin Desks
    BY <1>2, <2>1, <2>3 DEF IdOf
  <2>4. QED BY <2>2, <2>3
<1>6. QED BY <1>4, <1>5

\* No two questions have one id.
Apart(S) == \A a, b \in S : IdOf(a) = IdOf(b) => a = b

RankIn(S, e) == Cardinality({d \in S : Before(d, e)})

LEMMA RanksRise ==
  ASSUME NEW S \in SUBSET Questions, IsFiniteSet(S)
  PROVE  /\ \A e \in S : RankIn(S, e) \in 0 .. Cardinality(S) - 1
         /\ \A a, b \in S : Before(a, b) => RankIn(S, a) < RankIn(S, b)
<1>1. \A e : RankIn(S, e) \in Nat /\ IsFiniteSet({d \in S : Before(d, e)})
  <2> SUFFICES ASSUME NEW e
               PROVE  RankIn(S, e) \in Nat /\ IsFiniteSet({d \in S : Before(d, e)})
    OBVIOUS
  <2> DEFINE T == {d \in S : Before(d, e)}
  <2>1. T \in SUBSET S
    OBVIOUS
  <2> HIDE DEF T
  <2>2. IsFiniteSet(T)
    BY <2>1, FS_Subset
  <2>3. Cardinality(T) \in Nat
    BY <2>2, FS_CardinalityType
  <2>4. QED BY <2>2, <2>3 DEF RankIn, T
<1>2. ASSUME NEW e \in S PROVE RankIn(S, e) \in 0 .. Cardinality(S) - 1
  <2> DEFINE T == {d \in S : Before(d, e)}
             R == S \ {e}
  <2>1. T \in SUBSET R
    BY QuestionsAreOrdered
  <2>2. IsFiniteSet(R) /\ Cardinality(R) = Cardinality(S) - 1
    BY FS_RemoveElement
  <2>3. RankIn(S, e) = Cardinality(T)
    BY DEF RankIn
  <2> HIDE DEF T, R
  <2>4. Cardinality(T) <= Cardinality(R)
    BY <2>1, <2>2, FS_Subset
  <2>5. Cardinality(S) \in Nat /\ RankIn(S, e) \in Nat
    BY <1>1, FS_CardinalityType
  <2>6. RankIn(S, e) <= Cardinality(S) - 1
    BY <2>2, <2>3, <2>4
  <2>7. QED BY <2>5, <2>6
<1>3. ASSUME NEW a \in S, NEW b \in S, Before(a, b) PROVE RankIn(S, a) < RankIn(S, b)
  <2> DEFINE T == {d \in S : Before(d, a)}
             U == {d \in S : Before(d, b)}
  <2>1. T \cup {a} \in SUBSET U /\ a \notin T
    BY <1>3, QuestionsAreOrdered
  <2>2. /\ IsFiniteSet(T) /\ IsFiniteSet(U)
        /\ RankIn(S, a) = Cardinality(T) /\ RankIn(S, b) = Cardinality(U)
        /\ Cardinality(T) \in Nat /\ Cardinality(U) \in Nat
    BY <1>1 DEF RankIn
  <2> HIDE DEF T, U
  <2>3. Cardinality(T \cup {a}) = Cardinality(T) + 1
    BY <2>1, <2>2, FS_AddElement
  <2>4. Cardinality(T \cup {a}) <= Cardinality(U)
    BY <2>1, <2>2, FS_Subset
  <2>5. QED BY <2>2, <2>3, <2>4
<1>4. QED BY <1>2, <1>3

\* Sorting a set of questions gives each of them once, in the order of ids.
InOrder(reg) == \A i, j \in DOMAIN reg : i < j => Before(reg[i], reg[j])

LEMMA SortingOrders ==
  ASSUME NEW S \in SUBSET Questions, IsFiniteSet(S), Apart(S)
  PROVE  /\ InIdOrder(S) \in Seq(Questions)
         /\ ElementsOf(InIdOrder(S)) = S /\ InOrder(InIdOrder(S))
<1> DEFINE N == Cardinality(S)
           rank == [e \in S |-> RankIn(S, e)]
           t == [i \in 1 .. N |-> CHOOSE e \in S : rank[e] = i - 1]
<1>1. InIdOrder(S) = t
  BY DEF InIdOrder, RankIn
<1>2. N \in Nat
  BY FS_CardinalityType
<1>3. rank \in [S -> 0 .. N - 1]
  BY RanksRise
<1>4. \A a, b \in S : Before(a, b) => rank[a] < rank[b]
  BY RanksRise
<1> HIDE DEF rank
<1>5. \A a, b \in S : rank[a] = rank[b] => a = b
  <2> SUFFICES ASSUME NEW a \in S, NEW b \in S, rank[a] = rank[b], a # b PROVE FALSE
    OBVIOUS
  <2>1. Before(a, b) \/ Before(b, a)
    BY QuestionsAreOrdered DEF Apart
  <2>2. rank[a] \in Int /\ rank[b] \in Int
    BY <1>2, <1>3
  <2>3. QED BY <1>4, <2>1, <2>2
<1>6. \A n \in 0 .. N - 1 : \E e \in S : rank[e] = n
  <2> DEFINE T == 0 .. N - 1
  <2>1. IsFiniteSet(T) /\ Cardinality(T) = N
    <3>1. N - 1 \in Int /\ 0 \in Int
      BY <1>2
    <3>2. IsFiniteSet(T) /\ Cardinality(T) = IF 0 > N - 1 THEN 0 ELSE (N - 1) - 0 + 1
      BY <3>1, FS_Interval
    <3>3. QED BY <1>2, <3>2
  <2> HIDE DEF T, N
  <2>2. rank \in Injection(S, T)
    BY <1>3, <1>5 DEF Injection, IsInjective, T
  <2>3. rank \in Surjection(S, T)
    BY <2>1, <2>2, FS_Injection DEF N
  <2>4. QED BY <2>3 DEF Surjection, T
<1>7. \A i \in 1 .. N : t[i] \in S /\ rank[t[i]] = i - 1
  <2> SUFFICES ASSUME NEW i \in 1 .. N PROVE t[i] \in S /\ rank[t[i]] = i - 1
    OBVIOUS
  <2>1. \E e \in S : rank[e] = i - 1
    <3>1. i - 1 \in 0 .. N - 1
      BY <1>2
    <3>2. QED BY <1>6, <3>1
  <2>2. QED BY <2>1
<1>8. DOMAIN t = 1 .. N
  OBVIOUS
<1>9. t \in [1 .. N -> Questions]
  <2>1. \A i \in 1 .. N : t[i] \in Questions
    BY <1>7
  <2> DEFINE q(i) == CHOOSE e \in S : rank[e] = i - 1
  <2>2. \A i \in 1 .. N : q(i) \in Questions
    BY <2>1
  <2> HIDE DEF q
  <2>3. [i \in 1 .. N |-> q(i)] \in [1 .. N -> Questions]
    BY <2>2
  <2>4. QED BY <2>3 DEF q
<1>10. t \in Seq(Questions)
  <2> HIDE DEF t
  <2>1. QED BY <1>2, <1>9, SeqDef
<1> HIDE DEF t, N
<1>11. ElementsOf(t) = S
  <2>1. ASSUME NEW e \in S PROVE \E i \in DOMAIN t : t[i] = e
    <3>1. rank[e] \in 0 .. N - 1
      BY <1>3
    <3>2. rank[e] + 1 \in 1 .. N /\ (rank[e] + 1) - 1 = rank[e]
      BY <1>2, <3>1
    <3>3. rank[t[rank[e] + 1]] = rank[e] /\ t[rank[e] + 1] \in S
      BY <1>7, <3>2
    <3>4. QED BY <1>5, <1>8, <3>2, <3>3
  <2>2. QED BY <1>7, <1>8, <2>1 DEF ElementsOf
<1>12. InOrder(t)
  <2> SUFFICES ASSUME NEW i \in 1 .. N, NEW j \in 1 .. N, i < j PROVE Before(t[i], t[j])
    BY <1>8 DEF InOrder
  <2>1. t[i] \in S /\ t[j] \in S /\ rank[t[i]] = i - 1 /\ rank[t[j]] = j - 1
    BY <1>7
  <2>2. t[i] # t[j]
    BY <1>2, <2>1
  <2>3. Before(t[i], t[j]) \/ Before(t[j], t[i])
    BY <2>1, <2>2, QuestionsAreOrdered DEF Apart
  <2>4. ~(rank[t[j]] < rank[t[i]])
    BY <1>2, <2>1
  <2>5. QED BY <1>4, <2>1, <2>3, <2>4
<1>13. QED BY <1>1, <1>10, <1>11, <1>12

\* The register is in order, each of its ids once, and what waits for an answer is what is
\* open in it.
Asking(e) == <<e.who, e.about, e.month>>
OpenOf(S) == {e \in S : e.status = "open"}

RegisterIsKept(reg, wait) ==
  /\ reg \in Seq(Questions) /\ InOrder(reg)
  /\ wait = {Asking(e) : e \in OpenOf(ElementsOf(reg))}

LEMMA RegisterIsASet ==
  ASSUME NEW reg \in Seq(Questions), InOrder(reg)
  PROVE  /\ IsFiniteSet(ElementsOf(reg)) /\ ElementsOf(reg) \in SUBSET Questions
         /\ Apart(ElementsOf(reg))
         /\ \A i, j \in DOMAIN reg : IdOf(reg[i]) = IdOf(reg[j]) => i = j
<1> DEFINE N == Len(reg)
           S == ElementsOf(reg)
<1>1. N \in Nat /\ DOMAIN reg = 1 .. N /\ reg \in [1 .. N -> Questions]
  BY LenProperties
<1>2. S \in SUBSET Questions
  BY <1>1 DEF ElementsOf
<1>3. reg \in Surjection(1 .. N, S)
  BY <1>1 DEF ElementsOf, Surjection
<1>4. IsFiniteSet(1 .. N)
  <2>1. 1 \in Int /\ N \in Int
    BY <1>1
  <2> HIDE DEF N
  <2>2. QED BY <2>1, FS_Interval
<1>5. IsFiniteSet(S)
  <2> HIDE DEF N, S
  <2>1. QED BY <1>3, <1>4, FS_Surjection
<1>6. ASSUME NEW i \in DOMAIN reg, NEW j \in DOMAIN reg, IdOf(reg[i]) = IdOf(reg[j])
      PROVE  i = j
  <2>1. \A k \in Questions : ~Before(k, k)
    BY QuestionsAreOrdered
  <2>2. reg[i] \in Questions /\ reg[j] \in Questions /\ i \in Int /\ j \in Int
    BY <1>1
  <2>3. ~Before(reg[i], reg[j]) /\ ~Before(reg[j], reg[i])
    BY <1>6, <2>1, <2>2 DEF Before
  <2>4. QED BY <2>2, <2>3 DEF InOrder
<1>7. Apart(S)
  BY <1>6 DEF Apart, ElementsOf
<1>8. QED BY <1>2, <1>5, <1>6, <1>7

\* Questions added, each with an id of its own, and sorted.
LEMMA AddingKeeps ==
  ASSUME NEW reg, NEW wait, RegisterIsKept(reg, wait),
         NEW more \in SUBSET Questions, IsFiniteSet(more), Apart(more),
         \A x \in ElementsOf(reg), e \in more : IdOf(x) # IdOf(e),
         \A e \in more : e.status = "open"
  PROVE  RegisterIsKept(InIdOrder(ElementsOf(reg) \cup more), wait \cup {Asking(e) : e \in more})
<1> DEFINE S == ElementsOf(reg)
           T == S \cup more
<1>1. IsFiniteSet(S) /\ S \in SUBSET Questions /\ Apart(S)
  BY RegisterIsASet DEF RegisterIsKept
<1>2. IsFiniteSet(T)
  BY <1>1, FS_Union
<1>3. T \in SUBSET Questions /\ Apart(T)
  BY <1>1 DEF Apart
<1>4. OpenOf(T) = OpenOf(S) \cup more
  BY DEF OpenOf
<1> HIDE DEF T
<1>5. /\ InIdOrder(T) \in Seq(Questions) /\ ElementsOf(InIdOrder(T)) = T
      /\ InOrder(InIdOrder(T))
  BY <1>2, <1>3, SortingOrders
<1>6. wait = {Asking(e) : e \in OpenOf(S)}
  BY DEF RegisterIsKept
<1>7. RegisterIsKept(InIdOrder(T), wait \cup {Asking(e) : e \in more})
  BY <1>4, <1>5, <1>6 DEF RegisterIsKept
<1>8. QED BY <1>7 DEF T

\* A question lodged is added, and what is trimmed for it has been answered.
LEMMA LodgingKeeps ==
  ASSUME NEW reg, NEW wait, RegisterIsKept(reg, wait), NEW e \in Questions, e.status = "open",
         \A x \in ElementsOf(reg) : IdOf(x) # IdOf(e)
  PROVE  RegisterIsKept(Lodge(reg, e), wait \cup {Asking(e)})
<1> DEFINE S == ElementsOf(reg)
           T == S \cup {e}
           U == Trim(T)
<1>1. IsFiniteSet(S) /\ S \in SUBSET Questions /\ Apart(S)
  BY RegisterIsASet DEF RegisterIsKept
<1>2. IsFiniteSet(T)
  BY <1>1, FS_AddElement
<1>3. T \in SUBSET Questions /\ Apart(T)
  BY <1>1 DEF Apart
<1>4. OpenOf(T) = OpenOf(S) \cup {e}
  BY DEF OpenOf
<1>5. U \in SUBSET T /\ OpenOf(U) = OpenOf(T)
  BY DEF Trim, OpenOf
<1>6. Lodge(reg, e) = InIdOrder(U)
  BY DEF Lodge
<1> HIDE DEF T, U
<1>7. IsFiniteSet(U)
  BY <1>2, <1>5, FS_Subset
<1>8. U \in SUBSET Questions /\ Apart(U)
  BY <1>3, <1>5 DEF Apart
<1>9. /\ InIdOrder(U) \in Seq(Questions) /\ ElementsOf(InIdOrder(U)) = U
      /\ InOrder(InIdOrder(U))
  BY <1>7, <1>8, SortingOrders
<1>10. wait = {Asking(x) : x \in OpenOf(S)}
  BY DEF RegisterIsKept
<1>11. wait \cup {Asking(e)} = {Asking(x) : x \in OpenOf(U)}
  BY <1>4, <1>5, <1>10
<1>12. QED BY <1>6, <1>9, <1>11 DEF RegisterIsKept

\* The month and the limits.
LimitsAreKept ==
  /\ period \in Nat
  /\ limits \in [Desks -> [Matters -> Nat]]
  /\ DOMAIN mandate = Inns
  /\ \A h \in Inns : DOMAIN mandate[h] = Spends /\ \A s \in Spends : mandate[h][s] \in Nat

\* The months that money was given for have closed, and so have those a house is
\* waiting for an answer on, which are others.
GrantsAreKept ==
  /\ granted \in Seq(Inns \X Nat)
  /\ \A i \in DOMAIN granted : granted[i][2] < period
  /\ \A w \in waiting : w[1] \in Inns =>
       w[3] < period /\ \A i \in DOMAIN granted : granted[i] # <<w[1], w[3]>>
  /\ GrantedOnce

DelegationInv == LimitsAreKept /\ RegisterIsKept(register, waiting) /\ GrantsAreKept

\* One question of the day: if it is not in the register yet, its id is not.
Askings ==
  {r \in [register : Seq(Questions),
          waiting : SUBSET ((Desks \cup Inns) \X (Matters \cup Spends) \X Nat)] :
     /\ RegisterIsKept(r.register, r.waiting)
     /\ \A w \in r.waiting : w[1] \in Inns => w \in waiting}

LEMMA NotAskedIsNew ==
  ASSUME NEW reg \in Seq(Questions), NEW e \in Questions, ~Asked(reg, e.who, e.about, e.month)
  PROVE  \A x \in ElementsOf(reg) : IdOf(x) # IdOf(e)
<1> SUFFICES ASSUME NEW i \in DOMAIN reg, IdOf(reg[i]) = IdOf(e) PROVE FALSE
  BY DEF ElementsOf
<1>1. reg[i] \in Questions
  BY ElementOfSeq, LenProperties
<1>2. SameQuestion(reg[i], e)
  BY <1>1, IdsNameQuestions
<1>3. QED BY <1>2 DEF SameQuestion, Asked

LEMMA QuestionOf ==
  ASSUME NEW who, NEW about, NEW at \in Nat, NEW figure \in Nat, NEW limit \in Nat,
         \/ who \in Desks /\ about \in Matters
         \/ who \in Inns /\ about \in Spends
  PROVE  LET e == Question(who, about, at, figure, limit)
         IN  /\ e \in Questions /\ e.status = "open" /\ Asking(e) = <<who, about, at>>
             /\ e.who = who /\ e.about = about /\ e.month = at
<1> DEFINE e == Question(who, about, at, figure, limit)
<1>1. e = [who |-> who, about |-> about, month |-> at, figure |-> figure, limit |-> limit,
           status |-> "open"]
  BY DEF Question
<1>2. /\ who \in Desks \cup Inns /\ about \in Matters \cup Spends
      /\ who \in Desks => about \in Matters
      /\ who \in Inns => about \in Spends
  BY AskersAre
<1> HIDE DEF e
<1>3. /\ e.status = "open" /\ e.who = who /\ e.about = about /\ e.month = at
      /\ e \in [who : Desks \cup Inns, about : Matters \cup Spends, month : Nat, figure : Nat,
                limit : Nat, status : {"open", "approved", "rejected"}]
  BY <1>1, <1>2
<1>4. e \in Questions /\ Asking(e) = <<who, about, at>>
  BY <1>2, <1>3 DEF Questions, Asking
<1>5. QED BY <1>3, <1>4 DEF e

LEMMA AskingKeeps ==
  ASSUME LimitsAreKept, NEW r \in Askings, NEW d \in Desks, NEW m, NEW doing \in Doings
  PROVE  AskAbout(r, d, m, doing) \in Askings
<1> DEFINE e == Question(d, m, period, doing[d][m], limits[d][m])
           next == [register |-> Lodge(r.register, e),
                    waiting |-> r.waiting \cup {<<d, m, period>>}]
<1>1. CASE m \in Matters /\ ~Asked(r.register, d, m, period)
           /\ Breaches(m, doing[d][m], limits[d][m])
  <2>1. AskAbout(r, d, m, doing) = next
    BY <1>1 DEF AskAbout
  <2>2. doing[d][m] \in Nat /\ limits[d][m] \in Nat /\ period \in Nat
    BY <1>1, DelegationAssumption DEF LimitsAreKept
  <2>3. /\ e \in Questions /\ e.status = "open" /\ Asking(e) = <<d, m, period>>
        /\ e.who = d /\ e.about = m /\ e.month = period
    <3> DEFINE f == doing[d][m]
               l == limits[d][m]
    <3>1. f \in Nat /\ l \in Nat /\ period \in Nat /\ m \in Matters /\ d \in Desks
      BY <1>1, <2>2
    <3>2. e = Question(d, m, period, f, l)
      OBVIOUS
    <3> HIDE DEF e, f, l
    <3>3. /\ Question(d, m, period, f, l) \in Questions
          /\ Question(d, m, period, f, l).status = "open"
          /\ Asking(Question(d, m, period, f, l)) = <<d, m, period>>
          /\ Question(d, m, period, f, l).who = d /\ Question(d, m, period, f, l).about = m
          /\ Question(d, m, period, f, l).month = period
      BY <3>1, QuestionOf
    <3>4. QED BY <3>2, <3>3
  <2> HIDE DEF e
  <2>4. RegisterIsKept(r.register, r.waiting) /\ r.register \in Seq(Questions)
    BY DEF Askings, RegisterIsKept
  <2>5. \A x \in ElementsOf(r.register) : IdOf(x) # IdOf(e)
    BY <1>1, <2>3, <2>4, NotAskedIsNew
  <2>6. RegisterIsKept(Lodge(r.register, e), r.waiting \cup {Asking(e)})
    BY <2>3, <2>4, <2>5, LodgingKeeps
  <2>7. /\ Lodge(r.register, e) \in Seq(Questions)
        /\ r.waiting \cup {<<d, m, period>>}
             \in SUBSET ((Desks \cup Inns) \X (Matters \cup Spends) \X Nat)
    BY <1>1, <2>2, <2>6 DEF RegisterIsKept, Askings
  <2>8. next.register = Lodge(r.register, e) /\ next.waiting = r.waiting \cup {<<d, m, period>>}
    OBVIOUS
  <2>9. /\ RegisterIsKept(next.register, next.waiting)
        /\ \A w \in next.waiting : w[1] \in Inns => w \in waiting
    <3>1. d \notin Inns /\ \A w \in r.waiting : w[1] \in Inns => w \in waiting
      BY AskersAre DEF Askings
    <3>2. QED BY <2>3, <2>6, <2>8, <3>1
  <2>10. next \in Askings
    BY <2>7, <2>9 DEF Askings
  <2>11. QED BY <2>1, <2>10
<1>2. CASE ~(m \in Matters /\ ~Asked(r.register, d, m, period)
             /\ Breaches(m, doing[d][m], limits[d][m]))
  BY <1>2 DEF AskAbout
<1>3. QED BY <1>1, <1>2

LEMMA AfterAskingKeeps ==
  ASSUME DelegationInv, NEW doing \in Doings,
         waiting \in SUBSET ((Desks \cup Inns) \X (Matters \cup Spends) \X Nat)
  PROVE  AfterAsking(doing) \in Askings
<1> DEFINE n == Len(MatterOrder)
           N == Len(DeskOrder) * n
           base == [register |-> register, waiting |-> waiting]
           next(r, k) == AskAbout(r, DeskOrder[((k - 1) \div n) + 1],
                                  MatterOrder[((k - 1) % n) + 1], doing)
           step == [x \in Askings \X (1 .. N) |-> next(x[1], x[2])]
           Solves(f) == f = [k \in 0 .. N |-> IF k = 0 THEN base ELSE next(f[k - 1], k)]
           u == CHOOSE f : Solves(f)
<1>1. AfterAsking(doing) = u[N]
  BY DEF AfterAsking
<1>2. n = 4
  BY DEF MatterOrder
<1>3. Len(DeskOrder) \in Nat /\ DOMAIN DeskOrder = 1 .. Len(DeskOrder) /\ N \in Nat
  <2>1. DeskOrder \in Seq(Desks)
    BY DelegationAssumption
  <2>2. QED BY <1>2, <2>1, LenProperties
<1>4. base \in Askings
  BY DEF DelegationInv, RegisterIsKept, Askings
<1>5. \A r \in Askings, k \in 1 .. N : next(r, k) \in Askings
  <2> SUFFICES ASSUME NEW r \in Askings, NEW k \in 1 .. N PROVE next(r, k) \in Askings
    OBVIOUS
  <2>1. ((k - 1) \div n) + 1 \in DOMAIN DeskOrder
    BY <1>2, <1>3
  <2>2. DeskOrder[((k - 1) \div n) + 1] \in Desks
    BY <2>1 DEF Desks, ElementsOf
  <2> DEFINE d == DeskOrder[((k - 1) \div n) + 1]
             m == MatterOrder[((k - 1) % n) + 1]
  <2>3. d \in Desks
    BY <2>2
  <2> HIDE DEF d, m
  <2>4. AskAbout(r, d, m, doing) \in Askings
    BY <2>3, AskingKeeps DEF DelegationInv
  <2>5. QED BY <2>4 DEF d, m
<1> HIDE DEF next, base, n
<1>6. step \in [Askings \X (1 .. N) -> Askings]
  BY <1>5
<1>7. PICK f \in [0 .. N -> Askings] :
        f[0] = base /\ \A k \in 1 .. N : f[k] = step[<<f[k - 1], k>>]
  <2> HIDE DEF N, step
  <2>1. CoursesOf(N, Askings, base, step) # {}
    BY <1>3, <1>4, <1>6, BoundedRecursion
  <2>2. QED BY <2>1 DEF CoursesOf
<1>8. \A k \in 1 .. N : step[<<f[k - 1], k>>] = next(f[k - 1], k)
  <2> SUFFICES ASSUME NEW k \in 1 .. N PROVE step[<<f[k - 1], k>>] = next(f[k - 1], k)
    OBVIOUS
  <2> HIDE DEF N
  <2>1. k - 1 \in 0 .. N
    BY <1>3
  <2>2. f[k - 1] \in Askings
    BY <2>1
  <2>3. QED BY <2>2
<1>9. Solves(f)
  <2>1. f = [k \in 0 .. N |-> f[k]]
    OBVIOUS
  <2> HIDE DEF N, step
  <2>2. \A k \in 0 .. N : f[k] = IF k = 0 THEN base ELSE next(f[k - 1], k)
    <3>1. \A k \in 0 .. N : k = 0 \/ k \in 1 .. N
      BY <1>3
    <3>2. QED BY <1>7, <1>8, <3>1
  <2>3. QED BY <2>1, <2>2, Zenon
<1>10. Solves(u)
  <2> HIDE DEF Solves
  <2>1. QED BY <1>9
<1> HIDE DEF u
<1> HIDE DEF N
<1>11. u[0] = base
  <2>1. 0 \in 0 .. N
    BY <1>3
  <2>2. u[0] = IF 0 = 0 THEN base ELSE next(u[0 - 1], 0)
    BY <1>10, <2>1, Zenon
  <2>3. QED BY <2>2
<1>12. \A k \in 1 .. N : u[k] = next(u[k - 1], k)
  <2> SUFFICES ASSUME NEW k \in 1 .. N PROVE u[k] = next(u[k - 1], k)
    OBVIOUS
  <2>1. k \in 0 .. N /\ k # 0
    BY <1>3
  <2>2. u[k] = IF k = 0 THEN base ELSE next(u[k - 1], k)
    BY <1>10, <2>1, Zenon
  <2>3. QED BY <2>1, <2>2
<1> DEFINE P == {k \in 0 .. N : u[k] \in Askings}
<1>13. 0 \in P
  BY <1>3, <1>4, <1>11
<1>14. \A k \in 0 .. N - 1 : k \in P => k + 1 \in P
  <2> SUFFICES ASSUME NEW k \in 0 .. N - 1, k \in P PROVE k + 1 \in P
    OBVIOUS
  <2>1. k + 1 \in 1 .. N /\ k + 1 \in 0 .. N /\ (k + 1) - 1 = k /\ u[k] \in Askings
    BY <1>3
  <2>2. u[k + 1] = next(u[k], k + 1)
    BY <1>12, <2>1
  <2>3. next(u[k], k + 1) \in Askings
    BY <1>5, <2>1
  <2>4. QED BY <2>1, <2>2, <2>3
<1>15. N \in P
  <2> HIDE DEF P
  <2>1. 0 .. N \subseteq P
    BY <1>3, <1>13, <1>14, BoundedInduction
  <2>2. QED BY <1>3, <2>1
<1>16. QED BY <1>1, <1>15

LEMMA DelegationBegins == DelegationInit => DelegationInv
<1> SUFFICES ASSUME DelegationInit PROVE DelegationInv
  OBVIOUS
<1>1. LimitsAreKept
  <2>1. StartingLimit \in [Matters -> Nat] /\ StartingCapex \in Nat /\ StartingRepair \in Nat
    BY DelegationAssumption
  <2>2. \A h \in Inns : mandate[h] = [capex |-> StartingCapex, repair |-> StartingRepair]
    BY DEF DelegationInit
  <2>3. \A h \in Inns : /\ DOMAIN mandate[h] = Spends
                        /\ mandate[h]["capex"] \in Nat /\ mandate[h]["repair"] \in Nat
    BY <2>1, <2>2 DEF Spends
  <2>4. \A h \in Inns : \A s \in Spends : mandate[h][s] \in Nat
    BY <2>3 DEF Spends
  <2>5. /\ period \in Nat /\ DOMAIN mandate = Inns
        /\ limits \in [Desks -> [Matters -> Nat]]
    BY <2>1 DEF DelegationInit
  <2>6. QED BY <2>3, <2>4, <2>5 DEF LimitsAreKept
<1>2. RegisterIsKept(register, waiting)
  <2>1. register = <<>> /\ waiting = {} /\ DOMAIN register = {} /\ register \in Seq(Questions)
    BY DEF DelegationInit
  <2>2. QED BY <2>1 DEF RegisterIsKept, InOrder, ElementsOf, OpenOf
<1>3. GrantsAreKept
  BY DEF DelegationInit, GrantsAreKept, GrantedOnce
<1>4. QED BY <1>1, <1>2, <1>3 DEF DelegationInv

LEMMA WaitingIs ==
  RegisterIsKept(register, waiting) =>
    waiting \in SUBSET ((Desks \cup Inns) \X (Matters \cup Spends) \X Nat)
<1> SUFFICES ASSUME RegisterIsKept(register, waiting)
             PROVE  waiting \in SUBSET ((Desks \cup Inns) \X (Matters \cup Spends) \X Nat)
  OBVIOUS
<1>1. ElementsOf(register) \in SUBSET Questions
  BY RegisterIsASet DEF RegisterIsKept
<1>2. \A e \in Questions : Asking(e) \in (Desks \cup Inns) \X (Matters \cup Spends) \X Nat
  BY DEF Questions, Asking
<1>3. QED BY <1>1, <1>2 DEF RegisterIsKept, OpenOf

LEMMA CheckStaffingKeeps ==
  ASSUME DelegationInv, NEW doing \in Doings, CheckStaffing(doing)
  PROVE  DelegationInv'
<1>1. /\ register' = AfterAsking(doing).register /\ waiting' = AfterAsking(doing).waiting
      /\ UNCHANGED <<period, limits, mandate, granted>>
  BY DEF CheckStaffing
<1>2. AfterAsking(doing) \in Askings
  BY WaitingIs, AfterAskingKeeps DEF DelegationInv
<1>3. RegisterIsKept(register', waiting')
  BY <1>1, <1>2 DEF Askings
<1>4. LimitsAreKept'
  BY <1>1 DEF DelegationInv, LimitsAreKept
<1>5. GrantsAreKept'
  <2>1. \A w \in waiting' : w[1] \in Inns => w \in waiting
    BY <1>1, <1>2 DEF Askings
  <2>2. QED BY <1>1, <2>1 DEF DelegationInv, GrantsAreKept, GrantedOnce
<1>6. QED BY <1>3, <1>4, <1>5 DEF DelegationInv, RegisterIsKept

LEMMA ManagersQuestionOf ==
  \A h \in Inns, a \in Spends, p \in Nat, f \in Nat, l \in Nat :
    Question(h, a, p, f, l) \in Questions /\ Question(h, a, p, f, l).status = "open"
<1> TAKE h \in Inns, a \in Spends, p \in Nat, f \in Nat, l \in Nat
<1> DEFINE e == Question(h, a, p, f, l)
<1>1. e = [who |-> h, about |-> a, month |-> p, figure |-> f, limit |-> l, status |-> "open"]
  BY DEF Question
<1>2. h \notin Desks
  BY AskersAre
<1> HIDE DEF e
<1>3. e.status = "open" /\ e.who = h /\ e.about = a
      /\ e \in [who : Desks \cup Inns, about : Matters \cup Spends, month : Nat, figure : Nat,
                limit : Nat, status : {"open", "approved", "rejected"}]
  BY <1>1
<1>4. e \in Questions
  BY <1>2, <1>3 DEF Questions
<1>5. QED BY <1>3, <1>4 DEF e

LEMMA ManagersAskKeeps ==
  ASSUME DelegationInv, NEW bad \in [Inns -> {0} \cup Remedies],
         NEW lost \in [Inns -> {0} \cup Losses], ManagersAsk(bad, lost)
  PROVE  DelegationInv'
<1> DEFINE spend == [h \in Inns |-> IF bad[h] > 0 THEN "capex" ELSE "repair"]
           sum == [h \in Inns |-> IF bad[h] > 0 THEN bad[h] ELSE lost[h]]
           asking == {h \in Inns : sum[h] > 0 /\ Exceeds(h, spend[h], sum[h])
                                   /\ ~Asked(register, h, spend[h], period)}
           q == [h \in asking |-> Question(h, spend[h], period, sum[h], mandate[h][spend[h]])]
           more == {q[h] : h \in asking}
<1>1. /\ period' = period + 1
      /\ register' = InIdOrder(ElementsOf(register) \cup
           {Question(h, spend[h], period, sum[h], mandate[h][spend[h]]) : h \in asking})
      /\ waiting' = waiting \cup {<<h, spend[h], period>> : h \in asking}
      /\ UNCHANGED <<limits, mandate, granted>>
  BY DEF ManagersAsk
<1>2. \A h \in Inns : spend[h] \in Spends /\ sum[h] \in Nat
  BY DelegationAssumption DEF Spends
<1>3. asking \in SUBSET Inns /\ \A h \in asking : ~Asked(register, h, spend[h], period)
  OBVIOUS
<1>4. {Question(h, spend[h], period, sum[h], mandate[h][spend[h]]) : h \in asking} = more
  OBVIOUS
<1>5. \A h \in asking : q[h] = Question(h, spend[h], period, sum[h], mandate[h][spend[h]])
  OBVIOUS
<1>6. DOMAIN q = asking /\ more = {q[h] : h \in asking} /\ q \in [asking -> more]
  OBVIOUS
<1> HIDE DEF spend, sum, asking, q
<1>7. ASSUME NEW h \in asking
      PROVE  /\ q[h] \in Questions /\ q[h].status = "open"
             /\ Asking(q[h]) = <<h, spend[h], period>>
             /\ q[h].who = h /\ q[h].about = spend[h] /\ q[h].month = period
  <2>1. h \in Inns /\ spend[h] \in Spends /\ sum[h] \in Nat
    BY <1>2, <1>3
  <2>2. mandate[h][spend[h]] \in Nat /\ period \in Nat
    BY <2>1 DEF DelegationInv, LimitsAreKept
  <2>3. \E a \in Spends, p \in Nat, f \in Nat, l \in Nat :
          a = spend[h] /\ p = period /\ f = sum[h] /\ l = mandate[h][spend[h]]
    BY <2>1, <2>2
  <2>4. PICK a \in Spends, p \in Nat, f \in Nat, l \in Nat :
          a = spend[h] /\ p = period /\ f = sum[h] /\ l = mandate[h][spend[h]]
    BY <2>3
  <2> DEFINE e == Question(h, a, p, f, l)
  <2>5. q[h] = e
    BY <1>5, <2>4
  <2>6. e \in Questions
    BY <2>1, ManagersQuestionOf
  <2>7. e.status = "open"
    BY <2>1, ManagersQuestionOf
  <2>8. Asking(e) = <<h, a, p>>
    BY DEF Question, Asking
  <2>9. e.who = h /\ e.about = a /\ e.month = p
    BY DEF Question
  <2> HIDE DEF e
  <2>10. q[h] \in Questions /\ q[h].status = "open"
    BY <2>5, <2>6, <2>7
  <2>11. q[h].who = h /\ q[h].about = spend[h] /\ q[h].month = period
    BY <2>4, <2>5, <2>9
  <2>12. Asking(q[h]) = <<h, a, p>>
    BY <2>5, <2>8
  <2>13. <<h, a, p>> = <<h, spend[h], period>>
    BY <2>4
  <2>14. QED BY <2>10, <2>11, <2>12, <2>13, Zenon
<1>8. IsFiniteSet(more)
  <2>1. IsFiniteSet(asking)
    BY <1>3, AskersAre, FS_Subset
  <2>2. q \in Surjection(asking, more)
    BY <1>6 DEF Surjection
  <2> HIDE DEF more
  <2>3. QED BY <2>1, <2>2, FS_Surjection
<1>9. more \in SUBSET Questions /\ \A e \in more : e.status = "open"
  BY <1>7
<1>10. Apart(more)
  <2> SUFFICES ASSUME NEW g \in asking, NEW h \in asking, IdOf(q[g]) = IdOf(q[h])
               PROVE  q[g] = q[h]
    BY DEF Apart
  <2>1. q[g].who = g /\ q[h].who = h /\ q[g] \in Questions /\ q[h] \in Questions
    BY <1>7
  <2>2. q[g].who = q[h].who
    BY <2>1, IdsNameQuestions DEF SameQuestion
  <2>3. QED BY <2>1, <2>2
<1>11. \A x \in ElementsOf(register), e \in more : IdOf(x) # IdOf(e)
  <2> SUFFICES ASSUME NEW h \in asking, NEW x \in ElementsOf(register)
               PROVE  IdOf(x) # IdOf(q[h])
    OBVIOUS
  <2>1. /\ q[h] \in Questions /\ q[h].who = h /\ q[h].about = spend[h]
        /\ q[h].month = period
    BY <1>7
  <2>2. ~Asked(register, q[h].who, q[h].about, q[h].month)
    BY <1>3, <2>1
  <2>3. register \in Seq(Questions)
    BY DEF DelegationInv, RegisterIsKept
  <2>4. QED BY <2>1, <2>2, <2>3, NotAskedIsNew
<1>12. {Asking(e) : e \in more} = {<<h, spend[h], period>> : h \in asking}
  BY <1>7
<1> HIDE DEF more
<1>13. RegisterIsKept(InIdOrder(ElementsOf(register) \cup more),
                      waiting \cup {Asking(e) : e \in more})
  BY <1>8, <1>9, <1>10, <1>11, AddingKeeps DEF DelegationInv
<1>14. RegisterIsKept(register, waiting)'
  BY <1>1, <1>4, <1>12, <1>13 DEF RegisterIsKept
<1>15. LimitsAreKept'
  BY <1>1 DEF DelegationInv, LimitsAreKept
<1>16. GrantsAreKept'
  <2>1. /\ period \in Nat /\ period' = period + 1 /\ granted' = granted
        /\ granted \in Seq(Inns \X Nat) /\ GrantedOnce
        /\ \A i \in DOMAIN granted : granted[i][2] < period
        /\ \A w \in waiting : w[1] \in Inns =>
             w[3] < period /\ \A i \in DOMAIN granted : granted[i] # <<w[1], w[3]>>
    BY <1>1 DEF DelegationInv, LimitsAreKept, GrantsAreKept
  <2>2. \A i \in DOMAIN granted : granted[i] \in Inns \X Nat
    BY <2>1, ElementOfSeq, LenProperties
  <2>3. \A i \in DOMAIN granted : granted[i][2] < period'
    BY <2>1, <2>2
  <2>4. ASSUME NEW w \in waiting', w[1] \in Inns
        PROVE  w[3] < period' /\ \A i \in DOMAIN granted : granted[i] # <<w[1], w[3]>>
    <3>1. CASE w \in waiting
      <4>1. w[3] \in Nat
        BY <3>1, WaitingIs DEF DelegationInv
      <4>2. QED BY <2>1, <2>4, <3>1, <4>1
    <3>2. CASE w \notin waiting
      <4>1. PICK h \in asking : w = <<h, spend[h], period>>
        BY <1>1, <3>2
      <4>2. w[3] = period
        BY <4>1
      <4>3. \A i \in DOMAIN granted : granted[i] # <<w[1], w[3]>>
        BY <2>1, <2>2, <4>2
      <4>4. QED BY <2>1, <4>2, <4>3
    <3>3. QED BY <3>1, <3>2
  <2>5. QED BY <2>1, <2>3, <2>4 DEF GrantsAreKept, GrantedOnce
<1>17. QED BY <1>14, <1>15, <1>16 DEF DelegationInv

\* An answer leaves the register as it is but for the answer.
LEMMA AnswersAreKept ==
  ASSUME DelegationInv, NEW i \in DOMAIN register, NEW approve \in BOOLEAN,
         AnswerEscalation(i, approve)
  PROVE  RegisterIsKept(register, waiting)'
<1> DEFINE e == register[i]
           answer == IF approve THEN "approved" ELSE "rejected"
           f == [e EXCEPT !.status = answer]
           N == Len(register)
<1>1. /\ e.status = "open" /\ register' = [register EXCEPT ![i].status = answer]
      /\ waiting' = waiting \ {<<e.who, e.about, e.month>>}
  BY DEF AnswerEscalation
<1>2. /\ register \in Seq(Questions) /\ InOrder(register)
      /\ waiting = {Asking(x) : x \in OpenOf(ElementsOf(register))}
  BY DEF DelegationInv, RegisterIsKept
<1>3. N \in Nat /\ DOMAIN register = 1 .. N /\ register \in [1 .. N -> Questions] /\ e \in Questions
  BY <1>2, LenProperties
<1>4. /\ f \in Questions /\ f.status # "open"
      /\ f.who = e.who /\ f.about = e.about /\ f.month = e.month
  <2>1. answer \in {"open", "approved", "rejected"} /\ answer # "open"
    OBVIOUS
  <2> HIDE DEF answer, e
  <2>2. QED BY <1>3, <2>1 DEF Questions
<1>5. register' = [register EXCEPT ![i] = f]
  BY <1>1
<1>6. /\ DOMAIN register' = 1 .. N /\ register'[i] = f
      /\ \A j \in 1 .. N : j # i => register'[j] = register[j]
      /\ register' \in [1 .. N -> Questions]
  BY <1>3, <1>4, <1>5
<1>7. \A j \in 1 .. N : IdOf(register'[j]) = IdOf(register[j])
  BY <1>3, <1>4, <1>6 DEF IdOf
<1> HIDE DEF f, answer
<1>8. register' \in Seq(Questions)
  BY <1>3, <1>6, SeqDef
<1>9. InOrder(register')
  BY <1>2, <1>3, <1>6, <1>7 DEF InOrder, Before
<1>10. \A j \in 1 .. N : Asking(register[j]) = Asking(e) => j = i
  <2> SUFFICES ASSUME NEW j \in 1 .. N, Asking(register[j]) = Asking(e) PROVE j = i
    OBVIOUS
  <2>1. register[j] \in Questions /\ SameQuestion(register[j], e)
    BY <1>3 DEF Asking, SameQuestion
  <2>2. IdOf(register[j]) = IdOf(register[i])
    BY <1>3, <2>1, IdsNameQuestions
  <2>3. QED BY <1>2, <1>3, <2>2, RegisterIsASet
<1>11. waiting' = {Asking(x) : x \in OpenOf(ElementsOf(register'))}
  <2>1. Asking(e) = <<e.who, e.about, e.month>>
    BY DEF Asking
  <2>2. OpenOf(ElementsOf(register')) = {register[j] : j \in {k \in 1 .. N : k # i /\ register[k].status = "open"}}
    BY <1>3, <1>4, <1>6 DEF OpenOf, ElementsOf
  <2>3. OpenOf(ElementsOf(register)) = {register[j] : j \in {k \in 1 .. N : register[k].status = "open"}}
    BY <1>3 DEF OpenOf, ElementsOf
  <2>4. \A j \in 1 .. N : j # i => Asking(register[j]) # Asking(e)
    BY <1>10
  <2>5. waiting' = {Asking(x) : x \in OpenOf(ElementsOf(register))} \ {Asking(e)}
    BY <1>1, <1>2, <2>1
  <2>6. waiting' = {Asking(register[j]) : j \in {k \in 1 .. N : register[k].status = "open"}}
                     \ {Asking(e)}
    BY <2>3, <2>5
  <2>7. Asking(register[i]) = Asking(e)
    OBVIOUS
  <2>8. {Asking(x) : x \in OpenOf(ElementsOf(register'))}
          = {Asking(register[j]) : j \in {k \in 1 .. N : k # i /\ register[k].status = "open"}}
    BY <2>2
  <2>9. QED BY <2>4, <2>6, <2>7, <2>8, Zenon
<1>12. QED BY <1>8, <1>9, <1>11 DEF RegisterIsKept

LEMMA ApprovedLimitsKeep ==
  ASSUME DelegationInv, NEW i \in DOMAIN register, NEW approve \in BOOLEAN,
         AnswerEscalation(i, approve)
  PROVE  LimitsAreKept'
<1> DEFINE e == register[i]
<1>1. /\ limits' = IF approve /\ e.about \in Matters
                   THEN [limits EXCEPT ![e.who][e.about] = Granted(e)] ELSE limits
      /\ UNCHANGED <<period, mandate>>
  BY DEF AnswerEscalation
<1>2. LimitsAreKept /\ RegisterIsKept(register, waiting)
  BY DEF DelegationInv
<1>3. e \in Questions
  BY <1>2, ElementOfSeq, LenProperties DEF RegisterIsKept
<1> HIDE DEF e
<1>4. CASE approve /\ e.about \in Matters
  <2>1. e.who \in Desks /\ e.figure \in Nat
    BY <1>3, <1>4, AskersAre DEF Questions
  <2>2. Granted(e) \in Nat
    <3>1. CASE e.about \in Ceilings
      <4>1. e.about \notin Standards /\ Allowance \in Nat
        BY <3>1, DelegationAssumption
      <4>2. Granted(e) = e.figure + Allowance
        BY <3>1, <4>1 DEF Granted
      <4>3. QED BY <2>1, <4>1, <4>2
    <3>2. CASE e.about \notin Ceilings
      <4>1. e.about \in Standards
        BY <1>4, <3>2 DEF Matters
      <4>2. Granted(e) = e.figure
        BY <3>2, <4>1 DEF Granted
      <4>3. QED BY <2>1, <4>2
    <3>3. QED BY <3>1, <3>2
  <2>3. limits' = [limits EXCEPT ![e.who][e.about] = Granted(e)]
    BY <1>1, <1>4
  <2>4. QED BY <1>1, <1>2, <1>4, <2>1, <2>2, <2>3 DEF LimitsAreKept
<1>5. CASE ~(approve /\ e.about \in Matters)
  BY <1>1, <1>2, <1>5 DEF LimitsAreKept
<1>6. QED BY <1>4, <1>5

\* What is granted was waited for, and nothing else of the house and the month was.
LEMMA GrantsKeep ==
  ASSUME DelegationInv, NEW i \in DOMAIN register, NEW approve \in BOOLEAN,
         AnswerEscalation(i, approve)
  PROVE  GrantsAreKept'
<1> DEFINE e == register[i]
           g == <<e.who, e.month>>
           N == Len(granted)
<1>1. /\ e.status = "open" /\ waiting' = waiting \ {<<e.who, e.about, e.month>>}
      /\ granted' = IF approve /\ e.about \in Spends THEN Append(granted, g) ELSE granted
      /\ period' = period
  BY DEF AnswerEscalation
<1>2. /\ RegisterIsKept(register, waiting) /\ register \in Seq(Questions)
      /\ waiting = {Asking(x) : x \in OpenOf(ElementsOf(register))}
      /\ granted \in Seq(Inns \X Nat) /\ GrantedOnce
      /\ \A j \in DOMAIN granted : granted[j][2] < period
      /\ \A w \in waiting : w[1] \in Inns =>
           w[3] < period /\ \A j \in DOMAIN granted : granted[j] # <<w[1], w[3]>>
  BY DEF DelegationInv, GrantsAreKept, RegisterIsKept
<1>3. e \in Questions /\ e \in ElementsOf(register)
  BY <1>2, ElementOfSeq, LenProperties DEF ElementsOf
<1>4. CASE ~(approve /\ e.about \in Spends)
  <2>1. granted' = granted /\ waiting' \subseteq waiting
    BY <1>1, <1>4
  <2>2. QED BY <1>1, <1>2, <2>1 DEF GrantsAreKept, GrantedOnce
<1>5. CASE approve /\ e.about \in Spends
  <2>1. e.who \in Inns /\ e.month \in Nat
    BY <1>3, <1>5, AskersAre DEF Questions
  <2>2. Asking(e) \in waiting /\ Asking(e)[1] = e.who /\ Asking(e)[3] = e.month
    BY <1>1, <1>2, <1>3 DEF OpenOf, Asking
  <2>3. e.month < period /\ \A j \in DOMAIN granted : granted[j] # g
    BY <1>2, <2>1, <2>2
  <2>4. ASSUME NEW w \in waiting', w[1] \in Inns, w[1] = e.who, w[3] = e.month PROVE FALSE
    <3>1. PICK x \in ElementsOf(register) : w = Asking(x)
      BY <1>1, <1>2 DEF OpenOf
    <3>2. PICK j \in DOMAIN register : x = register[j]
      BY <3>1 DEF ElementsOf
    <3>3. x \in Questions /\ x.who = e.who /\ x.month = e.month
      BY <1>2, <2>4, <3>1, <3>2, ElementOfSeq, LenProperties DEF Asking
    <3>4. SameQuestion(x, e)
      BY <2>1, <3>3, AskersAre DEF SameQuestion
    <3>5. IdOf(register[j]) = IdOf(register[i])
      BY <1>3, <3>2, <3>3, <3>4, IdsNameQuestions
    <3>6. j = i
      <4>1. register \in Seq(Questions) /\ InOrder(register)
        BY <1>2 DEF RegisterIsKept
      <4>2. \A k, l \in DOMAIN register : IdOf(register[k]) = IdOf(register[l]) => k = l
        BY ONLY <4>1, RegisterIsASet
      <4> HIDE DEF e
      <4>3. QED BY <3>2, <3>5, <4>2
    <3>7. w = <<e.who, e.about, e.month>>
      BY <3>1, <3>2, <3>6 DEF Asking
    <3>8. QED BY <1>1, <2>4, <3>7
  <2>5. granted' = Append(granted, g) /\ g \in Inns \X Nat
    BY <1>1, <1>5, <2>1
  <2>6. /\ N \in Nat /\ DOMAIN granted = 1 .. N /\ DOMAIN granted' = 1 .. (N + 1)
        /\ granted'[N + 1] = g /\ \A j \in 1 .. N : granted'[j] = granted[j]
        /\ granted' \in Seq(Inns \X Nat)
    BY <1>2, <2>5, LenProperties, AppendProperties
  <2>7. g[1] = e.who /\ g[2] = e.month
    OBVIOUS
  <2>8. \A w \in waiting' : w \in waiting
    BY <1>1
  <2> HIDE DEF g, e, N
  <2>9. \A j \in 1 .. (N + 1) : j \in 1 .. N \/ j = N + 1
    BY <2>6
  <2>10. \A j \in DOMAIN granted' : granted'[j][2] < period'
    BY <1>1, <1>2, <2>3, <2>6, <2>7, <2>9
  <2>11. ASSUME NEW w \in waiting', w[1] \in Inns
         PROVE  w[3] < period' /\ \A j \in DOMAIN granted' : granted'[j] # <<w[1], w[3]>>
    <3>1. w[3] < period /\ \A j \in DOMAIN granted : granted[j] # <<w[1], w[3]>>
      BY <1>2, <2>8, <2>11
    <3>2. g # <<w[1], w[3]>>
      BY <2>4, <2>7, <2>11
    <3>3. QED BY <1>1, <2>6, <2>9, <3>1, <3>2
  <2>12. GrantedOnce'
    BY <1>2, <2>3, <2>6, <2>9 DEF GrantedOnce
  <2>13. QED BY <2>6, <2>10, <2>11, <2>12 DEF GrantsAreKept
<1>6. QED BY <1>4, <1>5

LEMMA AnswerEscalationKeeps ==
  ASSUME DelegationInv, NEW i \in DOMAIN register, NEW approve \in BOOLEAN,
         AnswerEscalation(i, approve)
  PROVE  DelegationInv'
<1>1. LimitsAreKept'
  BY ApprovedLimitsKeep
<1>2. RegisterIsKept(register, waiting)'
  BY AnswersAreKept
<1>3. GrantsAreKept'
  BY GrantsKeep
<1>4. QED BY <1>1, <1>2, <1>3 DEF DelegationInv

LEMMA SettingOfLimitsKeeps ==
  ASSUME DelegationInv, NEW d \in Desks, NEW m \in Matters, NEW n \in Figures,
         SetDepartmentAuthority(d, m, n)
  PROVE  DelegationInv'
<1>1. /\ limits' = [limits EXCEPT ![d][m] = n]
      /\ UNCHANGED <<period, mandate, register, waiting, granted>>
  BY DEF SetDepartmentAuthority
<1>2. LimitsAreKept /\ n \in Nat
  BY DelegationAssumption DEF DelegationInv
<1>3. LimitsAreKept'
  BY <1>1, <1>2 DEF LimitsAreKept
<1>4. RegisterIsKept(register, waiting)' /\ GrantsAreKept'
  BY <1>1 DEF DelegationInv, RegisterIsKept, GrantsAreKept, GrantedOnce
<1>5. QED BY <1>3, <1>4 DEF DelegationInv

LEMMA MandatesKeep ==
  ASSUME DelegationInv, NEW h \in Inns, NEW s \in Spends, NEW n \in Remedies,
         SetManagerAuthority(h, s, n)
  PROVE  DelegationInv'
<1>1. mandate' = [mandate EXCEPT ![h][s] = n]
      /\ UNCHANGED <<period, limits, granted, register, waiting>>
  BY DEF SetManagerAuthority
<1>2. LimitsAreKept /\ n \in Nat
  BY DelegationAssumption DEF DelegationInv
<1>3. LimitsAreKept'
  <2>1. \A g \in Inns : /\ DOMAIN mandate'[g] = Spends
                        /\ \A x \in Spends : mandate'[g][x] \in Nat
    BY <1>1, <1>2 DEF LimitsAreKept
  <2>2. QED BY <1>1, <1>2, <2>1 DEF LimitsAreKept
<1>4. QED BY <1>1, <1>3 DEF DelegationInv, RegisterIsKept, GrantsAreKept, GrantedOnce

LEMMA DelegationKeeps == DelegationInv /\ [DelegationNext]_delegationVars => DelegationInv'
<1> SUFFICES ASSUME DelegationInv, [DelegationNext]_delegationVars PROVE DelegationInv'
  OBVIOUS
<1>1. ASSUME NEW doing \in Doings, CheckStaffing(doing) PROVE DelegationInv'
  BY <1>1, CheckStaffingKeeps
<1>2. ASSUME NEW bad \in [Inns -> {0} \cup Remedies], NEW lost \in [Inns -> {0} \cup Losses],
             ManagersAsk(bad, lost)
      PROVE  DelegationInv'
  BY <1>2, ManagersAskKeeps
<1>3. ASSUME NEW i \in DOMAIN register, NEW approve \in BOOLEAN, AnswerEscalation(i, approve)
      PROVE  DelegationInv'
  BY <1>3, AnswerEscalationKeeps
<1>4. ASSUME NEW d \in Desks, NEW m \in Matters, NEW n \in Figures,
             SetDepartmentAuthority(d, m, n)
      PROVE  DelegationInv'
  BY <1>4, SettingOfLimitsKeeps
<1>5. ASSUME NEW h \in Inns, NEW s \in Spends, NEW n \in Remedies, SetManagerAuthority(h, s, n)
      PROVE  DelegationInv'
  BY <1>5, MandatesKeep
<1>6. CASE UNCHANGED delegationVars
  BY <1>6 DEF delegationVars, DelegationInv, LimitsAreKept, RegisterIsKept, GrantsAreKept,
              GrantedOnce
<1>7. QED BY <1>1, <1>2, <1>3, <1>4, <1>5, <1>6 DEF DelegationNext

\* What may be decided without asking (escalation.ts, raiseEscalation; checkStaffingEscalations;
\* managerAuthority.ts): a question nobody answered stays in the register, none is in it
\* twice, the register stays in the order of ids, and money is given once on what a house
\* asked for in a month.
THEOREM NobodyWaitsForNothing == DelegationSpec => []DelegationHolds
<1>1. DelegationInv => DelegationHolds
  <2> SUFFICES ASSUME DelegationInv PROVE DelegationHolds
    OBVIOUS
  <2>1. /\ register \in Seq(Questions) /\ InOrder(register)
        /\ waiting = {Asking(x) : x \in OpenOf(ElementsOf(register))}
    BY DEF DelegationInv, RegisterIsKept
  <2>2. Len(register) \in Nat /\ DOMAIN register = 1 .. Len(register)
    BY <2>1, LenProperties
  <2>3. RegisterInOrder
    BY <2>1, <2>2 DEF RegisterInOrder, InOrder
  <2>4. waiting = {<<register[i].who, register[i].about, register[i].month>> :
                     i \in {j \in DOMAIN register : register[j].status = "open"}}
    BY <2>1 DEF Asking, OpenOf, ElementsOf
  <2>5. ASSUME NEW i \in DOMAIN register, NEW j \in DOMAIN register,
               register[i].who = register[j].who, register[i].month = register[j].month,
               register[i].who \in Desks => register[i].about = register[j].about
        PROVE  i = j
    <3>1. register[i] \in Questions /\ register[j] \in Questions
      BY <2>1, <2>2, ElementOfSeq
    <3>2. IdOf(register[i]) = IdOf(register[j])
      BY <2>5, <3>1, IdsNameQuestions DEF SameQuestion
    <3>3. QED BY <2>1, <3>2, RegisterIsASet
  <2>6. NobodyIsLeftWaiting
    BY <2>4, <2>5 DEF NobodyIsLeftWaiting
  <2>7. QED BY <2>3, <2>6 DEF DelegationInv, GrantsAreKept, DelegationHolds
<1>2. QED BY <1>1, DelegationBegins, DelegationKeeps, PTL DEF DelegationSpec

-----------------------------------------------------------------------------
(* Whichever part is followed.                                             *)

\* The part that is followed stays the one that is followed.
LEMMA OtherThan ==
  ASSUME NEW part
  PROVE  ~(focus = part) /\ [focus' = focus]_focus => ~(focus = part)'
  OBVIOUS

\* What is promised to accounts and guests, and what a room is sold for, is kept to,
\* whatever is sold, redeemed, signed and turned away (salesPipeline.ts, loyalty.ts,
\* revenuePolicy.ts, campaignVisibilityBasisPoints).
THEOREM SalesKeep == SalesSpec => []SalesAreKept
<1>1. ~(focus = "commercial") /\ [focus' = focus]_focus => ~(focus = "commercial")'
  BY OtherThan
<1>2. ~(focus = "selling") /\ [focus' = focus]_focus => ~(focus = "selling")'
  BY OtherThan
<1>3. SalesSpec => [](focus = "commercial" => CommercialAgrees)
  BY <1>1, CommercialBooksAgree, PTL DEF SalesSpec, FocusStays
<1>4. SalesSpec => [](focus = "selling" => SellingHolds)
  BY <1>2, SellingIsHonest, PTL DEF SalesSpec, FocusStays
<1>5. (focus = "commercial" => CommercialAgrees) /\ (focus = "selling" => SellingHolds)
        => SalesAreKept
  BY DEF SalesAreKept
<1>6. QED BY <1>3, <1>4, <1>5, PTL

\* The city shares its nights without losing or inventing one, and a campaign's terms land
\* where they are disclosed (cityMarket.ts, difficultyEffects.ts).
THEOREM WorldKeeps == WorldSpec => []WorldIsFair
<1>1. ~(focus = "city") /\ [focus' = focus]_focus => ~(focus = "city")'
  BY OtherThan
<1>2. ~(focus = "campaign") /\ [focus' = focus]_focus => ~(focus = "campaign")'
  BY OtherThan
<1>3. WorldSpec => [](focus = "city" => CityAgrees)
  BY <1>1, CityIsShared, PTL DEF WorldSpec, FocusStays
<1>4. WorldSpec => [](focus = "campaign" => CampaignHolds)
  BY <1>2, TermsAreKept, PTL DEF WorldSpec, FocusStays
<1>5. (focus = "city" => CityAgrees) /\ (focus = "campaign" => CampaignHolds) => WorldIsFair
  BY DEF WorldIsFair
<1>6. QED BY <1>3, <1>4, <1>5, PTL

\* The company's registers agree, its ventures pay their way and its desks wait for answers
\* that somebody is asked for, whatever is opened, bought, sold, surveyed and decided
\* (recovery.ts:520, companyCommands.ts:541, feasibility.ts, escalation.ts).
THEOREM CompanyKeeps == CompanySpec => []CompanyAgrees
<1>1. ~(focus = "group") /\ [focus' = focus]_focus => ~(focus = "group")'
  BY OtherThan
<1>2. ~(focus = "ventures") /\ [focus' = focus]_focus => ~(focus = "ventures")'
  BY OtherThan
<1>3. ~(focus = "delegation") /\ [focus' = focus]_focus => ~(focus = "delegation")'
  BY OtherThan
<1>4. CompanySpec => [](focus = "group" => GroupAgrees)
  BY <1>1, RegistersAreOneGroup, PTL DEF CompanySpec, FocusStays
<1>5. CompanySpec => [](focus = "ventures" => VenturesHold)
  BY <1>2, VenturesPayTheirWay, PTL DEF CompanySpec, FocusStays
<1>6. CompanySpec => [](focus = "delegation" => DelegationHolds)
  BY <1>3, NobodyWaitsForNothing, PTL DEF CompanySpec, FocusStays
<1>7. (focus = "group" => GroupAgrees) /\ (focus = "ventures" => VenturesHold)
        /\ (focus = "delegation" => DelegationHolds) => CompanyAgrees
  BY DEF CompanyAgrees
<1>8. QED BY <1>4, <1>5, <1>6, <1>7, PTL
=============================================================================
