\* A hotel sold in distress, with nothing left to borrow and no deposits.
SPECIFICATION BooksSpec
CONSTANTS
  StartingCash = 1
  StartingAssets = 3
  StartingDebt = 2
  Openings = {1, 2}
  UsefulLife = 2
  BorrowingLimit = 2
  DaysPerMonth = 2
  MonthsPerYear = 2
  TaxMonth = 1
  Takings = {2}
  Costs = {2}
  Shares <- SharesDef
  Interests = {1}
  Deposits = {}
  SaleProceeds = {1}
  Terms = {2}
  LoanKinds <- LoanKindsDef
  MaxDealings = 2
  MaxDay = 4
INVARIANTS
  BalanceSheetBalances
CHECK_DEADLOCK FALSE
