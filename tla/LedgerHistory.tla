----------------------------- MODULE LedgerHistory -----------------------------
(***************************************************************************)
(* The ledger over the years: every movement of cash is posted to it, the  *)
(* close of a month reads the postings since the last close into the       *)
(* month's cash flow statement, and then old postings are merged - one for *)
(* an account and month once they are out of Recent days, one for an       *)
(* account and year once they are out of Monthly days.                     *)
(*                                                                         *)
(* A day is a number and its month and year are quotients.  A posting      *)
(* keeps its day, its account and its amount.                              *)
(***************************************************************************)
EXTENDS Integers, Sequences, FiniteSets, FiniteSetsExt, SequencesExt

CONSTANTS
  LedgerAccounts,
  Classed,              \* accountClass: [account -> "operating" | "investing" | "financing"]
  AccountRank,          \* the order of account names
  DaysPostings,         \* the sets of [account, amount] a day may post
  Favours,              \* what the month's story earns or spends as the month closes
  Recent,               \* RECENT_LEDGER_DAYS
  Monthly,              \* MONTHLY_LEDGER_DAYS
  LedgerMonth,          \* days of a month
  LedgerYear,           \* days of a year
  MaxLedgerDays

ASSUME LedgerAssumption ==
  /\ {Recent, Monthly, LedgerMonth, LedgerYear, MaxLedgerDays} \subseteq Nat \ {0}
  /\ Recent < Monthly /\ LedgerYear % LedgerMonth = 0
  /\ Classed \in [LedgerAccounts -> {"operating", "investing", "financing"}]
  /\ AccountRank \in [LedgerAccounts -> Nat]
  /\ \A S \in DaysPostings : \A m \in S : m.account \in LedgerAccounts /\ m.amount \in Int
  /\ Favours \subseteq Int

VARIABLES
  ledger,        \* finance.ledger
  opening,       \* finance.month: openingLedgerIndex and openingCash
  lastFlow,      \* lastMonthlyClose.cashFlowStatement
  drawer,         \* finance.cashMinor
  days,          \* elapsed days
  posted,        \* ghost: [<<year, account>> -> sum ever posted]
  unread,        \* ghost: postings no close has read yet
  reported           \* ghost: what the statements have reported, and what none will

ledgerVars == <<ledger, opening, lastFlow, drawer, days, posted, unread, reported>>

MonthOf(d) == d \div LedgerMonth
YearOf(d) == d \div LedgerYear
Years == 0 .. YearOf(MaxLedgerDays)

Total(entries) == FoldLeft(LAMBDA sum, e : sum + e.amount, 0, entries)
OfClass(entries, class) == SelectSeq(entries, LAMBDA e : Classed[e.account] = class)
OfAccount(entries, a) == SelectSeq(entries, LAMBDA e : e.account = a)

\* The order of merged postings: by day, then by account.
Earlier(a, b) ==
  \/ a.day < b.day
  \/ a.day = b.day /\ AccountRank[a.account] < AccountRank[b.account]

\* The key an old posting is merged under: its account, with its month, or its
\* year once it is old enough.
PeriodOf(e, now) ==
  IF now - e.day <= Monthly THEN <<"month", MonthOf(e.day), e.account>>
  ELSE <<"year", YearOf(e.day), e.account>>

\* Slip: what was merged before is overwritten instead of added to.
CompactedAnew(entries, now) ==
  LET old == SelectSeq(entries, LAMBDA e : now - e.day > Recent)
      keys == {PeriodOf(old[i], now) : i \in DOMAIN old}
      LastOf(k) == SelectLastInSeq(old, LAMBDA e : PeriodOf(e, now) = k)
  IN  SetToSortSeq({old[LastOf(k)] : k \in keys}, Earlier)
        \o SelectSeq(entries, LAMBDA e : now - e.day <= Recent)

\* compactLedgerHistory: the merged postings by day and account, each with the day
\* of the first of them, then the recent ones as they were.
Compacted(entries, now) ==
  LET old == SelectSeq(entries, LAMBDA e : now - e.day > Recent)
      keys == {PeriodOf(old[i], now) : i \in DOMAIN old}
      Under(k) == SelectSeq(old, LAMBDA e : PeriodOf(e, now) = k)
      Merged(k) == [day |-> Under(k)[1].day, account |-> k[3], amount |-> Total(Under(k))]
  IN  SetToSortSeq({Merged(k) : k \in keys}, Earlier)
        \o SelectSeq(entries, LAMBDA e : now - e.day <= Recent)

\* cashFlowStatement of the postings since the last close.
CashFlow(entries, openingCash) ==
  LET operating == Total(OfClass(entries, "operating"))
      investing == Total(OfClass(entries, "investing"))
      financing == Total(OfClass(entries, "financing"))
  IN  [opening |-> openingCash, operating |-> operating, investing |-> investing,
       financing |-> financing, closing |-> openingCash + operating + investing + financing]

NoFlow == [opening |-> 0, operating |-> 0, investing |-> 0, financing |-> 0, closing |-> 0]

Entry(account, amount, day) == [day |-> day, account |-> account, amount |-> amount]

\* A day's movements, in some order.
Entries(S) == SetToSortSeq({Entry(m.account, m.amount, days) : m \in S}, Earlier)

\* The ghost sums with some more postings.
Posted(entries) ==
  [k \in DOMAIN posted |->
     posted[k] + Total(SelectSeq(entries, LAMBDA e : YearOf(e.day) = k[1] /\ e.account = k[2]))]
-----------------------------------------------------------------------------
LedgerInit ==
  /\ ledger = <<>> /\ opening = [index |-> 0, cash |-> 0]
  /\ lastFlow = NoFlow /\ drawer = 0 /\ days = 0
  /\ posted = [k \in Years \X LedgerAccounts |-> 0]
  /\ unread = <<>>
  /\ reported = [reported |-> 0, missed |-> 0]

\* postEntry with the cash it moves, and a day at whose end nothing closes.
PostAndWait(S) ==
  LET entries == Entries(S)
  IN  /\ days < MaxLedgerDays /\ (days + 1) % LedgerMonth # 0
      /\ days' = days + 1
      /\ ledger' = ledger \o entries
      /\ unread' = unread \o entries
      /\ drawer' = drawer + Total(entries)
      /\ posted' = Posted(entries)
      /\ UNCHANGED <<opening, lastFlow, reported>>

\* The night of the first of a month: the day's postings, the close over all since
\* the last one, the story's own money, the new month's opening figures, and the
\* merging, after which the opening index is the ledger's length again.
PostAndClose(S, favour) ==
  LET now == days + 1
      entries == Entries(S)
      story == IF favour = 0 THEN <<>>
               ELSE <<Entry(CHOOSE a \in LedgerAccounts : Classed[a] = "operating", favour, now)>>
      read == SubSeq(ledger \o entries, opening.index + 1, Len(ledger \o entries))
      flow == CashFlow(read, opening.cash)
      kept == Compacted(ledger \o entries \o story, now)
  IN  /\ days < MaxLedgerDays /\ now % LedgerMonth = 0
      /\ days' = now
      /\ lastFlow' = flow
      /\ drawer' = drawer + Total(entries \o story)
      /\ ledger' = kept
      /\ opening' = [index |-> Len(kept), cash |-> drawer']
      /\ posted' = Posted(entries \o story)
      /\ unread' = <<>>
      /\ reported' = [reported |-> reported.reported + flow.closing - flow.opening,
                  missed |-> reported.missed + Total(story)]

LedgerNext ==
  \/ \E S \in DaysPostings : PostAndWait(S)
  \/ \E S \in DaysPostings, favour \in Favours \cup {0} : PostAndClose(S, favour)

LedgerSpec == LedgerInit /\ [][LedgerNext]_ledgerVars
-----------------------------------------------------------------------------
(* Properties.                                                             *)

\* Merging loses nothing: however often postings are merged, every account's sum
\* of every year is what was posted to it in that year, and the cash is the sum
\* of the ledger (historyCompaction.ts:59, invariants.ts:86).
MergingLosesNothing ==
  /\ \A y \in Years, a \in LedgerAccounts :
       posted[<<y, a>>] = Total(SelectSeq(OfAccount(ledger, a), LAMBDA e : YearOf(e.day) = y))
  /\ drawer = Total(ledger)

\* After a close no account has two postings of one month older than Recent days,
\* nor two of one year older than Monthly days: the ledger cannot fill a save.
OldIsMerged ==
  LET asOf == MonthOf(days) * LedgerMonth
      old == {i \in DOMAIN ledger : asOf - ledger[i].day > Recent}
  IN  \A i, j \in old : PeriodOf(ledger[i], asOf) = PeriodOf(ledger[j], asOf) => i = j

\* The opening index is where the postings no close has read begin: the next
\* statement reads each of them once and none that was read before, and the save
\* stays one that the validator takes (saveSchema.ts:320).
IndexIsWhereReadingStopped ==
  /\ opening.index <= Len(ledger)
  /\ SubSeq(ledger, opening.index + 1, Len(ledger)) = unread

\* The statements account for the cash but for what the story moved during a
\* close, which falls between two months.
StatementsTellTheCash ==
  drawer = reported.reported + reported.missed + Total(unread)

LedgerHolds ==
  MergingLosesNothing /\ OldIsMerged /\ IndexIsWhereReadingStopped /\ StatementsTellTheCash

\* A month opens with the cash the last one closed with.
MonthsMeet == [][opening'.cash # opening.cash => opening'.cash = lastFlow'.closing]_ledgerVars
=============================================================================
