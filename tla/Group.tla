--------------------------------- MODULE Group ---------------------------------
(***************************************************************************)
(* The company above the hotels: which houses it holds and in which of its *)
(* registers each of them stands, the schemes and purchases that bring     *)
(* houses in, the sales in distress that take them out, the treasury, the  *)
(* brands and their audits, and what managers refer to the centre.         *)
(*                                                                         *)
(* A house is the number its id sorts by.  A scheme is named by the house  *)
(* it becomes (developmentHotelId), a target by the house it is.           *)
(***************************************************************************)
EXTENDS Integers, Sequences, FiniteSets, FiniteSetsExt, Functions, Lists

CONSTANTS
  Flagship,        \* the house the player runs in full
  Schemed,         \* houses that may be built
  ForSale,         \* houses that may be bought
  Home, Away,      \* the flagship's city, and another
  Brands,
  Checklist,       \* OPENING_CHECKLIST
  ShortMonths,     \* months shorter than the days of grace of an audit
  AuditLimit,      \* BRAND_AUDIT_LIMIT
  GroupCash,
  Price, Fee,      \* of a house, of an advisor
  Profits,         \* what a house makes in a month
  RepairLimit,     \* a loss a manager answers for alone
  MaxOrders,       \* bound: commands to the company
  MaxMonths        \* bound: months closed

Cities == {Home, Away}
Houses == {Flagship} \cup Schemed \cup ForSale

ASSUME GroupAssumption ==
  /\ Houses \subseteq Nat /\ IsFiniteSet(Houses)
  /\ Flagship \notin Schemed \cup ForSale /\ Schemed \cap ForSale = {}
  /\ Home # Away /\ AuditLimit \in Nat \ {0} /\ ShortMonths \subseteq Nat
  /\ Profits \subseteq Int
  /\ {GroupCash, Price, Fee, RepairLimit, MaxOrders, MaxMonths} \subseteq Nat

VARIABLES
  company,    \* the registers
  purse,      \* the group's cash, and what it owes
  closed,     \* months closed
  orders,     \* commands carried out
  brought,    \* ghost: how often each house was bought or built
  sold        \* ghost: how often each building was sold

groupVars == <<company, purse, closed, orders, brought, sold>>

Models == {"owned", "leased"}

GroupInit ==
  /\ company =
       [portfolio |-> {Flagship},
        managed |-> <<>>,                  \* house -> its city
        models |-> [h \in {Flagship} |-> "owned"],
        accounts |-> [h \in {Flagship} |-> 0],
        hq |-> GroupCash,
        managers |-> {Flagship}, budgets |-> {},
        flags |-> <<>>,                    \* house -> its brand
        audits |-> <<>>, escalations |-> {},
        results |-> <<>>,                  \* house -> last month's profit
        schemes |-> <<>>,                  \* house -> city, tasks left, open
        acquired |-> {}, inspected |-> {}]
  /\ purse = [cash |-> GroupCash, owed |-> 0]
  /\ closed = 0 /\ orders = 0
  /\ brought = [h \in Houses |-> 0] /\ sold = [h \in Houses |-> 0]
-----------------------------------------------------------------------------
(* Helpers: partial functions, money, admission and retirement.            *)

Without(f, keys) == [k \in DOMAIN f \ keys |-> f[k]]
With(f, k, v) == [x \in DOMAIN f \cup {k} |-> IF x = k THEN v ELSE f[x]]

PayOut(p, n) ==
  LET paid == IF n < p.cash THEN n ELSE p.cash
  IN  [cash |-> p.cash - paid, owed |-> p.owed + (n - paid)]

TakeIn(p, n) == [p EXCEPT !.cash = @ + n]

\* Headquarters holds whatever the houses have not been allocated.
SyncTreasury(c, cash) ==
  [c EXCEPT !.hq = cash - SumFunction(c.accounts)]

AdmitHotel(c, h, city) ==
  [c EXCEPT !.portfolio = @ \cup {h}, !.managed = With(@, h, city),
            !.models = With(@, h, "owned"), !.accounts = With(@, h, 0),
            !.managers = @ \cup {h}]

\* What is left of a list of audits without those of some houses.
AuditsOfOthers(audits, hs) == Sifted(audits, {a \in ElementsOf(audits) : a.house \notin hs})

\* One house after the other leaves.  The schemes they were built by, and the targets
\* they were, stay on record.
RetireHotelFromCompany(c, leaving) ==
  [c EXCEPT !.portfolio = @ \ leaving, !.managed = Without(@, leaving),
            !.results = Without(@, leaving),
            !.hq = @ + SumFunctionOnSet(c.accounts, leaving \cap DOMAIN c.accounts),
            !.accounts = Without(@, leaving),
            !.managers = @ \ leaving, !.budgets = @ \ leaving,
            !.escalations = {e \in @ : e.house \notin leaving},
            !.flags = Without(@, leaving), !.audits = AuditsOfOthers(@, leaving),
            !.models = Without(@, leaving)]

Order == orders < MaxOrders /\ orders' = orders + 1
-----------------------------------------------------------------------------
(* Building and buying.                                                    *)

StartDevelopment(h, city) ==
  /\ Order
  /\ h \notin company.portfolio \cup DOMAIN company.schemes
  /\ purse.cash >= Price
  /\ purse' = PayOut(purse, Price)
  /\ company' = [company EXCEPT !.schemes =
                   With(@, h, [city |-> city, missing |-> Checklist, open |-> FALSE])]
  /\ UNCHANGED <<closed, brought, sold>>

CompletePreOpeningTask(h, item) ==
  /\ Order
  /\ h \in DOMAIN company.schemes /\ ~company.schemes[h].open
  /\ company' = [company EXCEPT !.schemes[h].missing = @ \ {item}]
  /\ UNCHANGED <<purse, closed, brought, sold>>

OpenDevelopment(h) ==
  /\ Order
  /\ h \in DOMAIN company.schemes
  /\ ~company.schemes[h].open /\ company.schemes[h].missing = {}
  /\ company' = AdmitHotel([company EXCEPT !.schemes[h].open = TRUE], h,
                           company.schemes[h].city)
  /\ brought' = [brought EXCEPT ![h] = @ + 1]
  /\ UNCHANGED <<purse, closed, sold>>

\* A finding is paid for even if the house was inspected before.
RunDueDiligence(h) ==
  /\ Order
  /\ h \notin company.acquired /\ purse.cash >= Fee
  /\ purse' = PayOut(purse, Fee)
  /\ company' = [company EXCEPT !.inspected = @ \cup {h}]
  /\ UNCHANGED <<closed, brought, sold>>

AcquireHotel(h) ==
  /\ Order
  /\ h \notin company.acquired /\ h \notin company.portfolio
  /\ purse.cash >= Price
  /\ purse' = PayOut(purse, Price)
  /\ company' = AdmitHotel([company EXCEPT !.acquired = @ \cup {h}], h, Home)
  /\ brought' = [brought EXCEPT ![h] = @ + 1]
  /\ UNCHANGED <<closed, sold>>
-----------------------------------------------------------------------------
(* Decisions of the centre.                                                *)

AssignBrand(h, brand) ==
  /\ Order /\ h \in company.portfolio
  /\ company' = [company EXCEPT !.flags = With(@, h, brand)]
  /\ UNCHANGED <<purse, closed, brought, sold>>

RemoveBrand(h) ==
  /\ Order /\ h \in DOMAIN company.flags
  /\ company' = [company EXCEPT !.flags = Without(@, {h})]
  /\ UNCHANGED <<purse, closed, brought, sold>>

SetOperatingModel(h, model) ==
  /\ Order /\ h \in company.portfolio
  /\ company' = [company EXCEPT !.models = With(@, h, model)]
  /\ UNCHANGED <<purse, closed, brought, sold>>

SetHotelBudget(h) ==
  /\ Order /\ h \in company.portfolio
  /\ company' = [company EXCEPT !.budgets = @ \cup {h}]
  /\ UNCHANGED <<purse, closed, brought, sold>>

ResolveEscalation(e, approve) ==
  /\ Order /\ e.status = "open"
  /\ company' = [company EXCEPT !.escalations =
                   (@ \ {e}) \cup {[e EXCEPT !.status = IF approve THEN "approved"
                                                                   ELSE "rejected"]}]
  /\ purse' = IF approve THEN PayOut(purse, e.amount) ELSE purse
  /\ UNCHANGED <<closed, brought, sold>>

\* Both sides of a transfer must be solvent, or it is refused.
TransferInternalFunding(h, direction, n) ==
  /\ Order /\ h \in DOMAIN company.accounts
  /\ company.hq >= 0 /\ company.accounts[h] >= 0
  /\ n <= IF direction = "fund" THEN company.hq ELSE company.accounts[h]
  /\ LET up == IF direction = "fund" THEN -n ELSE n
     IN  company' = [company EXCEPT !.hq = @ + up, !.accounts[h] = @ - up]
  /\ UNCHANGED <<purse, closed, brought, sold>>
-----------------------------------------------------------------------------
(* Measures of a company in distress.                                      *)

InDistress == purse.cash < purse.owed

\* A sale raises twelve times what the house made last month, or nothing.
Raises(h) == h \in DOMAIN company.results /\ company.results[h] > 0

Proceeds(h) == IF Raises(h) THEN company.results[h] ELSE 0

Saleable == {h \in company.portfolio \ {Flagship} : Raises(h)}

Leasebackable == {h \in Saleable : company.models[h] = "owned"}

SellHotel ==
  LET h == Min(Saleable)
  IN  /\ Order /\ InDistress /\ Saleable # {}
      /\ company' = SyncTreasury(RetireHotelFromCompany(company, {h}),
                                 purse.cash + Proceeds(h))
      /\ purse' = TakeIn(purse, Proceeds(h))
      /\ sold' = [sold EXCEPT ![h] = @ + 1]
      /\ UNCHANGED <<closed, brought>>

AssetSale ==
  LET h == Min(Leasebackable)
  IN  /\ Order /\ InDistress /\ Leasebackable # {}
      /\ company' = SyncTreasury([company EXCEPT !.models[h] = "leased"],
                                 purse.cash + Proceeds(h))
      /\ purse' = TakeIn(purse, Proceeds(h))
      /\ sold' = [sold EXCEPT ![h] = @ + 1]
      /\ UNCHANGED <<closed, brought>>

HousesIn(city) == {h \in DOMAIN company.managed \cap company.portfolio :
                     company.managed[h] = city}

Exitable == {city \in Cities : \E h \in HousesIn(city) : Raises(h)}

CityResult(city) ==
  LET Made(h) == IF h \in DOMAIN company.results THEN company.results[h] ELSE 0
  IN  SumFunction([h \in HousesIn(city) |-> Made(h)])

\* The weakest city is given up, with what is being built there.
MarketExit(city) ==
  LET leaving == HousesIn(city)
      raised == SumFunction([h \in leaving |-> Proceeds(h)])
      left == RetireHotelFromCompany(company, leaving)
      building == {h \in DOMAIN left.schemes : left.schemes[h].city = city}
  IN  /\ Order /\ InDistress /\ city \in Exitable
      /\ \A other \in Exitable : CityResult(city) <= CityResult(other)
      /\ company' = SyncTreasury([left EXCEPT !.schemes = Without(@, building)],
                                 purse.cash + raised)
      /\ purse' = TakeIn(purse, raised)
      /\ sold' = [h \in Houses |-> sold[h] + (IF h \in leaving THEN 1 ELSE 0)]
      /\ UNCHANGED <<closed, brought>>
-----------------------------------------------------------------------------
(* The month of the company, and everything else that moves money.         *)

Due(month) == IF month \in ShortMonths THEN month + 2 ELSE month + 1

ShouldRemoveBrand(audits, h, brand, month) ==
  LET matching == Sifted(audits, {a \in ElementsOf(audits) : a.house = h /\ a.brand = brand})
      n == Len(matching)
  IN  /\ n >= 2 /\ ~matching[n].compliant /\ ~matching[n - 1].compliant
      /\ Due(matching[n - 1].month) <= month

NewestAudits(audits) ==
  IF Len(audits) > AuditLimit
  THEN SubSeq(audits, Len(audits) - AuditLimit + 1, Len(audits))
  ELSE audits

\* The audits of a month: houses under a brand are audited in the order of their ids.
Audited(c, failing, month) ==
  LET Audit(h) == [house |-> h, brand |-> c.flags[h], month |-> month,
                   compliant |-> h \notin failing]
      upTo[n \in 0 .. Max(Houses) + 1] ==
        IF n = 0 THEN c.audits
        ELSE IF n - 1 \in DOMAIN c.flags THEN NewestAudits(Append(upTo[n - 1], Audit(n - 1)))
             ELSE upTo[n - 1]
  IN  upTo[Max(Houses) + 1]

AuditBrands(c, failing, month) ==
  LET audits == Audited(c, failing, month)
      lost == {h \in DOMAIN c.flags \cap failing :
                 ShouldRemoveBrand(audits, h, c.flags[h], month)}
  IN  [c EXCEPT !.audits = audits, !.flags = Without(@, lost)]

\* The newest audit of a house counts, whatever became of the flag since.
FailedLastAudit(c, h) ==
  LET own == Sifted(c.audits, {a \in ElementsOf(c.audits) : a.house = h})
  IN  own # <<>> /\ ~own[Len(own)].compliant

\* A capital sum is never within a manager's limit, a loss may be.
RaiseManagerEscalations(c, month) ==
  LET failed == {h \in c.portfolio \cap c.managers : FailedLastAudit(c, h)}
      losing == {h \in (c.portfolio \cap c.managers) \ failed :
                   -c.results[h] > RepairLimit}
      Raised(h, kind, n) == [house |-> h, month |-> month, kind |-> kind,
                             amount |-> n, status |-> "open"]
  IN  [c EXCEPT !.escalations =
         @ \cup {Raised(h, "capex", 1) : h \in failed}
           \cup {Raised(h, "repair", -c.results[h]) : h \in losing}]

\* A managed house makes its margin of what it takes, never less than nothing
\* (managedHotelMonth); only the flagship can lose.
RunCompanyMonth(results, failing) ==
  LET synced == SyncTreasury(company, purse.cash)
      houses == DOMAIN company.managed
      traded == [synced EXCEPT
                   !.results = results,
                   !.accounts = [h \in DOMAIN @ |->
                                   @[h] + (IF h \in houses THEN results[h] ELSE 0)]]
      made == SumFunctionOnSet(results, houses)
      rents == Cardinality({h \in company.portfolio : company.models[h] = "leased"})
      programmes == Cardinality(DOMAIN company.flags)
      paid == PayOut(TakeIn(purse, made),
                     rents + programmes + Cardinality(company.portfolio))
      audited == AuditBrands(traded, failing, closed)
  IN  /\ closed < MaxMonths /\ closed' = closed + 1
      /\ purse' = paid
      /\ company' = SyncTreasury(RaiseManagerEscalations(audited, closed), paid.cash)
      /\ UNCHANGED <<orders, brought, sold>>

\* A command that costs money: the treasury hears of it at the next refresh.
SpendElsewhere(n) ==
  /\ Order /\ purse' = PayOut(purse, n)
  /\ UNCHANGED <<company, closed, brought, sold>>

\* The end of a quantum: what is owed is paid as far as the cash goes.
RefreshMetrics ==
  LET paid == IF purse.owed < purse.cash THEN purse.owed ELSE purse.cash
  IN  /\ company.hq # SyncTreasury(company, purse.cash - paid).hq \/ paid > 0
      /\ purse' = [cash |-> purse.cash - paid, owed |-> purse.owed - paid]
      /\ company' = SyncTreasury(company, purse.cash - paid)
      /\ UNCHANGED <<closed, orders, brought, sold>>

GroupNext ==
  \/ \E h \in Schemed, city \in Cities : StartDevelopment(h, city)
  \/ \E h \in Schemed, item \in Checklist : CompletePreOpeningTask(h, item)
  \/ \E h \in Schemed : OpenDevelopment(h)
  \/ \E h \in ForSale : RunDueDiligence(h) \/ AcquireHotel(h)
  \/ \E h \in Houses, brand \in Brands : AssignBrand(h, brand)
  \/ \E h \in Houses : RemoveBrand(h) \/ SetHotelBudget(h)
  \/ \E h \in Houses, model \in Models : SetOperatingModel(h, model)
  \/ \E e \in company.escalations, approve \in BOOLEAN : ResolveEscalation(e, approve)
  \/ \E h \in Houses, direction \in {"fund", "sweep"} :
       TransferInternalFunding(h, direction, 1)
  \/ SellHotel \/ AssetSale \/ \E city \in Cities : MarketExit(city)
  \/ \E results \in [company.portfolio -> Profits], failing \in SUBSET DOMAIN company.flags :
       /\ \A h \in company.portfolio \ {Flagship} : results[h] >= 0
       /\ RunCompanyMonth(results, failing)
  \/ SpendElsewhere(GroupCash)
  \/ RefreshMetrics

GroupSpec == GroupInit /\ [][GroupNext]_groupVars
-----------------------------------------------------------------------------
(* Properties.                                                             *)

\* A hotel that exists in one of the lists and not the others is a bug waiting
\* to be found (companyCommands.ts:912): through every opening, purchase, sale
\* and exit a house stands in all the registers or in none.
RegistersAgree ==
  LET held == company.portfolio
  IN  /\ DOMAIN company.managed = held \ {Flagship}
      /\ DOMAIN company.accounts = held /\ DOMAIN company.models = held
      /\ company.managers = held
      /\ company.budgets \cup DOMAIN company.flags \cup DOMAIN company.results
           \subseteq held
      /\ {e.house : e \in company.escalations} \subseteq held
      /\ \A i \in DOMAIN company.audits : company.audits[i].house \in held

\* A house came into the group by one opened scheme or one completed purchase;
\* a scheme or a target brings its house in once, however often it is sold.
EveryHouseHasOneOrigin ==
  \A h \in company.portfolio \ {Flagship} :
    /\ h \in Schemed => h \in DOMAIN company.schemes /\ company.schemes[h].open
    /\ h \in ForSale => h \in company.acquired /\ brought[h] = 1

\* The group's books of houses agree with each other and with how each came.
GroupAgrees == RegistersAgree /\ EveryHouseHasOneOrigin

\* No measure is a rescue that appears from nowhere (recovery.ts:268): what the
\* group sells, it bought or built, and sold no other time since.
SoldOnce == \A h \in Houses : sold[h] <= brought[h]
=============================================================================
