--------------------------------- MODULE Risk ---------------------------------
(***************************************************************************)
(* What can go wrong with the building and the business: plant that wears, *)
(* fails and is repaired or serviced, the policies that answer for a       *)
(* failure and the claims filed under them, and the rules a jurisdiction   *)
(* holds the house to.                                                     *)
(*                                                                         *)
(* Condition is a number of steps, a policy's terms and a loss are whole   *)
(* sums, dates are days.  What services, repairs, premiums and fines cost  *)
(* and what a settlement brings are postings of FinanceBooks, left out     *)
(* here.                                                                   *)
(***************************************************************************)
EXTENDS Integers, FiniteSets

CONSTANTS
  Plant,             \* the building's assets, numbered in the order of the list
  PerilOf,           \* the peril a failure of an asset is insured under
  NewCondition, FailsBelow, RepairedCondition, ServiceGain, ServiceEvery,
  MaxServices,       \* services the technicians of one day have time for
  Policies, Perils,  \* policy ids, numbered in their order, and what may be insured
  Sums,              \* sums a policy may name
  Loss, Rebuild,     \* what a failed asset costs, what the house would
  Assessments,       \* days an assessor takes
  Rules,             \* the regulations, as records
  RiskMonth,         \* days between two evaluations
  MaxRiskDays,       \* bound: days
  MaxCoverChanges    \* bound: insurance commands and acknowledgements

ASSUME RiskAssumption ==
  /\ Plant \subseteq Nat /\ DOMAIN PerilOf \subseteq Plant
  /\ Policies \subseteq Nat
  /\ {NewCondition, FailsBelow, RepairedCondition, ServiceGain, ServiceEvery,
      MaxServices, Loss, MaxRiskDays, MaxCoverChanges} \subseteq Nat
  /\ Sums \subseteq Nat /\ Assessments \subseteq Nat \ {0}
  /\ {Rebuild, RiskMonth} \subseteq Nat \ {0}
  /\ \A rule \in Rules : DOMAIN rule =
       {"order", "area", "requirement", "notice", "effective", "graceEnds", "facility", "whenDear"}
  /\ \A rule \in Rules : {rule.effective, rule.graceEnds} \subseteq Nat
  /\ IsFiniteSet(Rules) /\ {rule.order : rule \in Rules} = 1 .. Cardinality(Rules)
  /\ \A r, s \in Rules : r.order = s.order => r = s

VARIABLES
  plant,        \* condition, status and days since service of each asset
  policies,     \* the cover in force
  claims,       \* claims filed, by id
  rulings,      \* what the last evaluation said of each rule it tracks
  restricted,   \* facilities held back, and by which rule
  board,        \* the alerts about rules, and whether they were acknowledged
  riskDay,
  coverChanges

riskVars == <<plant, policies, claims, rulings, restricted, board, riskDay, coverChanges>>

LowestOf(S) == CHOOSE x \in S : \A y \in S : x <= y
LesserOf(a, b) == IF a < b THEN a ELSE b
GreaterOf(a, b) == IF a > b THEN a ELSE b

RiskInit ==
  /\ plant = [a \in Plant |-> [condition |-> NewCondition, status |-> "operational", since |-> 0]]
  /\ policies = <<>> /\ claims = <<>>
  /\ rulings = <<>> /\ restricted = <<>> /\ board = <<>>
  /\ riskDay = 0 /\ coverChanges = 0
-----------------------------------------------------------------------------
(* Insurance.                                                              *)

CoverChange == coverChanges < MaxCoverChanges /\ coverChanges' = coverChanges + 1

WithEntry(f, x, value) == [y \in DOMAIN f \cup {x} |-> IF y = x THEN value ELSE f[y]]
WithoutEntries(f, xs) == [y \in DOMAIN f \ xs |-> f[y]]

TakeOutPolicy(id, peril, value, limit, deductible) ==
  /\ CoverChange
  /\ id \notin DOMAIN policies /\ limit <= value
  /\ policies' = WithEntry(policies, id,
       [peril |-> peril, value |-> value, limit |-> limit, deductible |-> deductible])
  /\ UNCHANGED <<plant, claims, rulings, restricted, board, riskDay>>

\* Only the deductible and the limit; claims already filed do not stand in the
\* way, and are settled at the new terms.
VaryPolicy(id, limit, deductible) ==
  /\ CoverChange
  /\ id \in DOMAIN policies /\ limit <= policies[id].value
  /\ policies' = [policies EXCEPT ![id].limit = limit, ![id].deductible = deductible]
  /\ UNCHANGED <<plant, claims, rulings, restricted, board, riskDay>>

\* A slip: cancelling does not look at the claims.
CancelPolicyWithClaims(id) ==
  /\ CoverChange
  /\ id \in DOMAIN policies
  /\ policies' = WithoutEntries(policies, {id})
  /\ UNCHANGED <<plant, claims, rulings, restricted, board, riskDay>>

CancelPolicy(id) ==
  /\ CoverChange
  /\ id \in DOMAIN policies
  /\ \A c \in DOMAIN claims : ~(claims[c].policy = id /\ claims[c].status = "filed")
  /\ policies' = WithoutEntries(policies, {id})
  /\ UNCHANGED <<plant, claims, rulings, restricted, board, riskDay>>

\* Declare half the value and the policy pays half the loss.
Averaged(policy) == (Loss * LesserOf(policy.value, Rebuild)) \div Rebuild
Settlement(policy, peril) ==
  IF peril # policy.peril THEN 0
  ELSE GreaterOf(0, LesserOf(policy.limit, Averaged(policy) - policy.deductible))

\* The first policy in force that insures what has happened; ids are in order.
CoverFor(peril) == {id \in DOMAIN policies : policies[id].peril = peril}

FileClaims(broken, assessment) ==
  LET insured == {a \in broken \cap DOMAIN PerilOf : CoverFor(PerilOf[a]) # {}}
      new == {<<riskDay, a>> : a \in insured}
      Filed(a) == [policy |-> LowestOf(CoverFor(PerilOf[a])), peril |-> PerilOf[a],
                   due |-> riskDay + assessment, status |-> "filed", paid |-> 0]
  IN  [c \in DOMAIN claims \cup new |->
         IF c \in new THEN Filed(c[2]) ELSE claims[c]]

AssessmentOver(claim) == claim.status = "filed" /\ claim.due <= riskDay

SettleClaim(claim) ==
  LET paid == Settlement(policies[claim.policy], claim.peril)
  IN  [claim EXCEPT !.status = IF paid > 0 THEN "settled" ELSE "declined", !.paid = paid]
-----------------------------------------------------------------------------
(* Plant: a day's wear, its failures, and the repairs and services begun.  *)

Worn(asset) == [asset EXCEPT !.condition = GreaterOf(0, @ - 1), !.since = @ + 1]

MayFail(a) == plant[a].status = "operational" /\ Worn(plant[a]).condition < FailsBelow

\* Services go down the list while there is time left.
ServicedAssets(broken, services) ==
  LET due == {a \in Plant \ broken : /\ plant[a].status = "operational"
                                     /\ Worn(plant[a]).since >= ServiceEvery}
  IN  {a \in due : Cardinality({b \in due : b < a}) < services}

AssetDay(a, broken, serviced) ==
  LET asset == Worn(plant[a])
  IN  CASE a \in broken -> [asset EXCEPT !.status = "failed"]
        [] asset.status # "operational" ->
             [asset EXCEPT !.status = "operational",
                           !.condition = GreaterOf(@, RepairedCondition)]
        [] a \in serviced ->
             [asset EXCEPT !.condition = LesserOf(NewCondition, @ + ServiceGain), !.since = 0]
        [] OTHER -> asset

\* The quanta between two midnights: a failed asset is being repaired.
BetweenMidnights ==
  /\ \E a \in Plant : plant[a].status = "failed"
  /\ plant' = [a \in Plant |->
       IF plant[a].status = "failed" THEN [plant[a] EXCEPT !.status = "repairing"] ELSE plant[a]]
  /\ UNCHANGED <<policies, claims, rulings, restricted, board, riskDay, coverChanges>>
-----------------------------------------------------------------------------
(* Regulation.                                                             *)

Applicable(rule, dear) == riskDay >= rule.notice /\ (rule.whenDear => dear)

Measured(area, assets, wage) ==
  IF area = "safety" THEN LowestOf({assets[a].condition : a \in Plant}) ELSE wage

EvaluateCompliance(rule, measured) ==
  IF riskDay < rule.effective THEN "inactive"
  ELSE IF measured >= rule.requirement THEN "compliant"
  ELSE IF riskDay < rule.graceEnds THEN "grace" ELSE "noncompliant"

Ruling(rule, dear, assets, wage) ==
  IF Applicable(rule, dear)
  THEN EvaluateCompliance(rule, Measured(rule.area, assets, wage)) ELSE "inactive"

Tracked(dear) == DOMAIN rulings \cup {rule \in Rules : Applicable(rule, dear)}

RulingsAfter(dear, assets, wage) ==
  [rule \in Tracked(dear) |-> Ruling(rule, dear, assets, wage)]

\* A breached rule takes its facility over from whichever held it; one that is
\* met lets go only of what it holds itself.
Enforced(held, rule, verdict) ==
  IF verdict = "noncompliant" THEN WithEntry(held, rule.facility, rule)
  ELSE WithoutEntries(held, {f \in DOMAIN held : held[f] = rule})

RuleAt(n) == CHOOSE rule \in Rules : rule.order = n

\* Rules that no longer apply let go first; the others are taken in order.
RestrictionsAfter(verdicts, dear) ==
  LET Held[n \in 0 .. Cardinality(Rules)] ==
        IF n = 0
        THEN WithoutEntries(restricted,
               {f \in DOMAIN restricted : ~Applicable(restricted[f], dear)})
        ELSE IF Applicable(RuleAt(n), dear)
             THEN Enforced(Held[n - 1], RuleAt(n), verdicts[RuleAt(n)])
             ELSE Held[n - 1]
  IN  Held[Cardinality(Rules)]

\* What stood on the board as of yesterday's ruling: notice is given once, a
\* breach is put up afresh every day, and a rule that is met is taken down.
StatusSoFar(rule) == IF rule \in DOMAIN rulings THEN rulings[rule] ELSE "inactive"

CheckedBoard(dear) ==
  LET down == {rule \in DOMAIN rulings : ~Applicable(rule, dear)}
              \cup {rule \in Rules : Applicable(rule, dear) /\ StatusSoFar(rule) = "compliant"}
      breached == {rule \in Rules : Applicable(rule, dear) /\ StatusSoFar(rule) = "noncompliant"}
      noticed == {rule \in Rules : Applicable(rule, dear) /\ StatusSoFar(rule) = "inactive"}
  IN  [rule \in (DOMAIN board \ down) \cup breached \cup noticed |->
         IF rule \in breached THEN [kind |-> "breach", acknowledged |-> FALSE]
         ELSE IF rule \in DOMAIN board THEN board[rule]
         ELSE [kind |-> "notice", acknowledged |-> FALSE]]

AcknowledgeAlert(rule) ==
  /\ CoverChange
  /\ rule \in DOMAIN board /\ ~board[rule].acknowledged
  /\ board' = [board EXCEPT ![rule].acknowledged = TRUE]
  /\ UNCHANGED <<plant, policies, claims, rulings, restricted, riskDay>>
-----------------------------------------------------------------------------
MonthEnds == riskDay % RiskMonth = 0

Midnight(broken, services, assessment, dear, wage) ==
  LET assets == [a \in Plant |-> AssetDay(a, broken, ServicedAssets(broken, services))]
      filed == FileClaims(broken, assessment)
      verdicts == RulingsAfter(dear, assets, wage)
      checked == CheckedBoard(dear)
  IN  /\ riskDay' = riskDay + 1
      /\ plant' = assets
      /\ claims' = [c \in DOMAIN filed |->
                      IF AssessmentOver(filed[c]) THEN SettleClaim(filed[c]) ELSE filed[c]]
      /\ rulings' = IF MonthEnds THEN verdicts ELSE rulings
      /\ restricted' = IF MonthEnds THEN RestrictionsAfter(verdicts, dear) ELSE restricted
      /\ board' = IF MonthEnds
                  THEN WithoutEntries(checked,
                         {rule \in DOMAIN rulings : ~Applicable(rule, dear)})
                  ELSE checked
      /\ UNCHANGED <<policies, coverChanges>>

RiskNext ==
  \/ \E id \in Policies :
       \/ \E peril \in Perils, value, limit, deductible \in Sums :
            TakeOutPolicy(id, peril, value, limit, deductible)
       \/ \E limit, deductible \in Sums : VaryPolicy(id, limit, deductible)
       \/ CancelPolicy(id)
  \/ BetweenMidnights
  \/ \E rule \in Rules : AcknowledgeAlert(rule)
  \/ /\ riskDay < MaxRiskDays
     /\ \E broken \in SUBSET {a \in Plant : MayFail(a)}, services \in 0 .. MaxServices,
           assessment \in Assessments, dear \in BOOLEAN,
           wage \in IF MonthEnds THEN {0, 1} ELSE {0} :
          Midnight(broken, services, assessment, dear, wage)

RiskSpec == RiskInit /\ [][RiskNext]_riskVars
-----------------------------------------------------------------------------
(* Properties.                                                             *)

\* A claim that waits for its assessor has a policy to be settled under, which
\* insures what happened: settleClaim reads it without looking
\* (insurance.ts: cancelPolicy, settleClaim).
ClaimsFindTheirPolicy ==
  \A c \in DOMAIN claims :
    claims[c].status = "filed" =>
      /\ claims[c].policy \in DOMAIN policies
      /\ policies[claims[c].policy].peril = claims[c].peril

\* A facility is held back exactly while a rule about it stands breached, and
\* by such a rule, whichever order rules are breached, met and withdrawn in
\* (GameSimulation.runComplianceEvaluation).
RestrictionsAreBreaches ==
  /\ \A rule \in DOMAIN rulings :
       rulings[rule] = "noncompliant" => rule.facility \in DOMAIN restricted
  /\ \A f \in DOMAIN restricted :
       rulings[restricted[f]] = "noncompliant" /\ restricted[f].facility = f

\* A breach on the board is one the last evaluation found, or was yesterday:
\* the evaluation comes after the day's check (GameSimulation.checkComplianceAlerts).
BreachesShownAreReal ==
  \A rule \in DOMAIN board :
    board[rule].kind = "breach" =>
      /\ rule \in DOMAIN rulings
      /\ rulings[rule] = "noncompliant" \/ (riskDay - 1) % RiskMonth = 0

\* Claims, restrictions and alerts all answer for what they say.
RisksAreAnswered ==
  ClaimsFindTheirPolicy /\ RestrictionsAreBreaches /\ BreachesShownAreReal
=============================================================================
