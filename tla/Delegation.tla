------------------------------ MODULE Delegation ------------------------------
(***************************************************************************)
(* What may be decided without asking: the limits department heads plan    *)
(* staff within and managers spend within, the questions that come up to   *)
(* the centre when a limit is passed, and the answers.                     *)
(*                                                                         *)
(* A question is <<who, about, month>>; the register is kept in the order  *)
(* of ids, which IdRank gives for who and about.  What a department does   *)
(* is one figure for each thing its head is held to.                       *)
(***************************************************************************)
EXTENDS Integers, Sequences, FiniteSets, Lists

CONSTANTS
  DeskOrder,     \* departments with a head, in the order of ids
  Ceilings,      \* "overtime-cap", "staffing-budget": not to be passed
  Standards,     \* "staffing-reserve", "service-level": not to be fallen short of
  IdRank,        \* [desk, house or kind -> place in the order of ids]
  Figures,       \* limits the player may set
  Doings,        \* what the departments may do on a day: [desk -> [matter -> figure]]
  StartingLimit,
  Allowance,      \* what an approval adds above what was asked for
  Inns,          \* houses with a manager
  StartingCapex, StartingRepair,
  Remedies,      \* what a failed audit costs to put right
  Losses,        \* what a house may lose
  ResolvedKept,  \* 50
  MaxChecks, MaxAskMonths, MaxAnswers

Desks == ElementsOf(DeskOrder)
Matters == Ceilings \cup Standards
Spends == {"capex", "repair"}

\* The four questions of a department, in the order the code asks them.
MatterOrder == <<"overtime-cap", "staffing-reserve", "staffing-budget", "service-level">>

ASSUME DelegationAssumption ==
  /\ DeskOrder \in Seq(Desks) /\ IsFiniteSet(Inns)
  /\ Ceilings \cup Standards \subseteq ElementsOf(MatterOrder)
  /\ IdRank \in [Desks \cup Inns \cup Matters -> Nat]
  /\ \A ids \in {Desks, Inns, Matters} : \A a, b \in ids : IdRank[a] = IdRank[b] => a = b
  /\ Figures \cup Remedies \cup Losses \subseteq Nat
  /\ {StartingCapex, StartingRepair, Allowance, ResolvedKept, MaxChecks,
      MaxAskMonths, MaxAnswers} \subseteq Nat
  /\ StartingLimit \in [Matters -> Nat] /\ Doings \subseteq [Desks -> [Matters -> Nat]]
  /\ Ceilings \cap Standards = {} /\ Desks \cap Inns = {}

VARIABLES
  period,       \* the month
  checks,       \* staffing checks made
  limits,       \* departmentHeadAuthorities: [desk -> [matter -> figure]]
  mandate,      \* [house -> [spend -> limit]]
  register,     \* company.escalations, in the order of ids
  granted,      \* ghost: <<house, month>> of each question money was given on
  waiting,      \* ghost: questions nobody has answered
  answers       \* answers given and limits set

delegationVars == <<period, checks, limits, mandate, register, granted, waiting, answers>>

\* The order of ids: a department's questions before a house's.
IdOf(e) ==
  <<IF e.who \in Desks THEN 0 ELSE 1, IdRank[e.who],
    IF e.about \in Matters THEN IdRank[e.about] ELSE 0, e.month>>

Precedes(k, l) ==
  \/ k[1] < l[1]
  \/ k[1] = l[1] /\ k[2] < l[2]
  \/ k[1] = l[1] /\ k[2] = l[2] /\ k[3] < l[3]
  \/ k[1] = l[1] /\ k[2] = l[2] /\ k[3] = l[3] /\ k[4] < l[4]

Before(a, b) == Precedes(IdOf(a), IdOf(b))

Asked(reg, who, about, at) ==
  \E i \in DOMAIN reg : /\ reg[i].who = who /\ reg[i].month = at
                        /\ who \in Desks => reg[i].about = about

\* Array.sort by id: each question where as many are before it.
InIdOrder(S) ==
  LET rank == [e \in S |-> Cardinality({d \in S : Before(d, e)})]
  IN  [i \in 1 .. Cardinality(S) |-> CHOOSE e \in S : rank[e] = i - 1]

\* Every open question is kept, and the last of the answered ones.
Trim(S) ==
  LET done == {e \in S : e.status # "open"}
  IN  {e \in S : e.status = "open" \/ Cardinality({d \in done : Before(e, d)}) < ResolvedKept}

Lodge(reg, e) == InIdOrder(Trim(ElementsOf(reg) \cup {e}))

\* escalationReason, of a department's figure and of a manager's sum.
Breaches(matter, figure, limit) ==
  IF matter \in Ceilings THEN figure > limit ELSE figure < limit

Exceeds(h, spend, amount) == amount > mandate[h][spend]

Question(who, about, at, figure, limit) ==
  [who |-> who, about |-> about, month |-> at, figure |-> figure, limit |-> limit,
   status |-> "open"]
-----------------------------------------------------------------------------
DelegationInit ==
  /\ period = 0 /\ checks = 0
  /\ limits = [d \in Desks |-> StartingLimit]
  /\ mandate = [h \in Inns |-> [capex |-> StartingCapex, repair |-> StartingRepair]]
  /\ register = <<>> /\ granted = <<>> /\ waiting = {} /\ answers = 0

\* One question of the day, of a department and a matter it is held to.
AskAbout(r, d, m, doing) ==
  IF m \in Matters /\ Breaches(m, doing[d][m], limits[d][m])
     /\ ~Asked(r.register, d, m, period)
  THEN [register |-> Lodge(r.register, Question(d, m, period, doing[d][m], limits[d][m])),
        waiting |-> r.waiting \cup {<<d, m, period>>}]
  ELSE r

\* The register once every department has been asked about every matter.
AfterAsking(doing) ==
  LET n == Len(MatterOrder)
      After[k \in 0 .. Len(DeskOrder) * n] ==
        IF k = 0 THEN [register |-> register, waiting |-> waiting]
        ELSE AskAbout(After[k - 1], DeskOrder[((k - 1) \div n) + 1],
                      MatterOrder[((k - 1) % n) + 1], doing)
  IN  After[Len(DeskOrder) * n]

\* checkStaffingEscalations, at the end of the employment day.
CheckStaffing(doing) ==
  LET after == AfterAsking(doing)
  IN  /\ checks < MaxChecks /\ checks' = checks + 1
      /\ register' = after.register /\ waiting' = after.waiting
      /\ UNCHANGED <<period, limits, mandate, granted, answers>>

\* raiseManagerEscalations, as the month closes: a failed standard first, then a
\* loss, and at most one question of a house a month.
ManagersAsk(failed, lost) ==
  LET spend == [h \in Inns |-> IF failed[h] > 0 THEN "capex" ELSE "repair"]
      sum == [h \in Inns |-> IF failed[h] > 0 THEN failed[h] ELSE lost[h]]
      asking == {h \in Inns : sum[h] > 0 /\ Exceeds(h, spend[h], sum[h])
                              /\ ~Asked(register, h, spend[h], period)}
      questions == {Question(h, spend[h], period, sum[h], mandate[h][spend[h]]) : h \in asking}
  IN  /\ period < MaxAskMonths /\ period' = period + 1
      /\ register' = InIdOrder(ElementsOf(register) \cup questions)
      /\ waiting' = waiting \cup {<<h, spend[h], period>> : h \in asking}
      /\ UNCHANGED <<checks, limits, mandate, granted, answers>>

Answer == answers < MaxAnswers /\ answers' = answers + 1

\* What an approval makes of the department's limit.
Granted(e) ==
  CASE e.about \in Ceilings -> e.figure + Allowance
    [] e.about \in Standards -> e.figure

\* RESOLVE_ESCALATION: money for a house, a new limit for a department.
AnswerEscalation(i, approve) ==
  LET e == register[i]
  IN  /\ Answer /\ e.status = "open"
      /\ register' = [register EXCEPT ![i].status = IF approve THEN "approved" ELSE "rejected"]
      /\ waiting' = waiting \ {<<e.who, e.about, e.month>>}
      /\ granted' = IF approve /\ e.about \in Spends
                    THEN Append(granted, <<e.who, e.month>>) ELSE granted
      /\ limits' = IF approve /\ e.about \in Matters
                   THEN [limits EXCEPT ![e.who][e.about] = Granted(e)] ELSE limits
      /\ UNCHANGED <<period, checks, mandate>>

\* SET_DEPARTMENT_AUTHORITY: the limits it names, the others as they were.
SetDepartmentAuthority(d, m, n) ==
  /\ Answer
  /\ limits' = [limits EXCEPT ![d][m] = n]
  /\ UNCHANGED <<period, checks, mandate, register, granted, waiting>>

\* SET_MANAGER_AUTHORITY.
SetManagerAuthority(h, spend, n) ==
  /\ Answer
  /\ mandate' = [mandate EXCEPT ![h][spend] = n]
  /\ UNCHANGED <<period, checks, limits, register, granted, waiting>>

DelegationNext ==
  \/ \E doing \in Doings : CheckStaffing(doing)
  \/ \E failed \in [Inns -> {0} \cup Remedies], lost \in [Inns -> {0} \cup Losses] :
       ManagersAsk(failed, lost)
  \/ \E i \in DOMAIN register, approve \in BOOLEAN : AnswerEscalation(i, approve)
  \/ \E d \in Desks, m \in Matters, n \in Figures : SetDepartmentAuthority(d, m, n)
  \/ \E h \in Inns, spend \in Spends, n \in Remedies : SetManagerAuthority(h, spend, n)

DelegationSpec == DelegationInit /\ [][DelegationNext]_delegationVars
-----------------------------------------------------------------------------
(* Properties.                                                             *)

\* However many questions have been asked since, one nobody answered is still in
\* the register, and none is in it twice: a manager is not left waiting for
\* nothing (escalation.ts:34).
NobodyIsLeftWaiting ==
  /\ waiting = {<<register[i].who, register[i].about, register[i].month>> :
                  i \in {j \in DOMAIN register : register[j].status = "open"}}
  /\ \A i, j \in DOMAIN register :
       register[i].who = register[j].who /\ register[i].month = register[j].month
         /\ (register[i].who \in Desks => register[i].about = register[j].about) => i = j

\* A house is given money once for what it asked for in a month, however often it is
\* asked and whenever the answer comes: a late second answer cannot overturn a
\* decision already acted on (escalation.ts:130).
GrantedOnce ==
  \A i, j \in DOMAIN granted : granted[i] = granted[j] => i = j

\* The register stays in the order of ids, whoever asks and whatever is answered
\* (escalation.ts:126).
RegisterInOrder ==
  \A i \in 1 .. (Len(register) - 1) : Before(register[i], register[i + 1])

DelegationHolds == NobodyIsLeftWaiting /\ GrantedOnce /\ RegisterInOrder

\* A question answered is not asked again the same month.
AskedOnceAMonth ==
  [][\A i \in DOMAIN register :
       register[i].status # "open" /\ register[i].month = period =>
         Asked(register', register[i].who, register[i].about, register[i].month)]_delegationVars
=============================================================================
