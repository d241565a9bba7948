------------------------------- MODULE MonthClose -------------------------------
(***************************************************************************)
(* The month as it is reported: the nights and takings that add up to it,  *)
(* the report drawn up when it closes, the briefing that says what went    *)
(* well and badly against the month before and the best ever, and the      *)
(* reputation that follows.                                                *)
(*                                                                         *)
(* A stay is [rooms, onTerms, rate]: one booking in the house for a night. *)
(***************************************************************************)
EXTENDS Integers, Sequences, FiniteSets, FiniteSetsExt, SequencesExt

CONSTANTS
  ReportedRooms,
  StayKinds,       \* bookings that may be in the house
  WageBills,       \* what a day's payroll and supplies may cost
  Conferences,     \* what a conference may be worth
  BriefingLimit,   \* 3
  CauseLimit,      \* 16 causes a reputation keeps
  NeutralEsteem, TopEsteem,
  WalkCost, OutageCost,
  Satisfactions,   \* good, middling, bad: what guests thought of the month
  ReportDays,      \* days of a month
  MaxReported, MaxHappenings

Reported == {"revenue", "profit", "event"}
Judged == {"hotel", "employer"}

ASSUME MonthCloseAssumption ==
  /\ {ReportedRooms, BriefingLimit, CauseLimit, ReportDays} \subseteq Nat \ {0}
  /\ WageBills \cup Conferences \cup
       {NeutralEsteem, TopEsteem, WalkCost, OutageCost, MaxReported, MaxHappenings} \subseteq Nat
  /\ Satisfactions \subseteq {"good", "middling", "bad"}
  /\ NeutralEsteem <= TopEsteem

VARIABLES
  reportDay,
  totals,        \* finance.month
  report,        \* lastMonthlyClose and its briefing; [month |-> 0] before the first
  baseline,      \* monthlyCloseBaseline
  regard,        \* reputation: [dimension -> [score, causes]]
  cityNights,    \* ghost: room nights counted for the city in the month
  past,          \* ghost: the figures of the months reported
  happenings

reportVars == <<reportDay, totals, report, baseline, regard, cityNights, past, happenings>>

NoTotals == [room |-> 0, other |-> 0, event |-> 0, expense |-> 0, sold |-> 0,
             available |-> 0, late |-> 0]

\* The opening day's rooms are there from the start; later days add theirs as they begin.
OpeningTotals == [NoTotals EXCEPT !.available = ReportedRooms]

\* A night's revenue: a booking on terms is one receivable, whatever rooms it has.
Revenue(stay) == IF stay.onTerms THEN stay.rate ELSE stay.rooms * stay.rate

FigureOf(t) ==
  [revenue |-> t.room + t.other, profit |-> t.room + t.other - t.expense, event |-> t.event,
   late |-> t.late]
-----------------------------------------------------------------------------
(* The briefing: deriveMonthlyBriefing.                                    *)

Size(item) == IF item.amount < 0 THEN -item.amount ELSE item.amount

\* The heaviest first, then by the name of the line; three at most.
LineRank ==
  [event |-> [change |-> 1, record |-> 2], late |-> [change |-> 3],
   profit |-> [record |-> 4, change |-> 5], revenue |-> [change |-> 6, record |-> 7]]

Heavier(a, b) ==
  \/ Size(a) > Size(b)
  \/ Size(a) = Size(b) /\ LineRank[a.figure][a.kind] < LineRank[b.figure][b.kind]

Ranked(items) ==
  LET Heaviest(S) == CHOOSE x \in S : \A y \in S \ {x} : Heavier(x, y)
      TakeHeaviest(r, n) ==
        IF r.left = {} THEN r
        ELSE LET x == Heaviest(r.left)
             IN  [list |-> Append(r.list, x), left |-> r.left \ {x}]
  IN  FoldLeftDomain(TakeHeaviest, [list |-> <<>>, left |-> items], [n \in 1 .. BriefingLimit |-> n]).list

\* Each figure that moved; fewer late rooms is better.
Movements(now, before) ==
  {[figure |-> f, kind |-> "change", amount |-> now[f] - before[f]] :
     f \in {g \in DOMAIN now : now[g] # before[g]}}

Favourable(item) == IF item.figure = "late" THEN item.amount < 0 ELSE item.amount > 0

NewBests(now, marks) ==
  {[figure |-> f, kind |-> "record", amount |-> now[f]] : f \in {g \in Reported : now[g] > marks[g]}}

Briefing(now) ==
  LET changes == IF baseline.first THEN {} ELSE Movements(now, baseline.previous)
  IN  [well |-> Ranked(NewBests(now, baseline.marks) \cup {c \in changes : Favourable(c)}),
       badly |-> Ranked({c \in changes : ~Favourable(c)})]

Raised(marks, now) == [f \in Reported |-> Max({marks[f], now[f]})]
-----------------------------------------------------------------------------
(* Reputation.                                                             *)

Clamped(n) == Max({0, Min({TopEsteem, n})})

\* applyReputationEvent: the newest causes are kept.
Judging(r, dimension, delta, cause) ==
  LET causes == Append(r[dimension].causes, cause)
  IN  [r EXCEPT ![dimension] =
         [score |-> Clamped(@.score + delta),
          causes |-> SubSeq(causes, Max({1, Len(causes) - CauseLimit + 1}), Len(causes))]]

\* decayReputation: a point towards neutral.
Drifted(r) ==
  [d \in Judged |->
     [r[d] EXCEPT !.score = IF @ > NeutralEsteem THEN @ - 1
                            ELSE IF @ < NeutralEsteem THEN @ + 1 ELSE @]]

JudgedAtClose(satisfaction, absent) ==
  LET guests == Judging(regard, "hotel",
                      CASE satisfaction = "good" -> 2 [] satisfaction = "bad" -> -3 [] OTHER -> 0,
                      "close")
  IN  Drifted(Judging(guests, "employer", IF absent THEN -1 ELSE 1, "rota"))
-----------------------------------------------------------------------------
ReportInit ==
  /\ reportDay = 0 /\ totals = OpeningTotals
  /\ report = [month |-> 0, figures |-> FigureOf(NoTotals), sold |-> 0, available |-> 0,
               well |-> <<>>, badly |-> <<>>]
  /\ baseline = [first |-> TRUE, previous |-> FigureOf(NoTotals),
                 marks |-> [f \in Reported |-> 0]]
  /\ regard = [d \in Judged |-> [score |-> NeutralEsteem, causes |-> <<>>]]
  /\ cityNights = 0 /\ past = <<>> /\ happenings = 0

Happening ==
  /\ happenings < MaxHappenings /\ happenings' = happenings + 1
  /\ UNCHANGED <<reportDay, report, baseline, cityNights, past>>

\* A conference is over and billed.
EndConference(value) ==
  /\ Happening
  /\ totals' = [totals EXCEPT !.other = @ + value, !.event = @ + value]
  /\ UNCHANGED regard

\* Guests arrive and the rooms for them are there, but not clean.
LateRelease == Happening /\ totals' = [totals EXCEPT !.late = @ + 1] /\ UNCHANGED regard

\* A party is walked, or the power fails with guests in the house.
Incident(cost, cause) ==
  /\ Happening /\ regard' = Judging(regard, "hotel", -cost, cause) /\ UNCHANGED totals

RoomsOf(stays) == MapThenSumSet(LAMBDA s : s.rooms, stays)
NightsThatFit == {stays \in SUBSET StayKinds : RoomsOf(stays) <= ReportedRooms}
Closes == (reportDay + 1) % ReportDays = 0

\* Midnight: the nights of the day that ended, its costs; on the first of a month the
\* close, and then the new day's rooms.
EndDay(stays, costs, satisfaction, absent) ==
  LET rooms == RoomsOf(stays)
      night == [totals EXCEPT !.room = @ + MapThenSumSet(Revenue, stays),
                              !.sold = @ + rooms, !.expense = @ + costs]
      now == FigureOf(night)
      said == Briefing(now)
  IN  /\ reportDay' = reportDay + 1
      /\ IF Closes
         THEN /\ report' = [month |-> (reportDay + 1) \div ReportDays, figures |-> now,
                            sold |-> night.sold, available |-> night.available,
                            well |-> said.well, badly |-> said.badly]
              /\ baseline' = [first |-> FALSE, previous |-> now,
                              marks |-> Raised(baseline.marks, now)]
              /\ regard' = JudgedAtClose(satisfaction, absent)
              /\ totals' = [NoTotals EXCEPT !.available = ReportedRooms]
              /\ cityNights' = 0 /\ past' = Append(past, now)
         ELSE /\ totals' = [night EXCEPT !.available = @ + ReportedRooms]
              /\ cityNights' = cityNights + rooms
              /\ UNCHANGED <<report, baseline, regard, past>>
      /\ UNCHANGED happenings

ReportNext ==
  \/ \E value \in Conferences : EndConference(value)
  \/ LateRelease
  \/ Incident(WalkCost, "walk") \/ Incident(OutageCost, "outage")
  \* Guests and rota are asked after at the close alone.
  \/ /\ reportDay < MaxReported * ReportDays
     /\ \E stays \in NightsThatFit, costs \in WageBills,
           satisfaction \in IF Closes THEN Satisfactions ELSE {"middling"},
           absent \in IF Closes THEN BOOLEAN ELSE {FALSE} :
          EndDay(stays, costs, satisfaction, absent)

ReportSpec == ReportInit /\ [][ReportNext]_reportVars
-----------------------------------------------------------------------------
(* Properties.                                                             *)

\* No report has sold more nights than there were, from the first month on: the rooms of
\* a night are added at the midnight before it, the night itself at the one after.
SoldWithinAvailable ==
  /\ totals.sold <= totals.available
  /\ report.sold <= report.available

\* A record is better than every month before, and one that stands is told of unless
\* three heavier things are.
RecordsAreBroken ==
  \A f \in Reported :
    LET told == \E i \in DOMAIN report.well : report.well[i].figure = f /\ report.well[i].kind = "record"
        broken == past # <<>> /\ report.figures[f] > 0
                    /\ \A m \in 1 .. (Len(past) - 1) : report.figures[f] > past[m][f]
    IN  /\ told => broken
        /\ broken => told \/ Len(report.well) = BriefingLimit

\* What is said to have gone well or badly against the month before did.
BriefingIsTrue ==
  Len(past) > 1 =>
    LET before == past[Len(past) - 1] now == past[Len(past)]
        Better(f) == IF f = "late" THEN now[f] < before[f] ELSE now[f] > before[f]
    IN  /\ \A i \in DOMAIN report.well : report.well[i].kind = "change" => Better(report.well[i].figure)
        /\ \A i \in DOMAIN report.badly : ~Better(report.badly[i].figure) /\ now[report.badly[i].figure] # before[report.badly[i].figure]

ReportHolds == SoldWithinAvailable /\ RecordsAreBroken /\ BriefingIsTrue

\* Every room that is slept in is paid for: it is not, for of a booking on terms with two
\* rooms one night is entered, while two are counted (GameSimulation.ts:3366).
EveryRoomIsPaid ==
  LET cheapest == Min({s.rate : s \in StayKinds})
  IN  totals.room >= totals.sold * cheapest
=============================================================================
