------------------------------- MODULE Story -------------------------------
(***************************************************************************)
(* The story of a career (game/narrative, game/people, game/milestones,    *)
(* game/chronicle and campaign/careerOutcome.ts), as the month's close and *)
(* the player's commands move it: stories raised and answered, bets placed *)
(* and answered years later, the people the company remembers, milestones, *)
(* and the reading of where the career stands.                             *)
(*                                                                         *)
(* Whether a story's conditions hold, what the frequency draw says, how    *)
(* liquid the company is and which measures it has left are facts of other *)
(* parts of the state: each is any value of its kind, month by month.      *)
(***************************************************************************)
EXTENDS Integers, FiniteSets

CONSTANTS Tales,          \* the story definitions
          BetTale,        \* the definition whose choice "invest" is a bet
          ChoicesOf,      \* [Tales -> sets of choices]
          CooldownOf,     \* [Tales -> months]
          BetMonths,      \* OPPORTUNITY_YEARS
          People,         \* staff ids
          ReviewMonth,    \* the first month of 2026
          MaxStoryMonths  \* a bound on the run

ASSUME StoryAssumption ==
    /\ BetTale \in Tales
    /\ CooldownOf \in [Tales -> Nat]
    /\ BetMonths \in Nat \ {0}
    /\ {ReviewMonth, MaxStoryMonths} \subseteq Nat

VARIABLES
    storyMonth,   \* the calendar, in months closed
    told,         \* every story raised, with the month: narrative.<date>.<id>
    activeTales,  \* narrative.activeEvents
    lastFired,    \* narrative.lastFiredByDefinition
    bets,         \* narrative.opportunities
    stakes,       \* ledger entries on "investment": stakes paid, returns earned
    chronicle,    \* the ids of narrative.chronicle
    milestones,   \* narrative.achievedMilestones
    people,       \* narrative.keyPeople, by staff id
    onDuty,       \* the staff whose employment has status "working"
    career        \* narrative.career

storyVars == << storyMonth, told, activeTales, lastFired, bets, stakes, chronicle,
                milestones, people, onDuty, career >>

NoMonth == -1
NoRecord == [months |-> 0, active |-> FALSE]

Told(d, m) == [tale |-> d, month |-> m]
ChoiceEntry(s, c) == [kind |-> "choice", story |-> s, choice |-> c]
BetEntry(s) == [kind |-> "bet", story |-> s, choice |-> "resolved"]
MilestoneEntry(id) == [kind |-> "milestone", story |-> id, choice |-> "achieved"]

(* assessCareerOutcome: distress, and an end only where no measure is left. *)
Assessed(distressed, measures, m, endless) ==
    LET distress == IF ~distressed THEN "healthy"
                    ELSE IF measures THEN "recoverable" ELSE "terminal"
    IN  [distress |-> distress, review |-> m >= ReviewMonth,
         endless |-> endless, ended |-> distress = "terminal"]

StoryInit ==
    /\ storyMonth = 0
    /\ told = {} /\ activeTales = {} /\ bets = {} /\ chronicle = {} /\ milestones = {}
    /\ lastFired = [d \in Tales |-> NoMonth]
    /\ stakes = [paid |-> 0, returned |-> 0]
    /\ people = [p \in People |-> NoRecord]
    /\ onDuty \in SUBSET People
    /\ career = Assessed(FALSE, TRUE, 0, FALSE)

(***************************************************************************)
(* The month.                                                              *)
(***************************************************************************)
(* detectMilestones: each is found once. *)
Found(m, profitable, second) ==
    { id \in {"first-profitable-year", "second-hotel", "career-2026"} :
        /\ id \notin milestones
        /\ CASE id = "first-profitable-year" -> profitable
             [] id = "second-hotel"          -> second
             [] id = "career-2026"           -> m > ReviewMonth }

(* refreshKeyPeople: a month in the job for who works, and nothing forgotten
   of who does not. Scores are read off the months. The ladder starts at the
   role "receptionist", which no member of staff has: nobody is promoted. *)
KeyPeople ==
    [p \in People |-> IF p \in onDuty
                      THEN [months |-> people[p].months + 1, active |-> TRUE]
                      ELSE [people[p] EXCEPT !.active = FALSE]]

DueBets(m) == { b \in bets : b.status = "invested" /\ b.due <= m }

(* A slip: the cooldown alone, and not the stories still open. *)
MayBeRaisedWhileOpen(d, m) == lastFired[d] # NoMonth => m - lastFired[d] >= CooldownOf[d]

(* eligibleEvents and the filter on stories still open. *)
MayBeRaised(d, m) ==
    /\ lastFired[d] # NoMonth => m - lastFired[d] >= CooldownOf[d]
    /\ ~ \E s \in activeTales : s.tale = d

Raise(d, m) ==
    /\ activeTales' = activeTales \cup {Told(d, m)}
    /\ told' = told \cup {Told(d, m)}
    /\ lastFired' = [lastFired EXCEPT ![d] = m]

(* closeMonth's milestones, runNarrativeMonth, refreshCareerOutcome. The
   conditions of a story and the frequency draw decide which of the stories
   that may be raised is, if any. *)
StoryMonth ==
    /\ storyMonth < MaxStoryMonths
    /\ LET m   == storyMonth + 1
           due == DueBets(m)
       IN  /\ storyMonth' = m
           /\ people' = KeyPeople
           /\ bets' = (bets \ due) \cup { [b EXCEPT !.status = "resolved"] : b \in due }
           /\ stakes' = [stakes EXCEPT !.returned = @ + Cardinality(due)]
           /\ \E found \in { Found(m, profitable, second) : profitable, second \in BOOLEAN } :
                /\ milestones' = milestones \cup found
                /\ chronicle' = chronicle \cup { MilestoneEntry(id) : id \in found }
                                          \cup { BetEntry(b.story) : b \in due }
           /\ \/ UNCHANGED << told, activeTales, lastFired >>
              \/ \E d \in Tales : MayBeRaised(d, m) /\ Raise(d, m)
           /\ career' \in { Assessed(distressed, measures, m, career.endless) :
                             distressed, measures \in BOOLEAN }
           /\ UNCHANGED onDuty

(***************************************************************************)
(* The player.                                                             *)
(***************************************************************************)
(* RESOLVE_NARRATIVE_EVENT: validateNarrativeChoice, resolveNarrativeChoice.
   A bet falls due on the same day of its month BetMonths later: at that
   month's first close if the day is the first, otherwise at the next. *)
Choose(s, c) ==
    /\ s \in activeTales
    /\ c \in ChoicesOf[s.tale]
    /\ activeTales' = activeTales \ {s}
    /\ chronicle' = chronicle \cup {ChoiceEntry(s, c)}
    /\ IF s.tale = BetTale /\ c = "invest"
       THEN /\ \E late \in {0, 1} :
                 bets' = bets \cup {[story |-> s, status |-> "invested",
                                    due |-> storyMonth + BetMonths + late]}
            /\ stakes' = [stakes EXCEPT !.paid = @ + 1]
       ELSE UNCHANGED << bets, stakes >>
    /\ career' \in { Assessed(distressed, measures, storyMonth, career.endless) :
                      distressed, measures \in BOOLEAN }
    /\ UNCHANGED << storyMonth, told, lastFired, milestones, people, onDuty >>

(* CONTINUE_ENDLESS_CAREER. *)
ContinueEndless ==
    /\ career.review
    /\ career' = [career EXCEPT !.endless = TRUE]
    /\ UNCHANGED << storyMonth, told, activeTales, lastFired, bets, stakes, chronicle,
                    milestones, people, onDuty >>

(* Somebody starts, falls ill, comes back or leaves (Workforce). *)
DutyChanges(p) ==
    /\ onDuty' = IF p \in onDuty THEN onDuty \ {p} ELSE onDuty \cup {p}
    /\ UNCHANGED << storyMonth, told, activeTales, lastFired, bets, stakes, chronicle,
                    milestones, people, career >>

StoryNext ==
    \/ StoryMonth
    \/ \E s \in activeTales : \E c \in ChoicesOf[s.tale] : Choose(s, c)
    \/ ContinueEndless
    \/ \E p \in People : DutyChanges(p)

StorySpec == StoryInit /\ [][StoryNext]_storyVars

(***************************************************************************)
(* What must hold.                                                         *)
(***************************************************************************)
ChoicesMade(s) == { e \in chronicle : e.kind = "choice" /\ e.story = s }

(* Every story told is open or has been answered once, and a definition is
   not told again before its cooldown, nor while its last telling is open. *)
StoriesAreToldOnce ==
    /\ \A s \in told : IF s \in activeTales THEN ChoicesMade(s) = {}
                       ELSE Cardinality(ChoicesMade(s)) = 1
    /\ \A s, t \in told : s.tale = t.tale /\ s.month < t.month =>
            /\ t.month - s.month >= CooldownOf[s.tale]
            /\ s \notin activeTales

(* Every stake comes back exactly once, no earlier than its day and by the
   first close on or after it; the chronicle has the answer of each. *)
BetsAreAnsweredOnce ==
    /\ \A b \in bets : b.status = "resolved" <=> b.due <= storyMonth
    /\ stakes.paid = Cardinality(bets)
    /\ stakes.returned = Cardinality({ b \in bets : b.status = "resolved" })
    /\ \A b \in bets : BetEntry(b.story) \in chronicle <=> b.status = "resolved"

(* What the career remembers hangs together, and endless play is only ever
   chosen after the 2026 review. *)
StoryHolds ==
    /\ StoriesAreToldOnce
    /\ BetsAreAnsweredOnce
    /\ career.endless => storyMonth >= ReviewMonth
=============================================================================
