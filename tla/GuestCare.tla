------------------------------- MODULE GuestCare -------------------------------
(***************************************************************************)
(* What the house does for a guest kept waiting: a wait past the tolerance *)
(* is a complaint, a complaint is answered once by a gesture the desk must *)
(* be there to make, the house able to pay and the manager allowed to      *)
(* give, and goodwill moves with both.  The list of complaints handled is  *)
(* bounded, so what it forgets decides whether a guest is paid twice.      *)
(*                                                                         *)
(* One step is one quantum: runReception serves some of those waiting and  *)
(* lets the others wait, then runSatisfaction goes down the queue.         *)
(***************************************************************************)
EXTENDS Integers, Sequences, FiniteSets, Lists

CONSTANTS
  Parties,          \* bookings whose guests may arrive
  WaitTolerance,        \* quanta a guest waits before complaining
  HandledLimit,     \* complaints remembered as handled
  GestureCost,      \* a tenth of the room charge
  RecoveryLimits,   \* what a manager may be allowed to give
  FullGoodwill,
  ComplaintCosts, FailureCosts, WonBack,  \* what goodwill loses and regains
  CareCash          \* cash at hand

ASSUME CareAssumption ==
  /\ {WaitTolerance, HandledLimit, GestureCost, FullGoodwill, ComplaintCosts,
      FailureCosts, WonBack, CareCash} \subseteq Nat
  /\ RecoveryLimits \subseteq Nat /\ IsFiniteSet(Parties)

VARIABLES
  queue,      \* the reception queue: who waits, and how many quanta so far
  arrived,    \* parties that have come to the desk
  care        \* the record of complaints, gestures, goodwill and money

careVars == <<queue, arrived, care>>

CareInit ==
  /\ queue = <<>> /\ arrived = {}
  /\ care = [handled |-> <<>>, raised |-> [p \in Parties |-> 0],
             given |-> [p \in Parties |-> 0], recoveries |-> <<>>,
             unanswered |-> {}, goodwill |-> FullGoodwill, cash |-> CareCash]

Complains(waiting) == waiting.waited > WaitTolerance
Latest(s, n) == SubSeq(s, (IF Len(s) > n THEN Len(s) - n ELSE 0) + 1, Len(s))

\* Goodwill stays between nothing and everything.
Moved(goodwill, delta) ==
  LET moved == goodwill + delta
  IN  IF moved < 0 THEN 0 ELSE IF moved > FullGoodwill THEN FullGoodwill ELSE moved

\* A slip: the oldest complaints are forgotten, waiting or not.
PruneOldest(handled, waiting) == Latest(handled, HandledLimit)

\* The oldest are forgotten first, but never one whose guest is still waiting.
PruneHandled(handled, waiting) ==
  LET active == {w.party : w \in {v \in ElementsOf(waiting) : Complains(v)}}
      idle == Sifted(handled, ElementsOf(handled) \ active)
      excess == Len(handled) - HandledLimit
      forgotten == ElementsOf(SubSeq(idle, 1, IF excess < Len(idle) THEN excess ELSE Len(idle)))
  IN  IF excess <= 0 THEN handled
      ELSE Sifted(handled, ElementsOf(handled) \ forgotten)

\* A gesture needs somebody at the desk and the money for it; beyond the
\* manager's limit it goes up, and nothing is given.  An accepted one charges
\* goodwill with the failure itself, less what the gesture wins back.
AttemptRecovery(record, party, desk, limit) ==
  IF desk = 0 \/ record.cash < GestureCost
  THEN [record EXCEPT !.unanswered = @ \cup {party}]
  ELSE LET accepted == GestureCost <= limit
           kept == Latest(Append(record.recoveries, <<party, accepted>>), HandledLimit)
       IN  IF ~accepted
           THEN [record EXCEPT !.recoveries = kept, !.unanswered = @ \cup {party}]
           ELSE [record EXCEPT !.recoveries = kept, !.given[party] = @ + GestureCost,
                               !.cash = @ - GestureCost,
                               !.goodwill = Moved(@, WonBack - FailureCosts)]

\* A complaint costs goodwill whether or not anything is done about it.
RaiseComplaint(record, party, waiting, desk, limit) ==
  AttemptRecovery(
    [record EXCEPT !.handled = PruneHandled(Append(@, party), waiting),
                   !.raised[party] = @ + 1,
                   !.goodwill = Moved(@, -ComplaintCosts)],
    party, desk, limit)

RunSatisfaction(record, waiting, desk, limit) ==
  LET After[n \in 0 .. Len(waiting)] ==
        IF n = 0 THEN record
        ELSE IF Complains(waiting[n]) /\ waiting[n].party \notin ElementsOf(After[n - 1].handled)
             THEN RaiseComplaint(After[n - 1], waiting[n].party, waiting, desk, limit)
             ELSE After[n - 1]
  IN  After[Len(waiting)]

\* Guests who arrive join the end of the queue; those served, and those whose
\* booking has fallen away, leave it from anywhere.
RunReception(arriving, leaving) ==
  LET waiting == [i \in DOMAIN queue |-> [queue[i] EXCEPT !.waited = @ + 1]]
      joining == [i \in 1 .. Len(arriving) |-> [party |-> arriving[i], waited |-> 0]]
      all == waiting \o joining
  IN  Sifted(all, {w \in ElementsOf(all) : w.party \notin leaving})

Quantum(arriving, leaving, desk, limit) ==
  LET waiting == RunReception(arriving, leaving)
  IN  /\ NoneTwice(arriving) /\ ElementsOf(arriving) \cap arrived = {}
      /\ leaving \subseteq {queue[i].party : i \in DOMAIN queue}
      /\ queue' = [i \in DOMAIN waiting |->
                     [waiting[i] EXCEPT !.waited = IF @ > WaitTolerance THEN WaitTolerance + 1 ELSE @]]
      /\ arrived' = arrived \cup ElementsOf(arriving)
      /\ care' = RunSatisfaction(care, waiting, desk, limit)

\* Money comes in from elsewhere.
Replenish ==
  /\ care.cash < GestureCost
  /\ care' = [care EXCEPT !.cash = CareCash]
  /\ UNCHANGED <<queue, arrived>>

CareNext ==
  \/ \E n \in 0 .. Cardinality(Parties \ arrived) :
     \E arriving \in [1 .. n -> Parties \ arrived], leaving \in SUBSET arrived,
        desk \in {0, 1}, limit \in RecoveryLimits :
       Quantum(arriving, leaving, desk, limit)
  \/ Replenish

CareSpec == CareInit /\ [][CareNext]_careVars
-----------------------------------------------------------------------------
(* Properties.                                                             *)

\* Nobody complains twice of one wait or is given more than one gesture, and
\* whoever waits past the tolerance has complained, however long the queue is
\* and however short the memory of what was handled
\* (GameSimulation.runSatisfaction, pruneHandledComplaints).
CaredForOnce ==
  /\ \A p \in Parties : care.raised[p] <= 1 /\ care.given[p] <= GestureCost
  /\ \A i \in DOMAIN queue : Complains(queue[i]) => care.raised[queue[i].party] = 1

\* A gesture the house pays for leaves the guests no worse than they were.
GesturesHelp ==
  [][(\E p \in Parties : care'.given[p] > care.given[p] /\ care'.raised = [care.raised EXCEPT ![p] = 1])
       => care'.goodwill >= Moved(care.goodwill, -ComplaintCosts)]_careVars
=============================================================================
