---------------------------------- MODULE Scene ----------------------------------
(***************************************************************************)
(* The house as the worker describes it to whoever draws it: the floor     *)
(* plan made from the rooms, where every guest and every member of staff   *)
(* is at this minute and by which way they came, the lift cars, the round  *)
(* a housekeeper walks.  All of it is made anew at the end of a quantum    *)
(* from the state as it is then; only the plan and the place of a lift     *)
(* that stands still come from the description before.                     *)
(*                                                                         *)
(* Rooms are numbers in the order of their ids, places are <<kind, floor   *)
(* or room>>.  A day has a few quanta only: Morning, Noon, Evening and     *)
(* Night are the minutes guests change what they do.                       *)
(***************************************************************************)
EXTENDS Integers, Sequences, FiniteSets, FiniteSetsExt, SequencesExt

CONSTANTS
  FirstRooms, LastRoom,     \* rooms at the start, and at most
  PerFloor, PerWing,
  LiftCars,
  TripMinutes,              \* ELEVATOR_TRIP_MINUTES
  QuantumMinutes, Transit,         \* minutes of a quantum, and of a guest's way
  Morning, Noon, Dusk, Night, DayMinutes,
  Seats, SeatsOfATable, MaxTables,   \* of the restaurant
  RoomsOfParty,                  \* [booking -> rooms it takes]
  Crew,                     \* [member of staff -> role]
  MaxChanges, MaxShown      \* bounds: changes of the house, quanta

SceneRooms == 1 .. LastRoom
Bookings == DOMAIN RoomsOfParty

ASSUME SceneAssumption ==
  /\ {LastRoom, PerFloor, PerWing, LiftCars, TripMinutes, QuantumMinutes} \subseteq Nat \ {0}
  /\ {Seats, SeatsOfATable, MaxTables} \subseteq Nat \ {0}
  /\ FirstRooms \in SceneRooms
  /\ 0 < Morning /\ Morning < Noon /\ Noon < Dusk /\ Dusk < Night /\ Night < DayMinutes
  /\ RoomsOfParty \in [Bookings -> SceneRooms]
  /\ {Transit, MaxChanges, MaxShown} \subseteq Nat

VARIABLES
  scenery,       \* what is described: rooms, dirty and broken ones, those under renovation,
                 \* stays, queue, the absent, the lift, guests served
  clock,         \* elapsed minutes
  floorPlan,     \* renderDescriptors.floorPlan: the rooms it was made of
  figures,       \* renderDescriptors.agents
  cars,          \* renderDescriptors.elevator.cars
  situations,    \* renderDescriptors.situations: desks, dirty, round, faults, tables
  fresh,         \* ghost: nothing has changed since the description was made
  before,        \* ghost: the cars of the description before
  changes

sceneVars == <<scenery, clock, floorPlan, figures, cars, situations, fresh, before, changes>>

NoRound == [agent |-> 0, at |-> <<"nowhere", 0>>, target |-> 0, route |-> <<>>]
-----------------------------------------------------------------------------
(* The floor plan: generateFloorPlan.                                      *)

FloorOf(r) == ((r - 1) \div PerFloor) + 1
OnFloor(r) == (r - 1) % PerFloor

\* Two wings, the second numbered back.
SpotOf(r) ==
  LET inWing == OnFloor(r) % PerWing
  IN  [floor |-> FloorOf(r),
       x |-> IF OnFloor(r) < PerWing THEN inWing ELSE PerWing - 1 - inWing,
       y |-> IF OnFloor(r) < PerWing THEN 0 ELSE 4]

TopFloor(rooms) == Max({0} \cup {FloorOf(r) : r \in rooms})

Lobby == <<"lobby", 0>>
Queue == <<"queue", 0>>
Door(r) == <<"door", r>>
Room(r) == <<"room", r>>
Corridor(f) == <<"corridor", f>>
Lift(f) == <<"elevator", f>>
Stairs(f) == <<"stairs", f>>

Nodes(rooms) ==
  {Lobby, Queue}
    \cup {<<kind, f>> : kind \in {"corridor", "elevator", "stairs"}, f \in 0 .. TopFloor(rooms)}
    \cup {<<kind, r>> : kind \in {"room", "door"}, r \in rooms}

\* Doors are on the corridor's side of their rooms.
PlaceOf(node) ==
  CASE node[1] = "room" -> SpotOf(node[2])
    [] node[1] = "door" -> [SpotOf(node[2]) EXCEPT !.y = IF @ = 0 THEN 1 ELSE 3]
    [] node[1] = "corridor" -> [floor |-> node[2], x |-> 3, y |-> 2]
    [] node[1] = "elevator" -> [floor |-> node[2], x |-> 6, y |-> 2]
    [] node[1] = "stairs" -> [floor |-> node[2], x |-> 7, y |-> 2]
    [] node = Lobby -> [floor |-> 0, x |-> 0, y |-> 2]
    [] OTHER -> [floor |-> 0, x |-> 1, y |-> 2]

GroundAreas ==
  {"reception", "breakfast", "kitchen", "maintenance", "bar", "conference", "restaurant",
   "housekeeping", "laundry", "staff area", "security", "wellness", "fitness", "storage"}

\* positionMapForPlan: what can be drawn has a position.
HasPosition(at, rooms) ==
  at \in Nodes(rooms) \/ at \in {<<"area", place>> : place \in GroundAreas}

Links(node, rooms) ==
  LET f == node[2]
  IN  CASE node[1] = "corridor" ->
             {Door(r) : r \in {q \in rooms : FloorOf(q) = f}} \cup {Stairs(f), Lift(f)}
               \cup (IF f = 0 THEN {Lobby, Queue} ELSE {})
        [] node[1] \in {"elevator", "stairs"} ->
             {Corridor(f)} \cup ({<<node[1], f - 1>>, <<node[1], f + 1>>} \cap Nodes(rooms))
        [] node[1] = "room" -> {Door(f)}
        [] node[1] = "door" -> {Room(f), Corridor(FloorOf(f))}
        [] node[1] = "lobby" -> {Corridor(0), Queue}
        [] OTHER -> {Corridor(0), Lobby}
-----------------------------------------------------------------------------
(* People: describeAgentLocations.                                         *)

\* Where guests of a room are at this minute, and since when.
Activity(r, minute) ==
  CASE Morning <= minute /\ minute < Noon -> [at |-> <<"area", "breakfast">>, since |-> Morning]
    [] Noon <= minute /\ minute < Dusk -> [at |-> Lobby, since |-> Noon]
    [] Dusk <= minute /\ minute < Night -> [at |-> <<"area", "bar">>, since |-> Dusk]
    [] OTHER -> [at |-> Room(r), since |-> Night]

WayDown(r, destination) ==
  IF destination = Room(r) THEN <<Room(r)>>
  ELSE <<Room(r), Door(r), Corridor(FloorOf(r)), Lift(FloorOf(r)), Lift(0), Corridor(0),
         destination>>

Waiting(b) ==
  [id |-> <<"agent", b>>, kind |-> "guest", at |-> Queue, route |-> <<Lobby, Queue>>]

\* On the way, two minutes a node, for as long as the way takes.
Guest(stay, minute) ==
  LET doing == Activity(stay.room, minute)
      route == WayDown(stay.room, doing.at)
      walked == minute - doing.since
  IN  [id |-> <<"agent", stay.booking>>, kind |-> "guest", route |-> route,
       at |-> IF 0 <= walked /\ walked < Transit
              THEN route[Min({Len(route), (walked \div 2) + 1})] ELSE doing.at]

AreaOf(role) ==
  CASE role \in {"reception", "housekeeping", "kitchen", "laundry", "wellness", "security"} -> role
    [] role = "technician" -> "maintenance"
    [] role = "fnb" -> "bar"
    [] OTHER -> "staff area"

PlaceOfWork(m) ==
  IF m \in scenery.absent THEN <<"outside", 0>> ELSE <<"area", AreaOf(Crew[m])>>

Member(m) ==
  [id |-> <<"staff", m>>, kind |-> "staff", at |-> PlaceOfWork(m), route |-> <<PlaceOfWork(m)>>]

\* Guests at the desk are not in their rooms as well.  A party of several rooms has
\* one entry for each, all of one id.
Described(minute) ==
  {Waiting(b) : b \in scenery.queue}
    \cup {Guest(s, minute) : s \in {t \in scenery.stays : t.booking \notin scenery.queue}}
    \cup {Member(m) : m \in DOMAIN Crew}
-----------------------------------------------------------------------------
(* Lift cars: describeLiftCars.                                            *)

\* A car in use goes up and down by the clock, one after the other; one that is not,
\* stays where the last description left it.  A floor is 100 of position.
Car(i, at, top) ==
  LET moving == scenery.trips /\ ~scenery.failed /\ top > 0
      leg == ((at \div TripMinutes) + i - 1) % Max({1, 2 * top})
      up == moving /\ leg < top
      held == IF i \in DOMAIN cars THEN Min({top, cars[i].floor}) ELSE (i - 1) % (top + 1)
      floor == IF ~moving THEN held ELSE IF up THEN leg ELSE 2 * top - leg
      progress == ((at % TripMinutes) * 100) \div TripMinutes
  IN  [floor |-> floor,
       target |-> IF ~moving THEN floor ELSE IF up THEN floor + 1 ELSE floor - 1,
       moving |-> moving,
       position |-> IF moving THEN 100 * floor + (IF up THEN progress ELSE -progress)
                    ELSE IF i \in DOMAIN cars THEN Min({100 * top, cars[i].position})
                    ELSE 100 * floor]
-----------------------------------------------------------------------------
(* The housekeeper's round: describeOperationalSituations.                 *)

Housekeepers == {m \in DOMAIN Crew : Crew[m] = "housekeeping" /\ m \notin scenery.absent}
WayUp(r) ==
  <<<<"area", "housekeeping">>, Corridor(0), Lift(0), Lift(FloorOf(r)), Corridor(FloorOf(r)),
    Door(r), Room(r)>>

\* The first dirty room, and the first housekeeper who is there, a node a quantum.
Round(at) ==
  IF Housekeepers = {} \/ scenery.dirty = {} THEN NoRound
  ELSE LET r == Min(scenery.dirty)
           route == WayUp(r)
       IN  [agent |-> CHOOSE m \in Housekeepers : \A n \in Housekeepers : m <= n,
            target |-> r, route |-> route, at |-> route[((at \div QuantumMinutes) % Len(route)) + 1]]

\* One desk for every receptionist there is, staffed by those who have come.
DeskLoads ==
  LET reception == {m \in DOMAIN Crew : Crew[m] = "reception"}
      working == Cardinality(reception \ scenery.absent)
  IN  [d \in 1 .. Max({1, Cardinality(reception)}) |-> d <= working]

\* Guests sit down table by table.
Tables(served) ==
  LET tables == Min({MaxTables, (Seats + SeatsOfATable - 1) \div SeatsOfATable})
      each == (Seats + tables - 1) \div tables
      taken == Min({served, Seats})
  IN  [t \in 1 .. tables |->
         [seats |-> Min({each, Seats - (t - 1) * each}),
          occupied |-> Max({0, Min({each, taken - (t - 1) * each})})]]

\* A room that is out of order and not under renovation has a fault to show: the first
\* asset that has failed, whatever it is, or none that is known.
Faults ==
  [r \in scenery.broken \ scenery.works |-> IF scenery.failed THEN "lift" ELSE "unavailable"]

Situations(at) ==
  [desks |-> DeskLoads,
   dirty |-> [f \in {FloorOf(r) : r \in scenery.dirty} |-> {r \in scenery.dirty : FloorOf(r) = f}],
   round |-> Round(at), faults |-> Faults, tables |-> Tables(scenery.served),
   excess |-> Max({0, scenery.served - Seats})]

\* The one who walks the round is drawn on it.
OnRound(agents, walk) ==
  {IF a.id = <<"staff", walk.agent>> THEN [a EXCEPT !.at = walk.at, !.route = walk.route]
   ELSE a : a \in agents}
-----------------------------------------------------------------------------
SceneInit ==
  /\ scenery = [rooms |-> 1 .. FirstRooms, dirty |-> {}, broken |-> {}, works |-> {},
              stays |-> {}, queue |-> {}, served |-> 0, absent |-> {}, failed |-> FALSE, trips |-> FALSE]
  /\ clock = Morning - QuantumMinutes
  /\ floorPlan = 1 .. FirstRooms
  /\ figures = {} /\ cars = <<>> /\ situations = <<>>
  /\ fresh = FALSE /\ before = <<>> /\ changes = 0

\* refreshRenderDescriptors at the end of a quantum: the plan only when the rooms are
\* others than those it was made of.
RefreshDescriptors ==
  LET at == clock + QuantumMinutes
      top == TopFloor(scenery.rooms)
      seen == Situations(at)
  IN  /\ clock < Morning + QuantumMinutes * MaxShown
      /\ clock' = at
      /\ floorPlan' = scenery.rooms
      /\ cars' = [i \in 1 .. LiftCars |-> Car(i, at, top)]
      /\ before' = cars
      /\ situations' = seen
      /\ figures' = OnRound(Described(at % DayMinutes), seen.round)
      /\ fresh' = TRUE
      /\ UNCHANGED <<scenery, changes>>

\* What the phases of a quantum change, before the description is made of it.
Change(changed) ==
  /\ changes < MaxChanges /\ changes' = changes + 1
  /\ changed # scenery /\ scenery' = changed
  /\ fresh' = FALSE
  /\ UNCHANGED <<clock, floorPlan, figures, cars, situations, before>>

FreeRooms == scenery.rooms \ (scenery.broken \cup {s.room : s \in scenery.stays})

Arrives(b) ==
  /\ ~\E s \in scenery.stays : s.booking = b
  /\ Change([scenery EXCEPT !.queue = @ \cup {b}])

\* A party gets all its rooms at once; guests in the house use the lift.
GetsRooms(b) ==
  LET free == FreeRooms \ scenery.dirty
  IN  /\ b \in scenery.queue
      /\ \E given \in kSubset(RoomsOfParty[b], free) :
           Change([scenery EXCEPT !.queue = @ \ {b}, !.trips = TRUE,
                                !.stays = @ \cup {[booking |-> b, room |-> r] : r \in given}])

Leaves(b) ==
  LET rooms == {s.room : s \in {t \in scenery.stays : t.booking = b}}
  IN  /\ rooms # {}
      /\ Change([scenery EXCEPT !.stays = {s \in @ : s.booking # b}, !.dirty = @ \cup rooms,
                              !.trips = TRUE])

RoomIsCleaned(r) == Change([scenery EXCEPT !.dirty = @ \ {r}])

\* A room breaks, or is taken for a renovation; a finished room is one to clean.
RoomFails(r) == Change([scenery EXCEPT !.broken = @ \cup {r}, !.dirty = @ \ {r}])
RoomIsTaken(r) ==
  Change([scenery EXCEPT !.broken = @ \cup {r}, !.works = @ \cup {r}, !.dirty = @ \ {r}])
RoomIsBack(r) ==
  Change([scenery EXCEPT !.broken = @ \ {r}, !.works = @ \ {r}, !.dirty = @ \cup {r}])

Serves(n) == Change([scenery EXCEPT !.served = n])
LiftFailsOrWorks == Change([scenery EXCEPT !.failed = ~@])
TripsStartAnew == Change([scenery EXCEPT !.trips = FALSE])
ComesOrStaysAway(m) ==
  Change([scenery EXCEPT !.absent = IF m \in @ THEN @ \ {m} ELSE @ \cup {m}])

\* An extension is finished: its rooms get the next numbers.
RoomIsAdded ==
  /\ Max(scenery.rooms) < LastRoom
  /\ Change([scenery EXCEPT !.rooms = @ \cup {Max(@) + 1}])

SceneNext ==
  \/ RefreshDescriptors
  \/ \E b \in Bookings : Arrives(b) \/ GetsRooms(b) \/ Leaves(b)
  \/ \E r \in scenery.dirty : RoomIsCleaned(r)
  \/ \E r \in FreeRooms : RoomFails(r) \/ RoomIsTaken(r)
  \/ \E r \in scenery.broken : RoomIsBack(r)
  \/ \E n \in {0, Seats - 1, Seats + 1} : Serves(n)
  \/ LiftFailsOrWorks
  \/ TripsStartAnew
  \/ \E m \in DOMAIN Crew : ComesOrStaysAway(m)
  \/ RoomIsAdded

SceneSpec == SceneInit /\ [][SceneNext]_sceneVars
-----------------------------------------------------------------------------
(* Properties.                                                             *)

SumOf(pairs) == FoldSet(LAMBDA pair, sum : pair[2] + sum, 0, pairs)

ReachedFrom(start, rooms) ==
  FoldLeft(LAMBDA found, n : found \cup UNION {Links(node, rooms) : node \in found},
           {start}, [n \in 1 .. 2 * TopFloor(rooms) + 6 |-> n])

\* The plan is of the rooms there are, each at a place of its own, and from the lobby one
\* gets to all of them and back, however many the house has grown to.
PlanHoldsTheHouse ==
  fresh =>
    /\ floorPlan = scenery.rooms
    /\ Cardinality({PlaceOf(n) : n \in Nodes(floorPlan)}) = Cardinality(Nodes(floorPlan))
    /\ ReachedFrom(Lobby, floorPlan) = Nodes(floorPlan)
    /\ \A n \in Nodes(floorPlan) : \A m \in Links(n, floorPlan) : n \in Links(m, floorPlan)

\* Two places of a way are next to one another: linked, an area off the ground floor's
\* corridor, or floors of the lift.
NextTo(p, q) ==
  \/ q \in Links(p, floorPlan)
  \/ {p, q} \cap {Corridor(0), Lobby} # {} /\ {p[1], q[1]} \cap {"area"} # {}
  \/ p[1] = "elevator" /\ q[1] = "elevator"

\* Whoever is in the house is where the plan has a place, on a way that can be walked;
\* who waits at the desk is nowhere else, and a stay is seen in or on the way from its
\* own room.
EveryoneIsSomewhere ==
  fresh =>
    /\ \A a \in figures :
         /\ HasPosition(a.at, floorPlan) \/ a.at[1] = "outside"
         /\ \A i \in 1 .. (Len(a.route) - 1) : NextTo(a.route[i], a.route[i + 1])
    /\ \A b \in scenery.queue : {a.at : a \in {g \in figures : g.id = <<"agent", b>>}} = {Queue}
    /\ \A s \in scenery.stays : s.booking \notin scenery.queue =>
         \E a \in figures : a.id = <<"agent", s.booking>> /\ a.route[1] = Room(s.room)

\* No car leaves the shaft - a save with one outside is refused - and one that stands,
\* for want of trips or because the lift has failed, stands where it was seen last.
CarsKeepToTheShaft ==
  \A i \in DOMAIN cars :
    /\ {cars[i].floor, cars[i].target} \subseteq 0 .. TopFloor(floorPlan)
    /\ cars[i].position \in 0 .. 100 * TopFloor(floorPlan)
    /\ ~cars[i].moving /\ i \in DOMAIN before =>
         cars[i].position = before[i].position /\ cars[i].floor = before[i].floor

\* What is seen at work is so: every dirty room on its floor, a fault for every room that
\* is out of order with no works in it, a seat for every guest served as far as there are
\* seats, no more desks staffed than people came, and a round walked by somebody who has
\* come to work, to a room that is dirty.
TakenSeats == SumOf({<<t, situations.tables[t].occupied>> : t \in DOMAIN situations.tables})
AllSeats == SumOf({<<t, situations.tables[t].seats>> : t \in DOMAIN situations.tables})
SituationsAreSo ==
  fresh =>
    /\ UNION {situations.dirty[f] : f \in DOMAIN situations.dirty} = scenery.dirty
    /\ DOMAIN situations.faults \cup scenery.works = scenery.broken
    /\ AllSeats = Seats /\ TakenSeats = Min({Seats, scenery.served})
    /\ \A t \in DOMAIN situations.tables :
         situations.tables[t].occupied <= situations.tables[t].seats
    /\ situations.round # NoRound =>
         LET round == situations.round
         IN  /\ round.agent \notin scenery.absent /\ round.target \in scenery.dirty
             /\ \E a \in figures : a.id = <<"staff", round.agent>> /\ a.at = round.at

SceneHolds ==
  PlanHoldsTheHouse /\ EveryoneIsSomewhere /\ CarsKeepToTheShaft /\ SituationsAreSo

\* A party is one mark in the picture: not one that has several rooms.
OneIdOneMark == \A a, b \in figures : a.id = b.id => a = b

\* Somebody waits for the lift at some time: nobody does, the way is two minutes a node
\* and is looked at every five.
NobodyWaitsForTheLift == \A a \in figures : a.kind = "guest" => a.at[1] # "elevator"

\* A failed lift is not used: the housekeeper's round goes through it all the same.
FailedLiftIsEmpty == fresh /\ scenery.failed => \A a \in figures : a.at[1] # "elevator"
=============================================================================
