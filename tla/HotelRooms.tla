------------------------------ MODULE HotelRooms ------------------------------
(***************************************************************************)
(* Rooms and the parties that sleep in them: bookings taken against the    *)
(* nights that are left, blocks held for partners, the desk that hands out *)
(* clean rooms, the housekeepers who turn them, outages that take them out *)
(* of order, and a shell that is converted into more of them.              *)
(*                                                                         *)
(* The clock counts quanta; a quantum runs its phases in a fixed order, and *)
(* a phase is an action here (the desk serves one party per action, demand *)
(* asks for one booking per action); a phase that returns at once because  *)
(* of the hour or an empty queue is passed over.  Money, prices and        *)
(* guests' opinions are left out: a request that is refused changes        *)
(* nothing.                                                                *)
(***************************************************************************)
EXTENDS Integers, Sequences, FiniteSets, FiniteSetsExt

CONSTANTS
  Rooms,            \* room ids, in the order of their numbers
  Opened,           \* the rooms there are at the start; the others are added
  CategoryOf,       \* the category of each room
  AccountCategory,  \* the category corporate accounts book
  BlockedCategory,  \* the category conferences sleep in
  None,
  QuantaPerDay,     \* a day in quanta, and the moments of it that matter
  DemandAt,
  CheckoutAt,
  ArrivalAt,
  WalkAfter,        \* quanta a party waits for its rooms before it is walked
  CheckInQuanta,    \* quanta of one receptionist a party takes
  CleanQuanta,      \* quanta of one housekeeper a room takes
  RenovationQuanta, \* planning to acceptance
  OutageQuanta,     \* how long an outage may last
  OverbookingLimit,
  RetentionDays,
  Nights,           \* lengths of stay asked for
  LeadDays,         \* how far ahead a booking is made
  Sizes,            \* rooms a partner, an account or a delegation asks for
  CommandQuanta,    \* bound: the quanta at which the player acts
  Receptionists,    \* bound: how many receptionists may be on duty
  Housekeepers,     \* bound: how many housekeepers may be on duty
  MaxLabour,        \* bound: quanta of housekeeping carried over
  MaxBookings,      \* bound: bookings ever taken
  MaxBlocks,        \* bound: allotments, group blocks and conferences
  MaxOutages,       \* bound: outages
  MaxDay            \* bound: days played

Categories == {CategoryOf[r] : r \in Rooms}
Bookings == 1 .. MaxBookings
Days == 0 .. MaxDay

ASSUME RoomsAssumption ==
  /\ Rooms \subseteq Nat /\ IsFiniteSet(Rooms) /\ Opened \subseteq Rooms
  /\ {AccountCategory, BlockedCategory} \subseteq Categories
  /\ CategoryOf \in [Rooms -> Categories]
  /\ {DemandAt, CheckoutAt, ArrivalAt} \subseteq 1 .. QuantaPerDay - 1
  /\ DemandAt < CheckoutAt /\ CheckoutAt < ArrivalAt
  /\ {QuantaPerDay, WalkAfter, CheckInQuanta, CleanQuanta, RenovationQuanta,
      RetentionDays} \subseteq Nat \ {0}
  /\ CommandQuanta \subseteq 0 .. QuantaPerDay - 1
  /\ OutageQuanta \subseteq 1 .. DemandAt - 1
  /\ Nights \subseteq Nat \ {0} /\ Sizes \subseteq Nat \ {0}
  /\ LeadDays \subseteq Nat /\ Receptionists \subseteq Nat /\ Housekeepers \subseteq Nat
  /\ {OverbookingLimit, MaxLabour, MaxBookings, MaxBlocks, MaxOutages,
      MaxDay} \subseteq Nat

ASSUME NoneAssumption == None \notin Int

VARIABLES
  today, quantum, phase,  \* the calendar and the phase of the running quantum
  rooms,          \* the state of every room there is
  faulty,         \* the rooms an outage took out of order
  renovation,     \* quanta of work left on the conversion
  outage,         \* when the outage ends
  reservations,   \* the bookings on the books
  blocks,         \* what partners and conferences hold out of sale
  queue,          \* receptionQueue: who waits at the desk, and for how long
  stays,          \* who sleeps where, until when
  receptionists, housekeepers,   \* on duty today
  desk,           \* receptionCapacity, in quanta of a receptionist's work
  labour,         \* housekeepingMinutes, in quanta of a housekeeper's work
  calling,        \* the parties the desk still calls in this quantum
  taken,          \* how many bookings were ever taken
  outages,        \* how many outages there were
  charged         \* ghost: how often each booking was charged a late fee

clock == <<today, quantum>>
house == <<rooms, faulty, renovation, outage, outages>>
books == <<reservations, taken, charged>>
frontDesk == <<queue, desk, calling, stays>>
staff == <<receptionists, housekeepers, labour>>
vars == <<clock, phase, house, books, blocks, frontDesk, staff>>

States == {"VacantClean", "VacantDirty", "Inspected", "Occupied", "OutOfOrder"}
Statuses == {"confirmed", "checkedIn", "completed", "cancelled", "noShow", "walked"}
Phases == {"commands", "arrivalsDepartures", "roomState", "staffService",
           "maintenanceFailures", "finance", "cancellations", "leads",
           "contracts", "groups", "parties"}
-----------------------------------------------------------------------------
Elapsed == today * QuantaPerDay + quantum
DayRolled == quantum = 0

Built == DOMAIN rooms
InState(state) == {r \in Built : rooms[r] = state}
Of(category) == {r \in Built : CategoryOf[r] = category}
Ready(category) == InState("VacantClean") \cap Of(category)

\* The n smallest of a set of numbers, the first of a list sorted by id.
First(n, S) == {x \in S : Cardinality({y \in S : y < x}) < n}

\* The lists of a set of numbers in ascending order; a finite set has one.
Ascending(S) ==
  {f \in [1 .. Cardinality(S) -> S] : \A i, j \in DOMAIN f : i < j => f[i] < f[j]}

Smaller(m, n) == IF m < n THEN m ELSE n

OnTheBooks == DOMAIN reservations
Status(b) == reservations[b].status
Confirmed == {b \in OnTheBooks : Status(b) = "confirmed"}
CheckedIn == {b \in OnTheBooks : Status(b) = "checkedIn"}
Live == {b \in OnTheBooks : Status(b) \in {"confirmed", "checkedIn"}}

Become(bs, status) ==
  reservations' = [b \in OnTheBooks |->
    IF b \in bs THEN [reservations[b] EXCEPT !.status = status] ELSE reservations[b]]

Waiting == {queue[i].booking : i \in DOMAIN queue}
Waited(b) == queue[CHOOSE i \in DOMAIN queue : queue[i].booking = b].waited

\* The others stay in their order.
LeaveQueue(b) ==
  \E kept \in Ascending({i \in DOMAIN queue : queue[i].booking # b}) :
    queue' = [i \in DOMAIN kept |-> queue[kept[i]]]

(***************************************************************************)
(* What is left to sell on a date.  A block holds its rooms until it is    *)
(* released; a conference until it is over.                                *)
(***************************************************************************)
HoldsRoomOn(b, date) ==
  /\ b \in Live
  /\ reservations[b].arrival <= date
  /\ reservations[b].arrival + reservations[b].nights > date

\* The rooms of some bookings, of some blocks: each room is one of a booking or block.
RoomsOf(bs) == UNION {{b} \X (1 .. reservations[b].rooms) : b \in bs}
RoomsBlocked(ks) == UNION {{k} \X (1 .. k.rooms) : k \in ks}

Held(date, category) ==
  Cardinality(RoomsOf({b \in Live : /\ reservations[b].category = category
                                    /\ HoldsRoomOn(b, date)}))

BlockHolds(k, date) ==
  /\ ~k.released
  /\ IF k.kind = "conference" THEN k.date <= date /\ k.date + k.nights > date
                              ELSE k.date = date

Distributed(date, category) ==
  Cardinality(RoomsBlocked({k \in blocks : k.category = category /\ BlockHolds(k, date)}))

AvailableRooms(date, category) ==
  Max({0, Cardinality(Of(category)) + OverbookingLimit
            - Held(date, category) - Distributed(date, category)})

\* A walk-in needs a clean room beyond those of today's arrivals, of any category.
CanWalkIn ==
  Cardinality(InState("VacantClean"))
    > Cardinality({b \in Confirmed : reservations[b].arrival = today})
-----------------------------------------------------------------------------
Init ==
  /\ today = 0 /\ quantum = 0 /\ phase = "commands"
  /\ rooms = [r \in Opened |-> "VacantClean"]
  /\ faulty = {} /\ renovation = None
  /\ outage = None /\ outages = 0
  /\ reservations = [b \in {} |-> None] /\ taken = 0
  /\ charged = [b \in Bookings |-> 0]
  /\ blocks = {}
  /\ queue = <<>> /\ stays = {} /\ desk = 0 /\ calling = <<>>
  /\ receptionists \in Receptionists /\ housekeepers \in Housekeepers /\ labour = 0

\* A block is given an id of its own, which nothing checks: one that no block has
\* nor a group on the books came under.
NewId == 1 + Max({0} \cup {k.id : k \in blocks} \cup {reservations[b].block : b \in OnTheBooks})

(***************************************************************************)
(* Commands: a partner's rooms on one date, and the conversion of a shell. *)
(* A block is checked against the other blocks only; it may hold rooms     *)
(* that are booked already.                                                *)
(***************************************************************************)
AcceptBlock(kind, category, date, n, release) ==
  /\ phase = "commands" /\ quantum \in CommandQuanta
  /\ Cardinality(blocks) < MaxBlocks
  /\ Cardinality(RoomsBlocked({k \in blocks : /\ k.kind # "conference"
                                              /\ k.category = category /\ k.date = date}))
       + n <= Cardinality(Of(category))
  /\ blocks' = blocks \cup
       {[id |-> NewId, kind |-> kind, category |-> category,
         date |-> date, nights |-> 1, rooms |-> n, release |-> release,
         released |-> FALSE]}
  /\ UNCHANGED <<clock, phase, house, books, frontDesk, staff>>

StartRenovation ==
  /\ phase = "commands" /\ quantum \in CommandQuanta
  /\ renovation = None
  /\ Opened = Built
  /\ renovation' = RenovationQuanta
  /\ UNCHANGED <<clock, phase, rooms, faulty, outage, outages, books, blocks,
                 frontDesk, staff>>

(***************************************************************************)
(* Time.  A new day decides who is at work.                                *)
(***************************************************************************)
AdvanceTime ==
  /\ phase = "commands"
  /\ IF quantum < QuantaPerDay - 1
     THEN /\ quantum' = quantum + 1
          /\ UNCHANGED <<today, receptionists, housekeepers>>
     ELSE /\ today < MaxDay
          /\ today' = today + 1 /\ quantum' = 0
          /\ receptionists' \in Receptionists
          /\ housekeepers' \in Housekeepers
  /\ phase' = IF quantum' \in {0, CheckoutAt, ArrivalAt} THEN "arrivalsDepartures"
              ELSE "roomState"
  /\ UNCHANGED <<labour, house, books, blocks, frontDesk>>

(***************************************************************************)
(* Arrivals and departures: the rooms of those who leave, the queue of     *)
(* those who come, and at midnight those who never did.                    *)
(***************************************************************************)
Leaving == {s \in stays : s.departure <= today}

CheckOut ==
  /\ phase = "arrivalsDepartures" /\ quantum = CheckoutAt
  /\ phase' = "roomState"
  /\ Become({s.booking : s \in Leaving} \cap CheckedIn, "completed")
  /\ rooms' = [r \in Built |->
                 IF \E s \in Leaving : s.room = r THEN "VacantDirty" ELSE rooms[r]]
  /\ stays' = stays \ Leaving
  /\ UNCHANGED <<clock, faulty, renovation, outage, outages, taken, charged, blocks,
                 queue, desk, calling, staff>>

\* A party that did not pay at the desk may not come.  Conferences that are
\* over give back their rooms at the same hour.
ArrivalWave ==
  /\ phase = "arrivalsDepartures" /\ quantum = ArrivalAt
  /\ phase' = "roomState"
  /\ LET due == {b \in Confirmed : reservations[b].arrival = today}
     IN  \E absent \in SUBSET {b \in due : ~reservations[b].guaranteed} :
           \E coming \in Ascending(due \ absent) :
             queue' = queue \o [i \in DOMAIN coming |-> [booking |-> coming[i], waited |-> 0]]
  /\ blocks' = {k \in blocks : ~(k.kind = "conference" /\ k.date + k.nights <= today)}
  /\ UNCHANGED <<clock, house, books, desk, calling, stays, staff>>

Midnight ==
  /\ phase = "arrivalsDepartures" /\ DayRolled
  /\ phase' = "roomState"
  /\ LET gone == {b \in Confirmed \ Waiting : reservations[b].arrival = today - 1}
         over == {b \in OnTheBooks \ Live :
                    reservations[b].arrival + reservations[b].nights + RetentionDays <= today}
     IN  /\ reservations' = [b \in OnTheBooks \ over |->
              IF b \in gone THEN [reservations[b] EXCEPT !.status = "noShow"]
                            ELSE reservations[b]]
         /\ charged' = [b \in Bookings |-> charged[b] + (IF b \in gone THEN 1 ELSE 0)]
  /\ UNCHANGED <<clock, house, taken, blocks, frontDesk, staff>>

(***************************************************************************)
(* The state of the rooms: the conversion, then the housekeepers.  A room  *)
(* inspected is clean at the next quantum.  Labour that finds no room to   *)
(* clean is carried over; what a conference or missing supplies take of it *)
(* is the choice of how many rooms can be done.                            *)
(***************************************************************************)
Finishing == renovation = 1

WorkedOn == Smaller(labour + housekeepers, MaxLabour)

RunHousekeeping ==
  /\ phase = "roomState"
  /\ phase' = IF queue = <<>> THEN "maintenanceFailures" ELSE "staffService"
  /\ LET dirty == InState("VacantDirty")
     IN  \E n \in 0 .. Smaller(WorkedOn \div CleanQuanta, Cardinality(dirty)) :
           /\ rooms' = [r \in Built \cup (IF Finishing THEN Rooms ELSE {}) |->
                IF r \notin Built \/ rooms[r] = "Inspected" THEN "VacantClean"
                ELSE IF r \in First(n, dirty) THEN "Inspected"
                ELSE rooms[r]]
           /\ labour' = WorkedOn - n * CleanQuanta
  /\ renovation' = IF renovation = None \/ Finishing THEN None ELSE renovation - 1
  /\ UNCHANGED <<clock, faulty, outage, outages, books, blocks, frontDesk,
                 receptionists, housekeepers>>

(***************************************************************************)
(* Reception.  Capacity builds up while somebody waits and is not used up; *)
(* a party takes every room it booked or none.                             *)
(***************************************************************************)
OpenDesk ==
  /\ phase = "staffService" /\ calling = <<>>
  /\ desk' = Smaller(desk + receptionists, CheckInQuanta * MaxBookings)
  /\ queue' = [i \in DOMAIN queue |->
       [queue[i] EXCEPT !.waited = Smaller(@ + 1, WalkAfter)]]
  /\ calling' = [i \in 1 .. Smaller(desk' \div CheckInQuanta, Len(queue)) |->
                  queue[i].booking]
  /\ phase' = IF calling' = <<>> THEN "maintenanceFailures" ELSE phase
  /\ UNCHANGED <<clock, house, books, blocks, stays, staff>>

Short(b) ==
  Cardinality(Ready(reservations[b].category)) < reservations[b].rooms

\* Slip: the party takes the rooms there are.
CheckInShort(b) ==
  /\ b \in Confirmed /\ Ready(reservations[b].category) # {}
  /\ LET assigned == First(reservations[b].rooms, Ready(reservations[b].category))
     IN  /\ rooms' = [r \in Built |-> IF r \in assigned THEN "Occupied" ELSE rooms[r]]
         /\ stays' = stays \cup
              {[booking |-> b, room |-> r,
                departure |-> reservations[b].arrival + reservations[b].nights] : r \in assigned}
  /\ Become({b}, "checkedIn")
  /\ LeaveQueue(b)

CheckIn(b) ==
  /\ b \in Confirmed /\ ~Short(b)
  /\ LET assigned == First(reservations[b].rooms, Ready(reservations[b].category))
     IN  /\ rooms' = [r \in Built |-> IF r \in assigned THEN "Occupied" ELSE rooms[r]]
         /\ stays' = stays \cup
              {[booking |-> b, room |-> r,
                departure |-> reservations[b].arrival + reservations[b].nights] : r \in assigned}
  /\ Become({b}, "checkedIn")
  /\ LeaveQueue(b)

\* Slip: the wait is looked at before the rooms.
WalkImpatient(b) ==
  /\ b \in Confirmed /\ Waited(b) >= WalkAfter
  /\ Become({b}, "walked")
  /\ LeaveQueue(b)
  /\ UNCHANGED <<rooms, stays>>

Walk(b) ==
  /\ b \in Confirmed /\ Short(b) /\ Waited(b) >= WalkAfter
  /\ Become({b}, "walked")
  /\ LeaveQueue(b)
  /\ UNCHANGED <<rooms, stays>>

\* A party whose rooms are not ready goes on waiting; one without a booking leaves.
PassOver(b) ==
  /\ b \in Confirmed => Short(b) /\ Waited(b) < WalkAfter
  /\ IF b \in Confirmed THEN UNCHANGED queue ELSE LeaveQueue(b)
  /\ UNCHANGED <<rooms, stays, reservations>>

RunReception ==
  /\ phase = "staffService" /\ calling # <<>>
  /\ calling' = Tail(calling)
  /\ phase' = IF Len(calling) = 1 THEN "maintenanceFailures" ELSE phase
  /\ CheckIn(Head(calling)) \/ Walk(Head(calling)) \/ PassOver(Head(calling))
  /\ UNCHANGED <<clock, faulty, renovation, outage, outages, taken, charged, blocks,
                 desk, staff>>

(***************************************************************************)
(* Outages of the power supply.  One that makes rooms unsellable takes     *)
(* every free room out of order; when it is over they are dirty.           *)
(***************************************************************************)
Over == outage # None /\ Elapsed >= outage

AfterMaintenance ==
  phase' = CASE DayRolled -> "finance"
             [] quantum = DemandAt -> "cancellations"
             [] OTHER -> "commands"

\* Slip: the fault is cleared, the room's state is not.
EndOutageForgetsRooms ==
  /\ phase = "maintenanceFailures" /\ Over
  /\ AfterMaintenance
  /\ outage' = None
  /\ faulty' = {}
  /\ UNCHANGED <<clock, rooms, renovation, outages, books, blocks, frontDesk, staff>>

EndOutage ==
  /\ phase = "maintenanceFailures" /\ Over
  /\ AfterMaintenance
  /\ outage' = None
  /\ rooms' = [r \in Built |-> IF r \in faulty THEN "VacantDirty" ELSE rooms[r]]
  /\ faulty' = {}
  /\ UNCHANGED <<clock, renovation, outages, books, blocks, frontDesk, staff>>

\* Slip: rooms with guests in them are taken out of order too.
StartOutageTakesAll ==
  /\ phase = "maintenanceFailures" /\ DayRolled
  /\ outage = None /\ outages < MaxOutages
  /\ AfterMaintenance
  /\ outages' = outages + 1
  /\ \E n \in OutageQuanta : outage' = Elapsed + n
  /\ \E standby \in BOOLEAN :
       faulty' = IF standby THEN {}
                 ELSE {r \in Built : rooms[r] # "OutOfOrder"}
  /\ rooms' = [r \in Built |-> IF r \in faulty' THEN "OutOfOrder" ELSE rooms[r]]
  /\ UNCHANGED <<clock, renovation, books, blocks, frontDesk, staff>>

StartOutage ==
  /\ phase = "maintenanceFailures" /\ DayRolled
  /\ outage = None /\ outages < MaxOutages
  /\ AfterMaintenance
  /\ outages' = outages + 1
  /\ \E n \in OutageQuanta : outage' = Elapsed + n
  /\ \E standby \in BOOLEAN :
       faulty' = IF standby THEN {}
                 ELSE {r \in Built : rooms[r] \notin {"Occupied", "OutOfOrder"}}
  /\ rooms' = [r \in Built |-> IF r \in faulty' THEN "OutOfOrder" ELSE rooms[r]]
  /\ UNCHANGED <<clock, renovation, books, blocks, frontDesk, staff>>

NothingFails ==
  /\ phase = "maintenanceFailures" /\ ~Over
  /\ AfterMaintenance
  /\ UNCHANGED <<clock, house, books, blocks, frontDesk, staff>>

(***************************************************************************)
(* The day's contracts: allotments past their release date are given back, *)
(* group blocks are released.                                              *)
(***************************************************************************)
RunContractCalendar ==
  /\ phase = "finance"
  /\ phase' = "commands"
  /\ blocks' =
       {[k EXCEPT !.released = k.kind = "group" /\ (@ \/ k.release <= today)] :
          k \in {j \in blocks : ~(j.kind = "allotment" /\ j.release <= today)}}
  /\ UNCHANGED <<clock, house, books, frontDesk, staff>>

(***************************************************************************)
(* Demand, once a day: cancellations, an enquiry for a conference, then    *)
(* contracts, groups and single parties ask for rooms.                     *)
(***************************************************************************)
FreeCancellationDays == 1

LateOn(b, date) == date >= reservations[b].arrival - FreeCancellationDays

\* Slip: a booking that is cancelled late is charged and stays.
RunCancellationsKeepsLate ==
  /\ phase = "cancellations"
  /\ phase' = "leads"
  /\ \E away \in SUBSET {b \in Confirmed : reservations[b].arrival > today} :
       LET late == {b \in away : LateOn(b, today)}
       IN  /\ Become(away \ late, "cancelled")
           /\ charged' = [b \in Bookings |-> charged[b] + (IF b \in late THEN 1 ELSE 0)]
  /\ UNCHANGED <<clock, house, taken, blocks, frontDesk, staff>>

RunCancellations ==
  /\ phase = "cancellations"
  /\ phase' = "leads"
  /\ \E away \in SUBSET {b \in Confirmed : reservations[b].arrival > today} :
       LET late == {b \in away : LateOn(b, today)}
       IN  /\ Become(away, "cancelled")
           /\ charged' = [b \in Bookings |-> charged[b] + (IF b \in late THEN 1 ELSE 0)]
  /\ UNCHANGED <<clock, house, taken, blocks, frontDesk, staff>>

\* A conference blocks half the rooms of its category at most, booked or not.
GenerateEventLeads(n, date, nights) ==
  /\ phase = "leads"
  /\ phase' = "contracts"
  /\ Cardinality(blocks) < MaxBlocks
  /\ date > today
  /\ blocks' = blocks \cup
       {[id |-> NewId, kind |-> "conference", category |-> BlockedCategory,
         date |-> date, nights |-> nights,
         rooms |-> Smaller(Cardinality(Of(BlockedCategory)) \div 2, n),
         release |-> date, released |-> FALSE]}
  /\ UNCHANGED <<clock, house, books, frontDesk, staff>>

NoLead ==
  /\ phase = "leads"
  /\ phase' = "contracts"
  /\ UNCHANGED <<clock, house, books, blocks, frontDesk, staff>>

StayDates(arrival, nights) == arrival .. arrival + nights - 1

\* Slip: only the first night is looked at.
FitsFirstNight(n, category, arrival, nights, released) ==
  n <= AvailableRooms(arrival, category) + released

Fits(n, category, arrival, nights, released) ==
  \A date \in StayDates(arrival, nights) : n <= AvailableRooms(date, category) + released

Reserve(n, category, arrival, nights, guaranteed, by, block, released) ==
  /\ taken < MaxBookings
  /\ Fits(n, category, arrival, nights, released)
  /\ taken' = taken + 1
  /\ reservations' = [b \in OnTheBooks \cup {taken + 1} |->
       IF b \in OnTheBooks THEN reservations[b]
       ELSE [status |-> "confirmed", category |-> category, rooms |-> n,
             arrival |-> arrival, nights |-> nights, guaranteed |-> guaranteed,
             by |-> by, block |-> block]]
  /\ UNCHANGED <<clock, house, charged, blocks, frontDesk, staff>>

\* Corporate accounts book for tomorrow.
GenerateContractDemand(n) ==
  /\ phase = "contracts"
  /\ Reserve(n, AccountCategory, today + 1, 1, TRUE, "corporate", 0, 0)
  /\ UNCHANGED phase

NoMoreContracts ==
  /\ phase = "contracts"
  /\ phase' = "groups"
  /\ UNCHANGED <<clock, house, books, blocks, frontDesk, staff>>

\* The blocks of groups that arrive tomorrow ask in turn, and may use the rooms
\* they hold; a block that does not fit is refused.
Arriving ==
  {k \in blocks : /\ k.kind = "group" /\ ~k.released /\ k.date = today + 1
                  /\ \A b \in OnTheBooks : reservations[b].block # k.id
                  /\ Fits(k.rooms, k.category, today + 1, 1, k.rooms)}

GroupArrives ==
  /\ phase = "groups"
  /\ \E k \in Arriving :
       /\ \A j \in Arriving : k.id <= j.id
       /\ Reserve(k.rooms, k.category, k.date, 1, TRUE, "group", k.id, k.rooms)
  /\ UNCHANGED phase

NoMoreGroups ==
  /\ phase = "groups"
  /\ Arriving = {} \/ taken = MaxBookings
  /\ phase' = "parties"
  /\ UNCHANGED <<clock, house, books, blocks, frontDesk, staff>>

\* A walk-in pays at the desk; any other party is held on trust.
GenerateDemand(category, lead, nights) ==
  /\ phase = "parties"
  /\ lead = 0 => CanWalkIn
  /\ Reserve(1, category, today + lead, nights, lead = 0, "guest", 0, 0)
  /\ UNCHANGED phase

NoMoreParties ==
  /\ phase = "parties"
  /\ phase' = "commands"
  /\ UNCHANGED <<clock, house, books, blocks, frontDesk, staff>>

Next ==
  \/ \E kind \in {"allotment", "group"}, c \in Categories, n \in Sizes :
       \E date, release \in today + 1 .. MaxDay : AcceptBlock(kind, c, date, n, release)
  \/ StartRenovation
  \/ AdvanceTime
  \/ CheckOut \/ ArrivalWave \/ Midnight
  \/ RunHousekeeping
  \/ OpenDesk \/ RunReception
  \/ EndOutage \/ StartOutage \/ NothingFails
  \/ RunContractCalendar
  \/ RunCancellations
  \/ \E n \in Sizes, date \in Days, m \in Nights : GenerateEventLeads(n, date, m)
  \/ NoLead
  \/ \E n \in Sizes : GenerateContractDemand(n)
  \/ NoMoreContracts
  \/ GroupArrives \/ NoMoreGroups
  \/ \E c \in Categories, lead \in LeadDays, m \in Nights : GenerateDemand(c, lead, m)
  \/ NoMoreParties

Spec == Init /\ [][Next]_vars
-----------------------------------------------------------------------------
Records == [status : Statuses, category : Categories, rooms : Sizes \cup {1},
            arrival : Nat, nights : Nights \cup {1}, guaranteed : BOOLEAN,
            by : {"guest", "corporate", "group"}, block : Nat]

BlockRecords == [id : Nat, kind : {"allotment", "group", "conference"},
                 category : Categories, date : Nat, nights : Nights \cup {1}, rooms : Nat,
                 release : Nat, released : BOOLEAN]

ClockTyped == today \in Days /\ quantum \in 0 .. QuantaPerDay - 1 /\ phase \in Phases

HouseTyped ==
  /\ Opened \subseteq Built /\ Built \subseteq Rooms
  /\ \A r \in Built : rooms[r] \in States
  /\ faulty \subseteq Built
  /\ renovation \in {None} \cup 1 .. RenovationQuanta
  /\ outage \in {None} \cup Nat /\ outages \in 0 .. MaxOutages

BooksTyped ==
  /\ taken \in 0 .. MaxBookings
  /\ OnTheBooks \subseteq 1 .. taken
  /\ \A b \in OnTheBooks : reservations[b] \in Records
  /\ charged \in [Bookings -> Nat]

BlocksTyped ==
  /\ blocks \subseteq BlockRecords /\ IsFiniteSet(blocks)
  /\ \A k \in blocks : k.kind = "group" => k.rooms \in Sizes

DeskTyped ==
  /\ queue \in Seq([booking : Bookings, waited : 0 .. WalkAfter])
  /\ calling \in Seq(Bookings)
  /\ desk \in 0 .. CheckInQuanta * MaxBookings
  /\ stays \subseteq [booking : Bookings, room : Rooms, departure : Nat]

StaffTyped ==
  receptionists \in Receptionists /\ housekeepers \in Housekeepers /\ labour \in 0 .. MaxLabour

TypeOK ==
  ClockTyped /\ HouseTyped /\ BooksTyped /\ BlocksTyped /\ DeskTyped /\ StaffTyped

(***************************************************************************)
(* A room sleeps one party at most, and is occupied exactly while a party  *)
(* sleeps in it: neither outages, housekeepers, the conversion nor a late  *)
(* check-in come between the two (GameSimulation.ts:1466, 1774, 2534).     *)
(***************************************************************************)
OccupiedIsStayedIn ==
  /\ InState("Occupied") = {s.room : s \in stays}
  /\ \A s, t \in stays : s.room = t.room => s = t

(***************************************************************************)
(* A party waits at the desk once, and only for a booking that is still    *)
(* confirmed; after midnight every booking of an earlier day that is still *)
(* confirmed waits at the desk, so none holds rooms for nobody             *)
(* (GameSimulation.ts:1528).                                               *)
(***************************************************************************)
QueueIsArrivals ==
  /\ Waiting \subseteq {b \in Confirmed : reservations[b].arrival <= today}
  /\ Len(queue) = Cardinality(Waiting)
  /\ phase # "arrivalsDepartures" =>
       {b \in Confirmed : reservations[b].arrival < today} \subseteq Waiting

(***************************************************************************)
(* A party takes every room it booked (GameSimulation.ts:1708) and keeps   *)
(* them until it has left; nobody else sleeps in the house, and who has    *)
(* none yet is on the way to the desk or waits at it (QueueIsArrivals).    *)
(***************************************************************************)
PartyHasItsRooms ==
  /\ \A b \in OnTheBooks :
       LET its == {s \in stays : s.booking = b}
       IN  IF b \in CheckedIn
           THEN /\ Cardinality(its) = reservations[b].rooms
                /\ \A s \in its : CategoryOf[s.room] = reservations[b].category
           ELSE its = {}
  /\ {s.booking : s \in stays} \subseteq OnTheBooks
  /\ QueueIsArrivals

(***************************************************************************)
(* A house that is full on the second night has not got the booking        *)
(* (bookingEngine.ts:49): on no night do single parties and accounts hold  *)
(* more rooms than there are, with the overbooking the player allowed.     *)
(***************************************************************************)
NightsAreNotOversold ==
  \A date \in Days, c \in Categories :
    Cardinality(RoomsOf({b \in Live : /\ reservations[b].by \in {"guest", "corporate"}
                                     /\ reservations[b].category = c
                                     /\ HoldsRoomOn(b, date)}))
      <= Cardinality(Of(c)) + OverbookingLimit

(***************************************************************************)
(* A room is out of order only during an outage, and every room that was   *)
(* comes back when it is over (GameSimulation.ts:2471).                    *)
(***************************************************************************)
OutOfOrderOnlyInOutage ==
  /\ InState("OutOfOrder") = faulty
  /\ faulty # {} => outage # None /\ Elapsed <= outage

(***************************************************************************)
(* A guest is walked only when the rooms are not there: when the desk is   *)
(* done with its parties, too few clean rooms of the category are left     *)
(* for any party it has just walked (GameSimulation.ts:1712).              *)
(***************************************************************************)
WalkedOnlyWhenShort ==
  [][\A b \in OnTheBooks :
       b \in DOMAIN reservations' /\ Status(b) # "walked" /\ reservations'[b].status = "walked" =>
         Cardinality(Ready(reservations[b].category)') < reservations[b].rooms]_vars

(***************************************************************************)
(* The late fee is charged once, and only to a party that did not come     *)
(* (bookingEngine.ts:170).                                                 *)
(***************************************************************************)
ChargedOnceForAbsence ==
  \A b \in Bookings :
    /\ charged[b] <= 1
    /\ charged[b] = 1 /\ b \in OnTheBooks => Status(b) \in {"cancelled", "noShow"}

(***************************************************************************)
(* One receptionist checks in six parties per simulated hour               *)
(* (GameSimulation.ts:458): no more parties have been given their rooms    *)
(* than the hours worked at the desk allow.                                *)
(***************************************************************************)
DeskServesAtItsRate ==
  Cardinality({b \in OnTheBooks : Status(b) \in {"checkedIn", "completed"}}) * CheckInQuanta
    <= desk
=============================================================================
