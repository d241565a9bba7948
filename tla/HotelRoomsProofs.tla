--------------------------- MODULE HotelRoomsProofs ---------------------------
(***************************************************************************)
(* For any number of rooms, bookings, blocks and days:                     *)
(*  - a room is occupied exactly while one party sleeps in it, and out of  *)
(*    order only during an outage;                                         *)
(*  - every variable keeps its type, which needs what the lists of the     *)
(*    desk and the sets of rooms it hands out contain;                     *)
(*  - the late fee is charged once, and never to a party that came;        *)
(*  - a party in the house has every room it booked, and who waits at the  *)
(*    desk waits once, for a booking that is due;                          *)
(*  - no night is oversold to single parties and accounts;                 *)
(*  - a guest is walked only when the rooms are not there.                 *)
(***************************************************************************)
EXTENDS HotelRooms, TLAPS, FiniteSetTheorems, SequenceTheorems

\* The rooms an outage closed are out of order, so nobody sleeps in them.
FaultyAreClosed == \A r \in faulty : r \in Built /\ rooms[r] = "OutOfOrder"

StaysInv == OccupiedIsStayedIn /\ FaultyAreClosed

LEMMA FirstIsSubset == ASSUME NEW n, NEW S PROVE First(n, S) \subseteq S
  BY DEF First

LEMMA StaysInit == Init => StaysInv
  BY DEF Init, StaysInv, OccupiedIsStayedIn, FaultyAreClosed, InState, Built

\* A step that touches neither rooms nor stays nor the outage's list.
LEMMA StaysUntouched ==
  StaysInv /\ UNCHANGED <<rooms, stays, faulty>> => StaysInv'
  BY DEF StaysInv, OccupiedIsStayedIn, FaultyAreClosed, InState, Built

LEMMA StaysCheckOut == StaysInv /\ CheckOut => StaysInv'
PROOF
  <1> SUFFICES ASSUME StaysInv, CheckOut PROVE StaysInv'
    OBVIOUS
  <1>1. /\ Built' = Built
        /\ \A r \in Built : rooms'[r] = IF \E s \in Leaving : s.room = r
                                        THEN "VacantDirty" ELSE rooms[r]
        /\ stays' = stays \ Leaving /\ faulty' = faulty
    BY DEF CheckOut, Built
  <1>2. \A s \in stays : s.room \in Built /\ rooms[s.room] = "Occupied"
    BY DEF StaysInv, OccupiedIsStayedIn, InState
  <1>3. InState("Occupied")' = {s.room : s \in stays'}
    <2>1. \A r \in Built' : rooms'[r] = "Occupied" <=> \E s \in stays' : s.room = r
      BY <1>1, <1>2 DEF StaysInv, OccupiedIsStayedIn, InState, Leaving
    <2>2. \A s \in stays' : s.room \in Built'
      BY <1>1, <1>2
    <2>3. QED BY <2>1, <2>2 DEF InState
  <1>4. \A s, t \in stays' : s.room = t.room => s = t
    BY <1>1 DEF StaysInv, OccupiedIsStayedIn
  <1>5. FaultyAreClosed'
    <2>1. \A r \in faulty : r \in Built /\ rooms[r] = "OutOfOrder"
      BY DEF StaysInv, FaultyAreClosed
    <2>2. \A s \in Leaving : s \in stays
      BY DEF Leaving
    <2>3. QED BY <1>1, <1>2, <2>1, <2>2 DEF FaultyAreClosed
  <1>6. QED BY <1>3, <1>4, <1>5 DEF StaysInv, OccupiedIsStayedIn

LEMMA StaysHousekeeping == StaysInv /\ RunHousekeeping => StaysInv'
PROOF
  <1> SUFFICES ASSUME StaysInv, RunHousekeeping PROVE StaysInv'
    OBVIOUS
  <1> DEFINE dirty == InState("VacantDirty")
             after == Built \cup (IF Finishing THEN Rooms ELSE {})
  <1>1. PICK n : rooms' = [r \in after |->
                   IF r \notin Built \/ rooms[r] = "Inspected" THEN "VacantClean"
                   ELSE IF r \in First(n, dirty) THEN "Inspected" ELSE rooms[r]]
    BY DEF RunHousekeeping
  <1>2. stays' = stays /\ faulty' = faulty /\ Built' = after
    BY <1>1 DEF RunHousekeeping, house, frontDesk, Built
  <1>3. \A r \in First(n, dirty) : r \in Built /\ rooms[r] = "VacantDirty"
    BY FirstIsSubset DEF InState
  <1>4. \A r \in Built : /\ r \in after
                         /\ rooms'[r] = "Occupied" <=> rooms[r] = "Occupied"
                         /\ rooms[r] = "OutOfOrder" => rooms'[r] = "OutOfOrder"
    BY <1>1, <1>3
  <1>5. \A r \in after : rooms'[r] = "Occupied" => r \in Built
    BY <1>1
  <1>6. InState("Occupied")' = InState("Occupied")
    BY <1>2, <1>4, <1>5 DEF InState
  <1>7. QED BY <1>2, <1>4, <1>6 DEF StaysInv, OccupiedIsStayedIn, FaultyAreClosed

LEMMA StaysCheckIn ==
  ASSUME NEW b, StaysInv, CheckIn(b), faulty' = faulty PROVE StaysInv'
PROOF
  <1> DEFINE assigned == First(reservations[b].rooms, Ready(reservations[b].category))
             new == {[booking |-> b, room |-> r,
                      departure |-> reservations[b].arrival + reservations[b].nights] :
                        r \in assigned}
  <1>1. /\ rooms' = [r \in Built |-> IF r \in assigned THEN "Occupied" ELSE rooms[r]]
        /\ stays' = stays \cup new /\ Built' = Built
    BY DEF CheckIn, Built
  <1>2. \A r \in assigned : r \in Built /\ rooms[r] = "VacantClean"
    BY FirstIsSubset DEF Ready, InState
  <1>3. /\ \A s \in new : s.room \in assigned
        /\ \A r \in assigned : \E s \in new : s.room = r
        /\ \A s, t \in new : s.room = t.room => s = t
    <2> DEFINE end == reservations[b].arrival + reservations[b].nights
               Stay(r) == [booking |-> b, room |-> r, departure |-> end]
    <2>1. new = {Stay(r) : r \in assigned}
      OBVIOUS
    <2>2. \A r : Stay(r).room = r
      OBVIOUS
    <2> HIDE DEF Stay, new, assigned, end
    <2>3. QED BY <2>1, <2>2
  <1>4. \A s \in stays : s.room \in Built /\ rooms[s.room] = "Occupied"
    BY DEF StaysInv, OccupiedIsStayedIn, InState
  <1> HIDE DEF assigned, new
  <1>5. \A s, t \in stays' : s.room = t.room => s = t
    BY <1>1, <1>2, <1>3, <1>4 DEF StaysInv, OccupiedIsStayedIn
  <1>6. InState("Occupied")' = {s.room : s \in stays'}
    <2>1. \A r \in Built : rooms[r] = "Occupied" => \E s \in stays : s.room = r
      BY DEF StaysInv, OccupiedIsStayedIn, InState
    <2>2. \A r \in Built' : rooms'[r] = "Occupied" <=> \E s \in stays' : s.room = r
      BY <1>1, <1>2, <1>3, <1>4, <2>1
    <2>3. \A s \in stays' : s.room \in Built'
      BY <1>1, <1>2, <1>3, <1>4
    <2>4. QED BY <2>2, <2>3 DEF InState
  <1>7. FaultyAreClosed'
    BY <1>1, <1>2 DEF StaysInv, FaultyAreClosed
  <1>8. QED BY <1>5, <1>6, <1>7 DEF StaysInv, OccupiedIsStayedIn

LEMMA StaysStartOutage == StaysInv /\ StartOutage => StaysInv'
PROOF
  <1> SUFFICES ASSUME StaysInv, StartOutage PROVE StaysInv'
    OBVIOUS
  <1>1. /\ \A r \in faulty' : r \in Built /\ rooms[r] # "Occupied"
        /\ rooms' = [r \in Built |-> IF r \in faulty' THEN "OutOfOrder" ELSE rooms[r]]
        /\ stays' = stays
    <2>1. PICK standby \in BOOLEAN :
            faulty' = IF standby THEN {}
                      ELSE {r \in Built : rooms[r] \notin {"Occupied", "OutOfOrder"}}
      BY DEF StartOutage
    <2>2. QED BY <2>1 DEF StartOutage, frontDesk
  <1>2. Built' = Built
    BY <1>1 DEF Built
  <1>3. InState("Occupied")' = InState("Occupied")
    BY <1>1, <1>2 DEF InState
  <1>4. QED
    BY <1>1, <1>2, <1>3 DEF StaysInv, OccupiedIsStayedIn, FaultyAreClosed

LEMMA StaysEndOutage == StaysInv /\ EndOutage => StaysInv'
PROOF
  <1> SUFFICES ASSUME StaysInv, EndOutage PROVE StaysInv'
    OBVIOUS
  <1>1. /\ rooms' = [r \in Built |-> IF r \in faulty THEN "VacantDirty" ELSE rooms[r]]
        /\ faulty' = {} /\ stays' = stays
    BY DEF EndOutage, frontDesk
  <1>2. Built' = Built
    BY <1>1 DEF Built
  <1>3. \A r \in faulty : rooms[r] = "OutOfOrder"
    BY DEF StaysInv, FaultyAreClosed
  <1>4. InState("Occupied")' = InState("Occupied")
    BY <1>1, <1>2, <1>3 DEF InState
  <1>5. QED
    BY <1>1, <1>4 DEF StaysInv, OccupiedIsStayedIn, FaultyAreClosed

LEMMA StaysReception == StaysInv /\ RunReception => StaysInv'
PROOF
  <1> SUFFICES ASSUME StaysInv, RunReception PROVE StaysInv'
    OBVIOUS
  <1> DEFINE b == Head(calling)
  <1>1. faulty' = faulty
    BY DEF RunReception
  <1>2. CASE CheckIn(b)
    BY <1>1, <1>2, StaysCheckIn
  <1>3. CASE Walk(b) \/ PassOver(b)
    BY <1>1, <1>3, StaysUntouched DEF Walk, PassOver
  <1>4. QED BY <1>2, <1>3 DEF RunReception

LEMMA StaysNext == StaysInv /\ [Next]_vars => StaysInv'
PROOF
  <1> SUFFICES ASSUME StaysInv, [Next]_vars PROVE StaysInv'
    OBVIOUS
  <1>1. CASE UNCHANGED vars
    BY <1>1, StaysUntouched DEF vars, house, frontDesk
  <1>2. ASSUME NEW kind \in {"allotment", "group"}, NEW c \in Categories, NEW n \in Sizes,
               NEW date \in today + 1 .. MaxDay, NEW release \in today + 1 .. MaxDay,
               AcceptBlock(kind, c, date, n, release)
        PROVE StaysInv'
    BY <1>2, StaysUntouched DEF AcceptBlock, house, frontDesk
  <1>3. CASE StartRenovation
    BY <1>3, StaysUntouched DEF StartRenovation, frontDesk
  <1>4. CASE AdvanceTime
    BY <1>4, StaysUntouched DEF AdvanceTime, house, frontDesk
  <1>5. CASE CheckOut
    BY <1>5, StaysCheckOut
  <1>6. CASE ArrivalWave \/ Midnight
    BY <1>6, StaysUntouched DEF ArrivalWave, Midnight, house, frontDesk
  <1>7. CASE RunHousekeeping
    BY <1>7, StaysHousekeeping
  <1>8. CASE OpenDesk
    BY <1>8, StaysUntouched DEF OpenDesk, house
  <1>9. CASE RunReception
    BY <1>9, StaysReception
  <1>10. CASE EndOutage
    BY <1>10, StaysEndOutage
  <1>11. CASE StartOutage
    BY <1>11, StaysStartOutage
  <1>12. CASE NothingFails \/ RunContractCalendar
    BY <1>12, StaysUntouched DEF NothingFails, RunContractCalendar, house, frontDesk
  <1>13. CASE RunCancellations \/ NoLead \/ NoMoreContracts \/ NoMoreGroups
              \/ NoMoreParties
    BY <1>13, StaysUntouched
       DEF RunCancellations, NoLead, NoMoreContracts, NoMoreGroups, NoMoreParties,
           house, frontDesk
  <1>14. ASSUME NEW n \in Sizes, NEW date \in Days, NEW m \in Nights,
                GenerateEventLeads(n, date, m)
         PROVE StaysInv'
    BY <1>14, StaysUntouched DEF GenerateEventLeads, house, frontDesk
  <1>15. ASSUME NEW n \in Sizes, GenerateContractDemand(n)
         PROVE StaysInv'
    BY <1>15, StaysUntouched DEF GenerateContractDemand, Reserve, house, frontDesk
  <1>16. CASE GroupArrives
    BY <1>16, StaysUntouched DEF GroupArrives, Reserve, house, frontDesk
  <1>17. ASSUME NEW c \in Categories, NEW lead \in LeadDays, NEW m \in Nights,
                GenerateDemand(c, lead, m)
         PROVE StaysInv'
    BY <1>17, StaysUntouched DEF GenerateDemand, Reserve, house, frontDesk
  <1>18. QED
    BY <1>1, <1>2, <1>3, <1>4, <1>5, <1>6, <1>7, <1>8, <1>9, <1>10, <1>11, <1>12, <1>13,
       <1>14, <1>15, <1>16, <1>17 DEF Next

(***************************************************************************)
(* A room is occupied exactly while one party sleeps in it                 *)
(* (GameSimulation.ts:1466, 1774, 2534): no check-out, late check-in,      *)
(* outage or conversion comes between the two, whatever their number and   *)
(* order.                                                                  *)
(***************************************************************************)
THEOREM OccupiedStays == Spec => []OccupiedIsStayedIn
PROOF
  <1>1. Init => StaysInv
    BY StaysInit
  <1>2. StaysInv /\ [Next]_vars => StaysInv'
    BY StaysNext
  <1>3. StaysInv => OccupiedIsStayedIn
    BY DEF StaysInv
  <1>4. QED BY <1>1, <1>2, <1>3, PTL DEF Spec
-----------------------------------------------------------------------------
(***************************************************************************)
(* Outages.  The clock only moves when the quantum's phases are done, and  *)
(* an outage whose time has come does not survive the maintenance phase.   *)
(***************************************************************************)
BeforeMaintenance == {"arrivalsDepartures", "roomState", "staffService", "maintenanceFailures"}

ClockOK == today \in Nat /\ quantum \in 0 .. QuantaPerDay - 1

OutageTimed ==
  outage # None =>
    /\ outage \in Int
    /\ Elapsed <= outage
    /\ phase \notin BeforeMaintenance => Elapsed < outage

FaultyIsOutage == InState("OutOfOrder") = faulty /\ (faulty # {} => outage # None)

OutageInv == ClockOK /\ OutageTimed /\ FaultyIsOutage

LEMMA ElapsedIsInt == ClockOK => Elapsed \in Int
  BY RoomsAssumption DEF ClockOK, Elapsed

\* A quantum or a new day, the clock is one quantum on.
LEMMA AdvanceIsOne == ClockOK /\ AdvanceTime => ClockOK' /\ Elapsed' = Elapsed + 1
PROOF
  <1> SUFFICES ASSUME ClockOK, AdvanceTime PROVE ClockOK' /\ Elapsed' = Elapsed + 1
    OBVIOUS
  <1>1. QuantaPerDay \in Nat /\ today \in Nat /\ quantum \in 0 .. QuantaPerDay - 1
    BY RoomsAssumption DEF ClockOK
  <1>2. CASE quantum < QuantaPerDay - 1
    <2>1. quantum' = quantum + 1 /\ today' = today
      BY <1>2 DEF AdvanceTime
    <2>2. QED BY <1>1, <1>2, <2>1 DEF ClockOK, Elapsed
  <1>3. CASE ~(quantum < QuantaPerDay - 1)
    <2>1. quantum' = 0 /\ today' = today + 1 /\ quantum = QuantaPerDay - 1
      BY <1>1, <1>3 DEF AdvanceTime
    <2>2. (today + 1) * QuantaPerDay = today * QuantaPerDay + QuantaPerDay
      BY <1>1
    <2>3. ClockOK'
      BY <1>1, <2>1 DEF ClockOK
    <2>4. QED BY <1>1, <2>1, <2>2, <2>3 DEF Elapsed
  <1>4. QED BY <1>2, <1>3

\* A step that keeps the house and goes from a phase before the end of the
\* maintenance to another, or between phases after it.
LEMMA OutageUntouched ==
  ASSUME OutageInv, UNCHANGED <<today, quantum, rooms, faulty, outage>>,
         phase \in BeforeMaintenance => phase' \in BeforeMaintenance \/ ~Over
  PROVE  OutageInv'
PROOF
  <1>1. ClockOK' /\ Elapsed' = Elapsed /\ Elapsed \in Int
    BY ElapsedIsInt DEF OutageInv, ClockOK, Elapsed
  <1>2. OutageTimed'
    BY <1>1 DEF OutageInv, OutageTimed, Over
  <1>3. FaultyIsOutage'
    BY DEF OutageInv, FaultyIsOutage, InState, Built
  <1>4. QED BY <1>1, <1>2, <1>3 DEF OutageInv

LEMMA OutageAdvances == OutageInv /\ AdvanceTime => OutageInv'
PROOF
  <1> SUFFICES ASSUME OutageInv, AdvanceTime PROVE OutageInv'
    OBVIOUS
  <1>1. ClockOK' /\ Elapsed' = Elapsed + 1 /\ Elapsed \in Int
    BY AdvanceIsOne, ElapsedIsInt DEF OutageInv
  <1>2. UNCHANGED <<rooms, faulty, outage>> /\ phase = "commands"
        /\ phase' \in BeforeMaintenance
    BY DEF AdvanceTime, house, BeforeMaintenance
  <1>3. OutageTimed'
    BY <1>1, <1>2 DEF OutageInv, OutageTimed, BeforeMaintenance
  <1>4. FaultyIsOutage'
    BY <1>2 DEF OutageInv, FaultyIsOutage, InState, Built
  <1>5. QED BY <1>1, <1>3, <1>4 DEF OutageInv

\* Rooms that change are not out of order, before or after.
LEMMA OutOfOrderUntouched ==
  ASSUME OutageInv, UNCHANGED <<today, quantum, faulty, outage>>,
         phase' \in BeforeMaintenance,
         InState("OutOfOrder")' = InState("OutOfOrder")
  PROVE  OutageInv'
PROOF
  <1>1. ClockOK' /\ Elapsed' = Elapsed
    BY DEF OutageInv, ClockOK, Elapsed
  <1>2. OutageTimed'
    BY <1>1 DEF OutageInv, OutageTimed
  <1>3. QED BY <1>1, <1>2 DEF OutageInv, FaultyIsOutage

LEMMA OutageCheckOut == OutageInv /\ OccupiedIsStayedIn /\ CheckOut => OutageInv'
PROOF
  <1> SUFFICES ASSUME OutageInv, OccupiedIsStayedIn, CheckOut PROVE OutageInv'
    OBVIOUS
  <1>1. /\ UNCHANGED <<today, quantum, faulty, outage>> /\ phase' \in BeforeMaintenance
        /\ rooms' = [r \in Built |-> IF \E s \in Leaving : s.room = r
                                     THEN "VacantDirty" ELSE rooms[r]]
    BY DEF CheckOut, clock, BeforeMaintenance
  <1>2. \A s \in Leaving : rooms[s.room] = "Occupied"
    BY DEF OccupiedIsStayedIn, InState, Leaving
  <1>3. InState("OutOfOrder")' = InState("OutOfOrder")
    BY <1>1, <1>2 DEF InState, Built
  <1>4. QED BY <1>1, <1>3, OutOfOrderUntouched

LEMMA OutageHousekeeping == OutageInv /\ RunHousekeeping => OutageInv'
PROOF
  <1> SUFFICES ASSUME OutageInv, RunHousekeeping PROVE OutageInv'
    OBVIOUS
  <1> DEFINE dirty == InState("VacantDirty")
             after == Built \cup (IF Finishing THEN Rooms ELSE {})
  <1>1. PICK n : rooms' = [r \in after |->
                   IF r \notin Built \/ rooms[r] = "Inspected" THEN "VacantClean"
                   ELSE IF r \in First(n, dirty) THEN "Inspected" ELSE rooms[r]]
    BY DEF RunHousekeeping
  <1>2. UNCHANGED <<today, quantum, faulty, outage>> /\ phase' \in BeforeMaintenance
    BY DEF RunHousekeeping, clock, BeforeMaintenance
  <1>3. \A r \in First(n, dirty) : rooms[r] = "VacantDirty"
    BY FirstIsSubset DEF InState
  <1>4. InState("OutOfOrder")' = InState("OutOfOrder")
    BY <1>1, <1>3 DEF InState, Built
  <1>5. QED BY <1>2, <1>4, OutOfOrderUntouched

LEMMA OutageReception == OutageInv /\ RunReception => OutageInv'
PROOF
  <1> SUFFICES ASSUME OutageInv, RunReception PROVE OutageInv'
    OBVIOUS
  <1> DEFINE b == Head(calling)
  <1>1. UNCHANGED <<today, quantum, faulty, outage>> /\ phase' \in BeforeMaintenance
    BY DEF RunReception, clock, BeforeMaintenance
  <1>2. InState("OutOfOrder")' = InState("OutOfOrder")
    <2>1. CASE CheckIn(b)
      <3> DEFINE assigned == First(reservations[b].rooms, Ready(reservations[b].category))
      <3>1. rooms' = [r \in Built |-> IF r \in assigned THEN "Occupied" ELSE rooms[r]]
        BY <2>1 DEF CheckIn
      <3>2. \A r \in assigned : rooms[r] = "VacantClean"
        BY FirstIsSubset DEF Ready, InState
      <3> HIDE DEF assigned
      <3>3. QED BY <3>1, <3>2 DEF InState, Built
    <2>2. CASE Walk(b) \/ PassOver(b)
      BY <2>2 DEF Walk, PassOver, InState, Built
    <2>3. QED BY <2>1, <2>2 DEF RunReception
  <1>3. QED BY <1>1, <1>2, OutOfOrderUntouched

LEMMA OutageStarts == OutageInv /\ StartOutage => OutageInv'
PROOF
  <1> SUFFICES ASSUME OutageInv, StartOutage PROVE OutageInv'
    OBVIOUS
  <1>1. PICK n \in OutageQuanta : outage' = Elapsed + n
    BY DEF StartOutage
  <1>2. n \in Int /\ n >= 1
    BY RoomsAssumption
  <1>3. ClockOK' /\ Elapsed' = Elapsed /\ Elapsed \in Int
    BY ElapsedIsInt DEF OutageInv, ClockOK, StartOutage, clock, Elapsed
  <1>4. OutageTimed'
    BY <1>1, <1>2, <1>3 DEF OutageTimed
  <1>5. faulty = {} /\ InState("OutOfOrder") = {}
    BY DEF OutageInv, FaultyIsOutage, StartOutage
  <1>6. rooms' = [r \in Built |-> IF r \in faulty' THEN "OutOfOrder" ELSE rooms[r]]
        /\ faulty' \subseteq Built
    <2>1. PICK standby \in BOOLEAN :
            faulty' = IF standby THEN {}
                      ELSE {r \in Built : rooms[r] \notin {"Occupied", "OutOfOrder"}}
      BY DEF StartOutage
    <2>2. QED BY <2>1 DEF StartOutage
  <1>7. InState("OutOfOrder")' = faulty'
    BY <1>5, <1>6 DEF InState, Built
  <1>8. outage' # None
    BY <1>1, <1>2, <1>3, NoneAssumption
  <1>9. QED BY <1>3, <1>4, <1>7, <1>8 DEF OutageInv, FaultyIsOutage

LEMMA OutageEnds == OutageInv /\ EndOutage => OutageInv'
PROOF
  <1> SUFFICES ASSUME OutageInv, EndOutage PROVE OutageInv'
    OBVIOUS
  <1>1. /\ rooms' = [r \in Built |-> IF r \in faulty THEN "VacantDirty" ELSE rooms[r]]
        /\ faulty' = {} /\ outage' = None /\ UNCHANGED <<today, quantum>>
    BY DEF EndOutage, clock
  <1>2. InState("OutOfOrder")' = {}
    BY <1>1 DEF OutageInv, FaultyIsOutage, InState, Built
  <1>3. QED
    BY <1>1, <1>2 DEF OutageInv, OutageTimed, FaultyIsOutage, ClockOK

LEMMA OutageInit == Init => OutageInv
PROOF
  <1> SUFFICES ASSUME Init PROVE OutageInv
    OBVIOUS
  <1>1. ClockOK
    BY SMTT(40), RoomsAssumption DEF Init, ClockOK
  <1>2. OutageTimed /\ FaultyIsOutage
    BY DEF Init, OutageTimed, FaultyIsOutage, InState, Built
  <1>3. QED BY <1>1, <1>2 DEF OutageInv

LEMMA OutageNext == OutageInv /\ StaysInv /\ [Next]_vars => OutageInv'
PROOF
  <1> SUFFICES ASSUME OutageInv, StaysInv, [Next]_vars PROVE OutageInv'
    OBVIOUS
  <1> USE DEF BeforeMaintenance, house, clock
  <1>1. CASE UNCHANGED vars
    BY <1>1, OutageUntouched DEF vars
  <1>2. ASSUME NEW kind \in {"allotment", "group"}, NEW c \in Categories, NEW n \in Sizes,
               NEW date \in today + 1 .. MaxDay, NEW release \in today + 1 .. MaxDay,
               AcceptBlock(kind, c, date, n, release)
        PROVE OutageInv'
    BY <1>2, OutageUntouched DEF AcceptBlock
  <1>3. CASE StartRenovation
    BY <1>3, OutageUntouched DEF StartRenovation
  <1>4. CASE AdvanceTime
    BY <1>4, OutageAdvances
  <1>5. CASE CheckOut
    BY <1>5, OutageCheckOut DEF StaysInv
  <1>6. CASE ArrivalWave \/ Midnight
    BY <1>6, OutageUntouched DEF ArrivalWave, Midnight
  <1>7. CASE RunHousekeeping
    BY <1>7, OutageHousekeeping
  <1>8. CASE OpenDesk
    BY <1>8, OutageUntouched DEF OpenDesk
  <1>9. CASE RunReception
    BY <1>9, OutageReception
  <1>10. CASE EndOutage
    BY <1>10, OutageEnds
  <1>11. CASE StartOutage
    BY <1>11, OutageStarts
  <1>12. CASE NothingFails
    BY <1>12, OutageUntouched DEF NothingFails
  <1>13. CASE RunContractCalendar \/ RunCancellations \/ NoLead \/ NoMoreContracts
              \/ NoMoreGroups \/ NoMoreParties
    BY <1>13, OutageUntouched
       DEF RunContractCalendar, RunCancellations, NoLead, NoMoreContracts, NoMoreGroups,
           NoMoreParties
  <1>14. ASSUME NEW n \in Sizes, NEW date \in Days, NEW m \in Nights,
                GenerateEventLeads(n, date, m)
         PROVE OutageInv'
    BY <1>14, OutageUntouched DEF GenerateEventLeads
  <1>15. ASSUME NEW n \in Sizes, GenerateContractDemand(n)
         PROVE OutageInv'
    BY <1>15, OutageUntouched DEF GenerateContractDemand, Reserve
  <1>16. CASE GroupArrives
    BY <1>16, OutageUntouched DEF GroupArrives, Reserve
  <1>17. ASSUME NEW c \in Categories, NEW lead \in LeadDays, NEW m \in Nights,
                GenerateDemand(c, lead, m)
         PROVE OutageInv'
    BY <1>17, OutageUntouched DEF GenerateDemand, Reserve
  <1>18. QED
    BY <1>1, <1>2, <1>3, <1>4, <1>5, <1>6, <1>7, <1>8, <1>9, <1>10, <1>11, <1>12, <1>13,
       <1>14, <1>15, <1>16, <1>17 DEF Next

(***************************************************************************)
(* A room is out of order only during an outage, and no outage lasts past  *)
(* the maintenance phase of the quantum it ends in, so every room that was *)
(* closed comes back (GameSimulation.ts:2471).                             *)
(***************************************************************************)
THEOREM RoomsComeBack == Spec => []OutOfOrderOnlyInOutage
PROOF
  <1>1. Init => OutageInv /\ StaysInv
    BY OutageInit, StaysInit
  <1>2. OutageInv /\ StaysInv /\ [Next]_vars => (OutageInv /\ StaysInv)'
    BY OutageNext, StaysNext
  <1>3. OutageInv /\ StaysInv => OutOfOrderOnlyInOutage
    BY DEF OutageInv, OutageTimed, FaultyIsOutage, OutOfOrderOnlyInOutage
  <1>4. QED BY <1>1, <1>2, <1>3, PTL DEF Spec
-----------------------------------------------------------------------------
(***************************************************************************)
(* Lists and sets of numbers: the desk's rooms and arrivals are the first  *)
(* of a set, and its lists name each member once.                          *)
(***************************************************************************)
Below(x, S) == {y \in S : y < x}

\* Of a finite set of numbers, the greater has more below it.
LEMMA BelowGrows ==
  ASSUME NEW S \in SUBSET Int, IsFiniteSet(S), NEW x \in S, NEW y \in S
  PROVE  /\ IsFiniteSet(Below(x, S))
         /\ Cardinality(Below(x, S)) \in 0 .. Cardinality(S) - 1
         /\ x < y => Cardinality(Below(x, S)) < Cardinality(Below(y, S))
PROOF
  <1>1. ASSUME NEW T \in SUBSET S PROVE IsFiniteSet(T) /\ Cardinality(T) \in Nat
    BY <1>1, FS_Subset, FS_CardinalityType
  <1>2. ASSUME NEW T \in SUBSET S, x \in T, Below(x, S) \subseteq T
        PROVE  Cardinality(Below(x, S)) < Cardinality(T)
    <2>1. x \notin Below(x, S)
      BY DEF Below
    <2>2. IsFiniteSet(T \ {x}) /\ Cardinality(T \ {x}) = Cardinality(T) - 1
      BY <1>1, <1>2, FS_RemoveElement
    <2>3. Below(x, S) \subseteq T \ {x}
      BY <1>2, <2>1
    <2>4. Cardinality(Below(x, S)) <= Cardinality(T \ {x})
      BY <2>2, <2>3, FS_Subset
    <2>5. Below(x, S) \subseteq S /\ T \subseteq S
      BY DEF Below
    <2>6. Cardinality(Below(x, S)) \in Nat /\ Cardinality(T) \in Nat
      BY <1>1, <2>5
    <2>7. QED BY <2>2, <2>4, <2>6
  <1>3. Below(x, S) \subseteq S
    BY DEF Below
  <1>4. IsFiniteSet(Below(x, S)) /\ Cardinality(Below(x, S)) \in Nat
    BY <1>1, <1>3
  <1>5. Cardinality(Below(x, S)) < Cardinality(S) /\ Cardinality(S) \in Nat
    BY <1>1, <1>2, <1>3
  <1>6. ASSUME x < y PROVE Cardinality(Below(x, S)) < Cardinality(Below(y, S))
    <2>1. Below(y, S) \subseteq S /\ x \in Below(y, S) /\ Below(x, S) \subseteq Below(y, S)
      <3>1. \A z \in S : z \in Int
        OBVIOUS
      <3>2. \A z \in S : z < x => z < y
        BY <1>6, <3>1
      <3>3. QED BY <1>6, <3>2 DEF Below
    <2>2. QED BY <1>2, <2>1
  <1>7. QED BY <1>4, <1>5, <1>6

\* The numbers below, counted, number a finite set from 0.
LEMMA RankIsOnto ==
  ASSUME NEW S \in SUBSET Int, IsFiniteSet(S)
  PROVE  LET rank == [x \in S |-> Cardinality(Below(x, S))]
             c == Cardinality(S)
         IN  /\ \A x, y \in S : rank[x] = rank[y] => x = y
             /\ \A x \in S : rank[x] \in 0 .. c - 1
             /\ rank \in Surjection(S, 0 .. c - 1)
PROOF
  <1> DEFINE c == Cardinality(S)
             rank == [x \in S |-> Cardinality(Below(x, S))]
  <1>1. c \in Nat
    BY FS_CardinalityType
  <1>2. \A x, y \in S : rank[x] \in 0 .. c - 1 /\ (x < y => rank[x] < rank[y])
    BY BelowGrows
  <1>3. \A x, y \in S : rank[x] = rank[y] => x = y
    <2>1. ASSUME NEW x \in S, NEW y \in S, x # y PROVE rank[x] # rank[y]
      <3>1. x \in Int /\ y \in Int /\ (x < y \/ y < x)
        BY <2>1
      <3>2. rank[x] \in Int /\ rank[y] \in Int
        BY <1>1, <1>2
      <3>3. rank[x] < rank[y] \/ rank[y] < rank[x]
        BY <1>2, <3>1
      <3> HIDE DEF rank
      <3>4. QED BY <3>2, <3>3
    <2>2. QED BY <2>1
  <1>5. IsFiniteSet(0 .. c - 1) /\ Cardinality(0 .. c - 1) = c
    <2>1. 0 \in Int /\ c - 1 \in Int /\ (0 > c - 1 => c = 0) /\ c - 1 - 0 + 1 = c
      BY <1>1
    <2> HIDE DEF c
    <2>2. QED BY <2>1, FS_Interval
  <1>6. rank \in Injection(S, 0 .. c - 1)
    <2>1. rank \in [S -> 0 .. c - 1]
      BY <1>2
    <2> HIDE DEF rank, c
    <2>2. QED BY <1>3, <2>1 DEF Injection, IsInjective
  <1>7. rank \in Surjection(S, 0 .. c - 1)
    <2> HIDE DEF rank
    <2>1. QED BY <1>5, <1>6, FS_Injection
  <1>8. QED BY <1>2, <1>3, <1>7

\* The n first of at least n numbers are n.
LEMMA FirstHasSize ==
  ASSUME NEW S \in SUBSET Int, IsFiniteSet(S), NEW n \in Nat, n <= Cardinality(S)
  PROVE  IsFiniteSet(First(n, S)) /\ Cardinality(First(n, S)) = n
PROOF
  <1> DEFINE c == Cardinality(S)
             rank == [x \in S |-> Cardinality(Below(x, S))]
             least == [x \in First(n, S) |-> rank[x]]
  <1>1. c \in Nat
    BY FS_CardinalityType
  <1>2. \A x \in S : rank[x] \in 0 .. c - 1
    BY RankIsOnto
  <1>3. \A x, y \in S : rank[x] = rank[y] => x = y
    BY RankIsOnto
  <1>4. First(n, S) = {x \in S : rank[x] < n}
    BY DEF First, Below
  <1>7. rank \in Surjection(S, 0 .. c - 1)
    BY RankIsOnto
  <1>8. IsFiniteSet(0 .. n - 1) /\ Cardinality(0 .. n - 1) = n
    <2>1. 0 \in Int /\ n - 1 \in Int /\ (0 > n - 1 => n = 0) /\ n - 1 - 0 + 1 = n
      OBVIOUS
    <2>2. QED BY <2>1, FS_Interval
  <1> HIDE DEF rank, c
  <1>9. least \in Injection(First(n, S), 0 .. n - 1)
    <2>1. \A x \in First(n, S) : x \in S /\ rank[x] < n /\ rank[x] \in 0 .. c - 1
      BY <1>2, <1>4
    <2>2. \A x \in First(n, S) : rank[x] \in 0 .. n - 1
      BY <1>1, <2>1
    <2>3. \A x, y \in First(n, S) : least[x] = least[y] => x = y
      BY <1>3, <2>1
    <2>4. least \in [First(n, S) -> 0 .. n - 1]
      BY <2>2
    <2> HIDE DEF least
    <2>5. QED BY <2>3, <2>4 DEF Injection, IsInjective
  <1>10. least \in Surjection(First(n, S), 0 .. n - 1)
    <2>1. \A k \in 0 .. n - 1 : k \in 0 .. c - 1
      <3>1. n <= c
        BY DEF c
      <3>2. QED BY <1>1, <3>1
    <2>2. \A k \in 0 .. n - 1 : \E x \in S : rank[x] = k
      BY <1>7, <2>1 DEF Surjection
    <2>3. \A k \in 0 .. n - 1 : \E x \in First(n, S) : least[x] = k
      BY <1>4, <2>2
    <2> HIDE DEF least
    <2>4. QED BY <1>9, <2>3 DEF Injection, Surjection
  <1> HIDE DEF least
  <1>11. IsFiniteSet(First(n, S)) /\ Cardinality(First(n, S)) = Cardinality(0 .. n - 1)
    BY <1>8, <1>9, <1>10, FS_Injection
  <1>12. QED BY <1>8, <1>11

\* A list in ascending order names every number of the set once.
LEMMA AscendingLists ==
  ASSUME NEW S \in SUBSET Int, IsFiniteSet(S), NEW f \in Ascending(S)
  PROVE  /\ DOMAIN f = 1 .. Cardinality(S) /\ Cardinality(S) \in Nat
         /\ \A i \in DOMAIN f : f[i] \in S
         /\ \A i, j \in DOMAIN f : f[i] = f[j] => i = j
         /\ \A x \in S : \E i \in DOMAIN f : f[i] = x
PROOF
  <1> DEFINE c == Cardinality(S)
  <1>1. c \in Nat
    BY FS_CardinalityType
  <1>2. f \in [1 .. c -> S] /\ DOMAIN f = 1 .. c
        /\ \A i, j \in 1 .. c : i < j => f[i] < f[j]
    BY DEF Ascending
  <1>3. \A i, j \in 1 .. c : f[i] = f[j] => i = j
    <2>1. ASSUME NEW i \in 1 .. c, NEW j \in 1 .. c, i # j PROVE f[i] # f[j]
      <3>1. f[i] \in Int /\ f[j] \in Int
        BY <1>2
      <3>2. i < j \/ j < i
        BY <1>1, <2>1
      <3>3. f[i] < f[j] \/ f[j] < f[i]
        BY <1>2, <3>2
      <3>4. QED BY <3>1, <3>3
    <2>2. QED BY <2>1
  <1>4. IsFiniteSet(1 .. c) /\ Cardinality(1 .. c) = c
    <2>1. 1 \in Int /\ c \in Int /\ (1 > c => c = 0) /\ c - 1 + 1 = c
      BY <1>1
    <2> HIDE DEF c
    <2>2. QED BY <2>1, FS_Interval
  <1>5. f \in Injection(1 .. c, S)
    <2> HIDE DEF c
    <2>1. QED BY <1>2, <1>3 DEF Injection, IsInjective
  <1>6. f \in Surjection(1 .. c, S)
    BY <1>4, <1>5, FS_Injection
  <1>7. \A x \in S : \E i \in 1 .. c : f[i] = x
    <2> HIDE DEF c
    <2>1. QED BY <1>6 DEF Surjection
  <1> HIDE DEF c
  <1>8. QED BY <1>1, <1>2, <1>3, <1>7 DEF c
\* What a function makes of a finite set is finite.
LEMMA ImageIsFinite ==
  ASSUME NEW S, IsFiniteSet(S), NEW f, f = [x \in S |-> f[x]]
  PROVE  IsFiniteSet({f[x] : x \in S})
PROOF
  <1> DEFINE T == {f[x] : x \in S}
  <1>1. f \in [S -> T] /\ \A t \in T : \E x \in S : f[x] = t
    OBVIOUS
  <1> HIDE DEF T
  <1>2. f \in Surjection(S, T)
    BY <1>1 DEF Surjection
  <1>3. IsFiniteSet(T)
    BY <1>2, FS_Surjection
  <1>4. QED BY <1>3 DEF T

\* A finite set of numbers has a greatest.
LEMMA MaxIsThere ==
  ASSUME NEW S \in SUBSET Int, IsFiniteSet(S), S # {}
  PROVE  Max(S) \in S /\ \A x \in S : Max(S) >= x
PROOF
  <1> DEFINE c == Cardinality(S)
             rank == [x \in S |-> Cardinality(Below(x, S))]
  <1>1. c \in Nat \ {0}
    BY FS_CardinalityType, FS_EmptySet
  <1>2. rank \in Surjection(S, 0 .. c - 1)
    BY RankIsOnto
  <1>3. PICK m \in S : rank[m] = c - 1
    <2>1. c - 1 \in 0 .. c - 1
      BY <1>1
    <2> HIDE DEF rank, c
    <2>2. QED BY <1>2, <2>1 DEF Surjection
  <1>4. \A x \in S : m >= x
    <2>1. ASSUME NEW x \in S, ~(m >= x) PROVE FALSE
      <3>1. m \in Int /\ x \in Int /\ m < x
        BY <2>1
      <3>2. rank[m] < rank[x] /\ rank[x] \in 0 .. c - 1
        BY <3>1, BelowGrows
      <3> HIDE DEF rank, c
      <3>3. QED BY <1>1, <1>3, <3>2
    <2>2. QED BY <2>1
  <1>5. QED BY <1>3, <1>4 DEF Max

-----------------------------------------------------------------------------
\* A step that leaves a part of the state alone leaves its type alone.
LEMMA PartsUntouched ==
  /\ HouseTyped /\ UNCHANGED house => HouseTyped'
  /\ BooksTyped /\ UNCHANGED books => BooksTyped'
  /\ BlocksTyped /\ UNCHANGED blocks => BlocksTyped'
  /\ DeskTyped /\ UNCHANGED frontDesk => DeskTyped'
  /\ StaffTyped /\ UNCHANGED staff => StaffTyped'
  /\ ClockTyped /\ UNCHANGED clock /\ phase' \in Phases => ClockTyped'
PROOF
  <1>1. HouseTyped /\ UNCHANGED house => HouseTyped'
    BY DEF HouseTyped, house, Built
  <1>2. BooksTyped /\ UNCHANGED books => BooksTyped'
    BY DEF BooksTyped, books, OnTheBooks
  <1>3. BlocksTyped /\ UNCHANGED blocks => BlocksTyped'
    BY DEF BlocksTyped
  <1>4. DeskTyped /\ UNCHANGED frontDesk => DeskTyped'
    BY DEF DeskTyped, frontDesk
  <1>5. StaffTyped /\ UNCHANGED staff => StaffTyped'
    BY DEF StaffTyped, staff
  <1>6. ClockTyped /\ UNCHANGED clock /\ phase' \in Phases => ClockTyped'
    BY DEF ClockTyped, clock
  <1>7. QED BY <1>1, <1>2, <1>3, <1>4, <1>5, <1>6

\* Phases a step may end in.
LEMMA PhaseNames ==
  /\ {"commands", "arrivalsDepartures", "roomState", "staffService", "maintenanceFailures",
      "finance", "cancellations", "leads", "contracts", "groups", "parties"} \subseteq Phases
  /\ AfterMaintenance => phase' \in {"finance", "cancellations", "commands"}
  BY DEF Phases, AfterMaintenance

LEMMA BecomeTyped ==
  ASSUME BooksTyped, NEW bs, NEW status \in Statuses, Become(bs, status),
         taken' = taken, charged' \in [Bookings -> Nat]
  PROVE  BooksTyped' /\ OnTheBooks' = OnTheBooks
         /\ \A b \in OnTheBooks :
              /\ reservations'[b].status = IF b \in bs THEN status ELSE reservations[b].status
              /\ reservations'[b].category = reservations[b].category
              /\ reservations'[b].rooms = reservations[b].rooms
              /\ reservations'[b].arrival = reservations[b].arrival
              /\ reservations'[b].nights = reservations[b].nights
              /\ reservations'[b].by = reservations[b].by
PROOF
  <1>1. OnTheBooks' = OnTheBooks
        /\ \A b \in OnTheBooks : reservations'[b] =
             IF b \in bs THEN [reservations[b] EXCEPT !.status = status] ELSE reservations[b]
    BY DEF Become, OnTheBooks
  <1>2. ASSUME NEW b \in OnTheBooks
        PROVE  /\ reservations'[b] \in Records
               /\ reservations'[b].status = IF b \in bs THEN status ELSE reservations[b].status
               /\ reservations'[b].category = reservations[b].category
               /\ reservations'[b].rooms = reservations[b].rooms
               /\ reservations'[b].arrival = reservations[b].arrival
               /\ reservations'[b].nights = reservations[b].nights
               /\ reservations'[b].by = reservations[b].by
    <2>1. reservations[b] \in Records
      BY DEF BooksTyped
    <2>2. CASE b \in bs
      <3>1. reservations'[b] = [reservations[b] EXCEPT !.status = status]
        BY <1>1, <2>2
      <3>2. QED BY <2>1, <2>2, <3>1 DEF Records
    <2>3. CASE b \notin bs
      BY <1>1, <2>1, <2>3
    <2>4. QED BY <2>2, <2>3
  <1>3. BooksTyped'
    BY <1>1, <1>2 DEF BooksTyped
  <1>4. QED BY <1>1, <1>2, <1>3

LEMMA TypeInit == Init => TypeOK
PROOF
  <1> SUFFICES ASSUME Init PROVE TypeOK
    OBVIOUS
  <1>1. ClockTyped
    <2>1. MaxDay \in Nat /\ QuantaPerDay \in Nat \ {0}
      BY RoomsAssumption
    <2>2. 0 \in 0 .. MaxDay /\ 0 \in 0 .. QuantaPerDay - 1
      BY <2>1
    <2>3. QED BY <2>2 DEF Init, ClockTyped, Days, Phases
  <1>2. HouseTyped
    BY RoomsAssumption DEF Init, HouseTyped, Built, States
  <1>3. BooksTyped
    BY RoomsAssumption DEF Init, BooksTyped, OnTheBooks
  <1>4. BlocksTyped
    BY FS_EmptySet DEF Init, BlocksTyped
  <1>5. DeskTyped
    <2>1. queue = <<>> /\ calling = <<>> /\ stays = {} /\ desk = 0
      BY DEF Init
    <2>2. CheckInQuanta \in Nat /\ MaxBookings \in Nat
      BY RoomsAssumption
    <2>3. CheckInQuanta * MaxBookings \in Nat
      BY <2>2
    <2>4. <<>> \in Seq([booking : Bookings, waited : 0 .. WalkAfter]) /\ <<>> \in Seq(Bookings)
      BY EmptySeq
    <2>5. QED BY <2>1, <2>3, <2>4 DEF DeskTyped
  <1>6. StaffTyped
    BY RoomsAssumption DEF Init, StaffTyped
  <1>7. QED BY <1>1, <1>2, <1>3, <1>4, <1>5, <1>6 DEF TypeOK

LEMMA ConfirmedIsFinite ==
  BooksTyped => OnTheBooks \subseteq Bookings /\ OnTheBooks \subseteq Int
                /\ \A S \in SUBSET OnTheBooks : IsFiniteSet(S)
PROOF
  <1> SUFFICES ASSUME BooksTyped
               PROVE  OnTheBooks \subseteq Bookings /\ OnTheBooks \subseteq Int
                      /\ \A S \in SUBSET OnTheBooks : IsFiniteSet(S)
    OBVIOUS
  <1>1. MaxBookings \in Nat /\ taken \in 0 .. MaxBookings
    BY RoomsAssumption DEF BooksTyped
  <1>2. OnTheBooks \subseteq Bookings /\ OnTheBooks \subseteq Int
    BY <1>1 DEF BooksTyped, Bookings
  <1>3. IsFiniteSet(Bookings)
    BY <1>1, FS_Interval DEF Bookings
  <1>4. ASSUME NEW S \in SUBSET OnTheBooks PROVE IsFiniteSet(S)
    BY <1>2, <1>3, FS_Subset
  <1>5. QED BY <1>2, <1>4

\* No id of a block is given twice.
LEMMA NewIdIsNat == BooksTyped /\ BlocksTyped => NewId \in Nat
PROOF
  <1> SUFFICES ASSUME BooksTyped, BlocksTyped PROVE NewId \in Nat
    OBVIOUS
  <1> DEFINE ids == {k.id : k \in blocks}
             named == {reservations[b].block : b \in OnTheBooks}
             all == {0} \cup ids \cup named
  <1>1. IsFiniteSet(ids)
    <2>1. IsFiniteSet(blocks)
      BY DEF BlocksTyped
    <2> DEFINE f == [k \in blocks |-> k.id]
    <2>2. ids = {f[k] : k \in blocks} /\ f = [k \in blocks |-> f[k]]
      OBVIOUS
    <2> HIDE DEF f, ids
    <2>3. QED BY <2>1, <2>2, ImageIsFinite
  <1>2. IsFiniteSet(named)
    <2>1. IsFiniteSet(OnTheBooks)
      BY ConfirmedIsFinite
    <2> DEFINE f == [b \in OnTheBooks |-> reservations[b].block]
    <2>2. named = {f[b] : b \in OnTheBooks} /\ f = [b \in OnTheBooks |-> f[b]]
      OBVIOUS
    <2> HIDE DEF f, named
    <2>3. QED BY <2>1, <2>2, ImageIsFinite
  <1>3. IsFiniteSet(all)
    <2> HIDE DEF ids, named
    <2>1. IsFiniteSet({0} \cup ids)
      BY <1>1, FS_Singleton, FS_Union
    <2>2. QED BY <1>2, <2>1, FS_Union
  <1>4. all \subseteq Nat
    <2>1. ids \subseteq Nat
      BY DEF BlocksTyped, BlockRecords
    <2>2. named \subseteq Nat
      BY DEF BooksTyped, Records
    <2> HIDE DEF ids, named
    <2>3. QED BY <2>1, <2>2
  <1>5. 0 \in all /\ NewId = 1 + Max(all)
    BY DEF NewId
  <1> HIDE DEF all
  <1>6. Max(all) \in all
    BY <1>3, <1>4, <1>5, MaxIsThere
  <1>7. Max(all) \in Nat
    BY <1>4, <1>6
  <1>8. \A m \in Nat : 1 + m \in Nat
    OBVIOUS
  <1>9. 1 + Max(all) \in Nat
    BY <1>7, <1>8
  <1>10. QED BY <1>5, <1>9

LEMMA TypeAcceptBlock ==
  ASSUME TypeOK, NEW kind \in {"allotment", "group"}, NEW c \in Categories, NEW n \in Sizes,
         NEW date \in today + 1 .. MaxDay, NEW release \in today + 1 .. MaxDay,
         AcceptBlock(kind, c, date, n, release)
  PROVE  TypeOK'
PROOF
  <1> DEFINE k == [id |-> NewId, kind |-> kind, category |-> c, date |-> date, nights |-> 1,
                   rooms |-> n, release |-> release, released |-> FALSE]
  <1>1. blocks' = blocks \cup {k}
    BY DEF AcceptBlock
  <1>2. k \in BlockRecords
    <2>1. NewId \in Nat
      BY NewIdIsNat DEF TypeOK
    <2>2. n \in Nat /\ date \in Nat /\ release \in Nat
      BY RoomsAssumption DEF TypeOK, ClockTyped, Days
    <2>3. QED BY <2>1, <2>2 DEF BlockRecords
  <1>3. k.kind = "group" => k.rooms \in Sizes
    OBVIOUS
  <1> HIDE DEF k
  <1>4. IsFiniteSet(blocks')
    BY <1>1, FS_AddElement DEF TypeOK, BlocksTyped
  <1>5. BlocksTyped'
    BY <1>1, <1>2, <1>3, <1>4 DEF TypeOK, BlocksTyped
  <1>6. QED BY <1>5, PartsUntouched DEF AcceptBlock, TypeOK, ClockTyped

LEMMA TypeStartRenovation == TypeOK /\ StartRenovation => TypeOK'
PROOF
  <1> SUFFICES ASSUME TypeOK, StartRenovation PROVE TypeOK'
    OBVIOUS
  <1>1. HouseTyped'
    BY RoomsAssumption DEF TypeOK, HouseTyped, StartRenovation, Built
  <1>2. QED BY <1>1, PartsUntouched DEF StartRenovation, TypeOK, ClockTyped

LEMMA TypeAdvanceTime == TypeOK /\ AdvanceTime => TypeOK'
PROOF
  <1> SUFFICES ASSUME TypeOK, AdvanceTime PROVE TypeOK'
    OBVIOUS
  <1>1. ClockTyped'
    <2>1. today \in Nat /\ today <= MaxDay /\ MaxDay \in Nat /\ QuantaPerDay \in Nat
          /\ quantum \in 0 .. QuantaPerDay - 1
      BY RoomsAssumption DEF TypeOK, ClockTyped, Days
    <2>2. phase' \in Phases
      BY PhaseNames DEF AdvanceTime
    <2>3. CASE quantum < QuantaPerDay - 1
      BY <2>1, <2>2, <2>3 DEF AdvanceTime, ClockTyped, Days
    <2>4. CASE ~(quantum < QuantaPerDay - 1)
      BY <2>1, <2>2, <2>4 DEF AdvanceTime, ClockTyped, Days
    <2>5. QED BY <2>3, <2>4
  <1>2. StaffTyped'
    BY DEF AdvanceTime, TypeOK, StaffTyped
  <1>3. QED BY <1>1, <1>2, PartsUntouched DEF AdvanceTime, TypeOK

LEMMA TypeCheckOut == TypeOK /\ CheckOut => TypeOK'
PROOF
  <1> SUFFICES ASSUME TypeOK, CheckOut PROVE TypeOK'
    OBVIOUS
  <1>1. HouseTyped'
    <2>1. Built' = Built /\ \A r \in Built : rooms'[r] \in {"VacantDirty", rooms[r]}
      BY DEF CheckOut, Built
    <2>2. \A r \in Built : rooms'[r] \in States
      BY <2>1 DEF TypeOK, HouseTyped, States
    <2>3. QED BY <2>1, <2>2 DEF TypeOK, HouseTyped, CheckOut
  <1>2. BooksTyped'
    <2>1. "completed" \in Statuses
      BY DEF Statuses
    <2>2. Become({s.booking : s \in Leaving} \cap CheckedIn, "completed")
      BY DEF CheckOut
    <2>3. taken' = taken /\ charged' \in [Bookings -> Nat] /\ BooksTyped
      BY DEF CheckOut, TypeOK, BooksTyped
    <2>4. QED BY <2>1, <2>2, <2>3, BecomeTyped
  <1>3. DeskTyped'
    BY DEF CheckOut, TypeOK, DeskTyped
  <1>4. QED BY <1>1, <1>2, <1>3, PartsUntouched, PhaseNames DEF CheckOut, TypeOK

LEMMA TypeArrivalWave == TypeOK /\ ArrivalWave => TypeOK'
PROOF
  <1> SUFFICES ASSUME TypeOK, ArrivalWave PROVE TypeOK'
    OBVIOUS
  <1> DEFINE due == {b \in Confirmed : reservations[b].arrival = today}
             W == [booking : Bookings, waited : 0 .. WalkAfter]
  <1>1. PICK absent \in SUBSET {b \in due : ~reservations[b].guaranteed} :
          \E coming \in Ascending(due \ absent) :
            queue' = queue \o [i \in DOMAIN coming |-> [booking |-> coming[i], waited |-> 0]]
    BY DEF ArrivalWave
  <1> DEFINE S == due \ absent
  <1>2. PICK coming \in Ascending(S) :
          queue' = queue \o [i \in DOMAIN coming |-> [booking |-> coming[i], waited |-> 0]]
    BY <1>1
  <1>3. S \subseteq OnTheBooks
    BY DEF Confirmed
  <1>4. IsFiniteSet(S) /\ S \subseteq Int /\ S \subseteq Bookings
    BY <1>3, ConfirmedIsFinite DEF TypeOK
  <1> DEFINE new == [i \in DOMAIN coming |-> [booking |-> coming[i], waited |-> 0]]
  <1> HIDE DEF S
  <1>5. DOMAIN coming = 1 .. Cardinality(S) /\ Cardinality(S) \in Nat
        /\ \A i \in DOMAIN coming : coming[i] \in S
    BY <1>4, AscendingLists
  <1>6. new \in Seq(W)
    <2>1. WalkAfter \in Nat
      BY RoomsAssumption
    <2>2. \A i \in DOMAIN coming : [booking |-> coming[i], waited |-> 0] \in W
      <3>1. 0 \in 0 .. WalkAfter
        BY <2>1
      <3>2. \A i \in DOMAIN coming : coming[i] \in Bookings
        BY <1>4, <1>5
      <3>3. QED BY <3>1, <3>2
    <2>3. new \in [1 .. Cardinality(S) -> W]
      BY <1>5, <2>2
    <2> HIDE DEF new, W
    <2>4. QED BY <1>5, <2>3, SeqDef
  <1>7. queue' \in Seq(W)
    <2>1. queue \in Seq(W) /\ queue' = queue \o new
      BY <1>2 DEF TypeOK, DeskTyped
    <2> HIDE DEF new, W
    <2>2. QED BY <1>6, <2>1, ConcatProperties
  <1>8. DeskTyped'
    BY <1>7 DEF TypeOK, DeskTyped, ArrivalWave
  <1>9. BlocksTyped'
    <2>1. blocks' \subseteq blocks
      BY DEF ArrivalWave
    <2>2. IsFiniteSet(blocks')
      BY <2>1, FS_Subset DEF TypeOK, BlocksTyped
    <2>3. QED BY <2>1, <2>2 DEF TypeOK, BlocksTyped
  <1>10. QED BY <1>8, <1>9, PartsUntouched, PhaseNames DEF ArrivalWave, TypeOK

\* Midnight changes statuses, and takes old bookings off the books.
LEMMA MidnightBooks ==
  ASSUME BooksTyped, Midnight
  PROVE  LET gone == {b \in Confirmed \ Waiting : reservations[b].arrival = today - 1}
         IN  /\ BooksTyped' /\ OnTheBooks' \subseteq OnTheBooks /\ Live \subseteq OnTheBooks'
             /\ \A b \in OnTheBooks' :
                  /\ reservations'[b].status = IF b \in gone THEN "noShow" ELSE Status(b)
                  /\ reservations'[b].category = reservations[b].category
                  /\ reservations'[b].rooms = reservations[b].rooms
                  /\ reservations'[b].arrival = reservations[b].arrival
                  /\ reservations'[b].nights = reservations[b].nights
                  /\ reservations'[b].by = reservations[b].by
             /\ \A b \in Bookings : charged'[b] = charged[b] + (IF b \in gone THEN 1 ELSE 0)
PROOF
  <1> DEFINE gone == {b \in Confirmed \ Waiting : reservations[b].arrival = today - 1}
             over == {b \in OnTheBooks \ Live :
                        reservations[b].arrival + reservations[b].nights + RetentionDays <= today}
  <1>1. /\ reservations' = [b \in OnTheBooks \ over |->
              IF b \in gone THEN [reservations[b] EXCEPT !.status = "noShow"]
                            ELSE reservations[b]]
        /\ charged' = [b \in Bookings |-> charged[b] + (IF b \in gone THEN 1 ELSE 0)]
        /\ taken' = taken
    BY DEF Midnight
  <1>2. OnTheBooks' = OnTheBooks \ over /\ Live \cap over = {}
    BY <1>1 DEF OnTheBooks
  <1>3. Live \subseteq OnTheBooks
    BY DEF Live
  <1> HIDE DEF over, gone
  <1>4. ASSUME NEW b \in OnTheBooks'
        PROVE  /\ reservations'[b] \in Records
               /\ reservations'[b].status = IF b \in gone THEN "noShow" ELSE Status(b)
               /\ reservations'[b].category = reservations[b].category
               /\ reservations'[b].rooms = reservations[b].rooms
               /\ reservations'[b].arrival = reservations[b].arrival
               /\ reservations'[b].nights = reservations[b].nights
               /\ reservations'[b].by = reservations[b].by
    <2>1. reservations[b] \in Records
      BY <1>2 DEF BooksTyped
    <2>2. reservations'[b] = IF b \in gone THEN [reservations[b] EXCEPT !.status = "noShow"]
                             ELSE reservations[b]
      BY <1>1, <1>2
    <2>3. "noShow" \in Statuses
      BY DEF Statuses
    <2>4. CASE b \in gone
      <3>1. reservations'[b] = [reservations[b] EXCEPT !.status = "noShow"]
        BY <2>2, <2>4
      <3>2. QED BY <2>1, <2>3, <2>4, <3>1 DEF Records
    <2>5. CASE b \notin gone
      BY <2>1, <2>2, <2>5 DEF Status
    <2>6. QED BY <2>4, <2>5
  <1>5. charged' \in [Bookings -> Nat]
    <2>1. \A b \in Bookings : charged[b] + (IF b \in gone THEN 1 ELSE 0) \in Nat
      BY DEF BooksTyped
    <2>2. QED BY <1>1, <2>1
  <1>6. BooksTyped'
    BY <1>1, <1>2, <1>4, <1>5 DEF BooksTyped
  <1>7. \A b \in Bookings : charged'[b] = charged[b] + (IF b \in gone THEN 1 ELSE 0)
    BY <1>1
  <1>8. QED BY <1>2, <1>3, <1>4, <1>6, <1>7 DEF gone

LEMMA TypeMidnight == TypeOK /\ Midnight => TypeOK'
PROOF
  <1> SUFFICES ASSUME TypeOK, Midnight PROVE TypeOK'
    OBVIOUS
  <1>1. BooksTyped'
    BY MidnightBooks DEF TypeOK
  <1>2. QED BY <1>1, PartsUntouched, PhaseNames DEF Midnight, TypeOK

\* Rooms cleaned cost no more labour than there is.
LEMMA LabourIsLeft ==
  ASSUME NEW w \in Nat, NEW m \in Nat \ {0}, NEW n \in Nat, n <= w \div m
  PROVE  w - n * m \in Nat /\ w - n * m <= w
PROOF
  <1>1. w \div m \in Nat /\ (w \div m) * m <= w
    OBVIOUS
  <1>2. n * m <= (w \div m) * m
    <2> DEFINE q == w \div m
    <2>1. q \in Nat /\ n <= q
      BY <1>1
    <2> HIDE DEF q
    <2>2. n * m <= q * m
      BY <2>1
    <2>3. QED BY <2>2 DEF q
  <1>3. n * m \in Nat /\ (w \div m) * m \in Nat
    BY <1>1
  <1>4. QED BY <1>1, <1>2, <1>3

LEMMA TypeHousekeeping == TypeOK /\ RunHousekeeping => TypeOK'
PROOF
  <1> SUFFICES ASSUME TypeOK, RunHousekeeping PROVE TypeOK'
    OBVIOUS
  <1> DEFINE dirty == InState("VacantDirty")
             after == Built \cup (IF Finishing THEN Rooms ELSE {})
  <1>1. PICK n \in 0 .. Smaller(WorkedOn \div CleanQuanta, Cardinality(dirty)) :
          /\ rooms' = [r \in after |->
                         IF r \notin Built \/ rooms[r] = "Inspected" THEN "VacantClean"
                         ELSE IF r \in First(n, dirty) THEN "Inspected" ELSE rooms[r]]
          /\ labour' = WorkedOn - n * CleanQuanta
    BY DEF RunHousekeeping
  <1>2. HouseTyped'
    <2>1. Built' = after
      BY <1>1 DEF Built
    <2>2. Opened \subseteq after /\ after \subseteq Rooms /\ Built \subseteq after
      BY DEF TypeOK, HouseTyped
    <2>3. \A r \in after : rooms'[r] \in States
      <3>1. \A r \in after :
              rooms'[r] \in {"VacantClean", "Inspected"} \/ (r \in Built /\ rooms'[r] = rooms[r])
        BY <1>1
      <3>2. QED BY <3>1 DEF TypeOK, HouseTyped, States
    <2>4. renovation' \in {None} \cup 1 .. RenovationQuanta
      <3>1. RenovationQuanta \in Nat /\ renovation \in {None} \cup 1 .. RenovationQuanta
        BY RoomsAssumption DEF TypeOK, HouseTyped
      <3>2. renovation' = IF renovation = None \/ renovation = 1 THEN None ELSE renovation - 1
        BY DEF RunHousekeeping, Finishing
      <3>3. CASE renovation = None \/ renovation = 1
        BY <3>2, <3>3
      <3>4. CASE ~(renovation = None \/ renovation = 1)
        <4>1. renovation \in 1 .. RenovationQuanta /\ renovation # 1
          BY <3>1, <3>4
        <4>2. renovation - 1 \in 1 .. RenovationQuanta
          BY <3>1, <4>1
        <4>3. QED BY <3>2, <3>4, <4>2
      <3>5. QED BY <3>3, <3>4
    <2>5. QED BY <2>1, <2>2, <2>3, <2>4 DEF RunHousekeeping, TypeOK, HouseTyped
  <1>3. StaffTyped'
    <2>1. /\ MaxLabour \in Nat /\ CleanQuanta \in Nat \ {0} /\ labour \in 0 .. MaxLabour
          /\ housekeepers \in Nat
      BY RoomsAssumption DEF TypeOK, StaffTyped
    <2>2. WorkedOn \in 0 .. MaxLabour
      BY <2>1 DEF WorkedOn, Smaller
    <2>3. IsFiniteSet(dirty)
      <3>1. dirty \subseteq Rooms
        BY DEF InState, TypeOK, HouseTyped
      <3>2. QED BY <3>1, RoomsAssumption, FS_Subset
    <2>4. Cardinality(dirty) \in Nat /\ WorkedOn \div CleanQuanta \in Nat
      BY <2>1, <2>2, <2>3, FS_CardinalityType
    <2> HIDE DEF dirty
    <2>5. n \in Nat /\ n <= WorkedOn \div CleanQuanta
      BY <1>1, <2>4 DEF Smaller
    <2>6. labour' \in Nat /\ labour' <= WorkedOn
      <3>1. WorkedOn \in Nat
        BY <2>1, <2>2
      <3>2. QED BY <1>1, <2>1, <2>5, <3>1, LabourIsLeft
    <2>7. labour' \in 0 .. MaxLabour
      BY <2>1, <2>2, <2>6
    <2>8. QED BY <2>7 DEF RunHousekeeping, TypeOK, StaffTyped
  <1>4. phase' \in Phases
    BY PhaseNames DEF RunHousekeeping
  <1>5. QED BY <1>2, <1>3, <1>4, PartsUntouched DEF RunHousekeeping, TypeOK

\* Who waits at the desk: a typed list, in which nobody stands twice.
Once == \A i, j \in DOMAIN queue : queue[i].booking = queue[j].booking => i = j

LEMMA QueueFacts ==
  ASSUME DeskTyped
  PROVE  /\ Len(queue) \in Nat /\ DOMAIN queue = 1 .. Len(queue)
         /\ \A i \in DOMAIN queue : queue[i] \in [booking : Bookings, waited : 0 .. WalkAfter]
         /\ Waiting \subseteq Bookings
PROOF
  <1>1. queue \in Seq([booking : Bookings, waited : 0 .. WalkAfter])
    BY DEF DeskTyped
  <1>2. /\ Len(queue) \in Nat /\ DOMAIN queue = 1 .. Len(queue)
        /\ \A i \in DOMAIN queue : queue[i] \in [booking : Bookings, waited : 0 .. WalkAfter]
    BY <1>1, LenProperties, ElementOfSeq
  <1>3. QED BY <1>2 DEF Waiting

\* Leaving the queue takes the booking out of it and leaves the others.
LEMMA LeaveQueueKeeps ==
  ASSUME DeskTyped, NEW b, LeaveQueue(b)
  PROVE  /\ queue' \in Seq([booking : Bookings, waited : 0 .. WalkAfter])
         /\ Waiting' = Waiting \ {b}
         /\ Once => Once'
PROOF
  <1> DEFINE S == {i \in DOMAIN queue : queue[i].booking # b}
             W == [booking : Bookings, waited : 0 .. WalkAfter]
  <1>1. PICK kept \in Ascending(S) : queue' = [i \in DOMAIN kept |-> queue[kept[i]]]
    BY DEF LeaveQueue
  <1>2. S \subseteq Int /\ IsFiniteSet(S)
    <2>1. DOMAIN queue \subseteq Int /\ IsFiniteSet(DOMAIN queue)
      BY QueueFacts, FS_Interval
    <2>2. S \subseteq DOMAIN queue
      OBVIOUS
    <2> HIDE DEF S
    <2>3. QED BY <2>1, <2>2, FS_Subset
  <1>3. /\ DOMAIN kept = 1 .. Cardinality(S) /\ Cardinality(S) \in Nat
        /\ \A i \in DOMAIN kept : kept[i] \in S
        /\ \A i, j \in DOMAIN kept : kept[i] = kept[j] => i = j
        /\ \A x \in S : \E i \in DOMAIN kept : kept[i] = x
    <2> HIDE DEF S
    <2>1. QED BY <1>2, AscendingLists
  <1>4. DOMAIN queue' = DOMAIN kept /\ \A i \in DOMAIN kept : queue'[i] = queue[kept[i]]
    BY <1>1
  <1>5. \A i \in DOMAIN kept : kept[i] \in DOMAIN queue /\ queue[kept[i]].booking # b
    BY <1>3
  <1>6. \A j \in DOMAIN queue : queue[j].booking # b => \E i \in DOMAIN kept : kept[i] = j
    BY <1>3
  <1> HIDE DEF S
  <1>7. queue' \in Seq(W)
    <2>1. \A i \in DOMAIN kept : queue'[i] \in W
      BY <1>4, <1>5, QueueFacts
    <2>2. queue' \in [1 .. Cardinality(S) -> W]
      BY <1>1, <1>3, <1>4, <2>1
    <2> HIDE DEF W
    <2>3. QED BY <1>3, <2>2, SeqDef
  <1>8. Waiting' = Waiting \ {b}
    BY <1>4, <1>5, <1>6 DEF Waiting
  <1>9. Once => Once'
    BY <1>3, <1>4, <1>5 DEF Once
  <1>10. QED BY <1>7, <1>8, <1>9

\* The desk lets everybody wait on.
LEMMA OpenDeskKeeps ==
  ASSUME TypeOK, OpenDesk
  PROVE  /\ queue' \in Seq([booking : Bookings, waited : 0 .. WalkAfter])
         /\ DOMAIN queue' = DOMAIN queue
         /\ \A i \in DOMAIN queue : queue'[i].booking = queue[i].booking
PROOF
  <1> DEFINE W == [booking : Bookings, waited : 0 .. WalkAfter]
  <1>1. queue' = [i \in DOMAIN queue |->
                    [queue[i] EXCEPT !.waited = Smaller(@ + 1, WalkAfter)]]
    BY DEF OpenDesk
  <1>2. WalkAfter \in Nat
    BY RoomsAssumption
  <1>3. ASSUME NEW i \in DOMAIN queue
        PROVE  queue'[i] \in W /\ queue'[i].booking = queue[i].booking
    <2>1. queue[i] \in W
      BY QueueFacts DEF TypeOK
    <2>2. queue'[i] = [queue[i] EXCEPT !.waited = Smaller(queue[i].waited + 1, WalkAfter)]
      BY <1>1
    <2>3. Smaller(queue[i].waited + 1, WalkAfter) \in 0 .. WalkAfter
      BY <1>2, <2>1 DEF Smaller
    <2>4. QED BY <2>1, <2>2, <2>3
  <1>4. queue' \in Seq(W)
    <2>1. DOMAIN queue' = 1 .. Len(queue) /\ Len(queue) \in Nat /\ DOMAIN queue' = DOMAIN queue
      BY <1>1, QueueFacts DEF TypeOK
    <2>2. queue' \in [1 .. Len(queue) -> W]
      BY <1>1, <1>3, <2>1
    <2> HIDE DEF W
    <2>3. QED BY <2>1, <2>2, SeqDef
  <1>5. QED BY <1>1, <1>3, <1>4

LEMMA TypeOpenDesk == TypeOK /\ OpenDesk => TypeOK'
PROOF
  <1> SUFFICES ASSUME TypeOK, OpenDesk PROVE TypeOK'
    OBVIOUS
  <1>1. desk' \in 0 .. CheckInQuanta * MaxBookings
    <2>1. CheckInQuanta \in Nat \ {0} /\ MaxBookings \in Nat
      BY RoomsAssumption
    <2>2. CheckInQuanta * MaxBookings \in Nat /\ receptionists \in Nat /\ desk \in Nat
      BY <2>1, RoomsAssumption DEF TypeOK, DeskTyped, StaffTyped
    <2> DEFINE all == CheckInQuanta * MaxBookings
    <2>3. desk' = Smaller(desk + receptionists, all)
      BY DEF OpenDesk
    <2> HIDE DEF all
    <2>4. desk' \in 0 .. all
      BY <2>2, <2>3 DEF Smaller, all
    <2>5. QED BY <2>4 DEF all
  <1>2. calling' \in Seq(Bookings)
    <2> DEFINE m == Smaller(desk' \div CheckInQuanta, Len(queue))
    <2>1. calling' = [i \in 1 .. m |-> queue[i].booking]
      BY DEF OpenDesk
    <2>2. m \in Nat /\ m <= Len(queue)
      <3>1. CheckInQuanta \in Nat \ {0} /\ MaxBookings \in Nat
        BY RoomsAssumption
      <3>2. desk' \in Nat
        BY <1>1
      <3>3. desk' \div CheckInQuanta \in Nat /\ Len(queue) \in Nat
        BY <3>1, <3>2, QueueFacts DEF TypeOK
      <3>4. QED BY <3>3 DEF Smaller
    <2>3. \A i \in 1 .. m : queue[i].booking \in Bookings
      BY <2>2, QueueFacts DEF TypeOK
    <2> HIDE DEF m
    <2>4. calling' \in [1 .. m -> Bookings]
      BY <2>1, <2>3
    <2>5. QED BY <2>2, <2>4, SeqDef
  <1>3. DeskTyped'
    BY <1>1, <1>2, OpenDeskKeeps DEF TypeOK, DeskTyped, OpenDesk
  <1>4. phase' \in Phases
    BY PhaseNames DEF OpenDesk
  <1>5. QED BY <1>3, <1>4, PartsUntouched DEF OpenDesk, TypeOK

\* What one party at the desk changes.
LEMMA ReceptionKinds ==
  ASSUME TypeOK, RunReception
  PROVE  \E b : /\ CheckIn(b) \/ Walk(b) \/ PassOver(b)
                /\ calling' \in Seq(Bookings) /\ phase' \in {"staffService", "maintenanceFailures"}
PROOF
  <1>1. calling \in Seq(Bookings) /\ calling # <<>> /\ calling' = Tail(calling)
        /\ phase = "staffService"
    BY DEF RunReception, TypeOK, DeskTyped
  <1>2. calling' \in Seq(Bookings)
    BY <1>1, HeadTailProperties
  <1>3. QED BY <1>1, <1>2 DEF RunReception

\* A party that checks in takes that many clean rooms of its category.
LEMMA CheckInTakes ==
  ASSUME TypeOK, NEW b, CheckIn(b)
  PROVE  LET assigned == First(reservations[b].rooms, Ready(reservations[b].category))
             end == reservations[b].arrival + reservations[b].nights
         IN  /\ b \in OnTheBooks /\ Status(b) = "confirmed"
             /\ assigned \subseteq Ready(reservations[b].category)
             /\ IsFiniteSet(assigned) /\ Cardinality(assigned) = reservations[b].rooms
             /\ end \in Nat
             /\ stays' = stays \cup {[booking |-> b, room |-> r, departure |-> end] :
                                       r \in assigned}
             /\ rooms' = [r \in Built |-> IF r \in assigned THEN "Occupied" ELSE rooms[r]]
PROOF
  <1> DEFINE clean == Ready(reservations[b].category)
             n == reservations[b].rooms
  <1>1. b \in OnTheBooks /\ Status(b) = "confirmed" /\ reservations[b] \in Records
    BY DEF CheckIn, Confirmed, TypeOK, BooksTyped
  <1>2. Sizes \subseteq Nat /\ Nights \subseteq Nat
    BY RoomsAssumption
  <1>3. n \in Nat /\ reservations[b].arrival \in Nat /\ reservations[b].nights \in Nat
    <2>1. /\ reservations[b].rooms \in Sizes \cup {1}
          /\ reservations[b].arrival \in Nat
          /\ reservations[b].nights \in Nights \cup {1}
      BY <1>1 DEF Records
    <2>2. Sizes \cup {1} \subseteq Nat /\ Nights \cup {1} \subseteq Nat
      <3>1. 1 \in Nat
        OBVIOUS
      <3>2. QED BY <1>2, <3>1, Zenon
    <2>3. QED BY <2>1, <2>2
  <1>4. clean \in SUBSET Int /\ IsFiniteSet(clean)
    <2>1. clean \subseteq Rooms /\ Rooms \subseteq Int /\ IsFiniteSet(Rooms)
      <3>1. Rooms \subseteq Nat /\ IsFiniteSet(Rooms)
        BY RoomsAssumption
      <3>2. clean \subseteq Built /\ Built \subseteq Rooms
        BY DEF Ready, InState, TypeOK, HouseTyped
      <3> HIDE DEF clean
      <3>3. QED BY <3>1, <3>2
    <2> HIDE DEF clean
    <2>2. QED BY <2>1, FS_Subset
  <1>5. n <= Cardinality(clean)
    <2>1. Cardinality(clean) \in Nat
      BY <1>4, FS_CardinalityType
    <2>2. ~(Cardinality(clean) < n)
      BY DEF CheckIn, Short
    <2> HIDE DEF clean, n
    <2>3. QED BY <1>3, <2>1, <2>2
  <1>6. IsFiniteSet(First(n, clean)) /\ Cardinality(First(n, clean)) = n
    <2> HIDE DEF clean, n
    <2>1. QED BY <1>3, <1>4, <1>5, FirstHasSize
  <1>7. First(n, clean) \subseteq clean
    BY FirstIsSubset
  <1>8. QED BY <1>1, <1>3, <1>6, <1>7 DEF CheckIn

LEMMA TypeReception == TypeOK /\ RunReception => TypeOK'
PROOF
  <1> SUFFICES ASSUME TypeOK, RunReception PROVE TypeOK'
    OBVIOUS
  <1> DEFINE W == [booking : Bookings, waited : 0 .. WalkAfter]
  <1>1. PICK b : /\ CheckIn(b) \/ Walk(b) \/ PassOver(b)
                 /\ calling' \in Seq(Bookings)
                 /\ phase' \in {"staffService", "maintenanceFailures"}
    BY ReceptionKinds
  <1>2. /\ UNCHANGED <<clock, faulty, renovation, outage, outages, taken, charged, blocks,
                      desk, staff>>
    BY DEF RunReception
  <1>3. phase' \in Phases
    BY <1>1, PhaseNames
  <1>4. taken' = taken /\ charged' \in [Bookings -> Nat] /\ BooksTyped
    BY <1>2 DEF TypeOK, BooksTyped
  <1>5. {"checkedIn", "walked"} \subseteq Statuses
    BY DEF Statuses
  <1>6. queue' \in Seq(W)
    <2>1. queue \in Seq(W) /\ DeskTyped
      BY DEF TypeOK, DeskTyped
    <2>2. CASE LeaveQueue(b)
      BY <2>1, <2>2, LeaveQueueKeeps
    <2>3. CASE queue' = queue
      BY <2>1, <2>3
    <2>4. LeaveQueue(b) \/ queue' = queue
      BY <1>1 DEF CheckIn, Walk, PassOver
    <2>5. QED BY <2>2, <2>3, <2>4
  <1>7. CASE CheckIn(b)
    <2> DEFINE assigned == First(reservations[b].rooms, Ready(reservations[b].category))
               end == reservations[b].arrival + reservations[b].nights
    <2>1. /\ b \in OnTheBooks /\ assigned \subseteq Ready(reservations[b].category)
          /\ end \in Nat
          /\ stays' = stays \cup {[booking |-> b, room |-> r, departure |-> end] :
                                    r \in assigned}
          /\ rooms' = [r \in Built |-> IF r \in assigned THEN "Occupied" ELSE rooms[r]]
      BY <1>7, CheckInTakes
    <2>2. assigned \subseteq Built
      BY <2>1 DEF Ready, InState
    <2>3. b \in Bookings
      BY <2>1, ConfirmedIsFinite DEF TypeOK
    <2> HIDE DEF assigned, end
    <2>4. HouseTyped'
      <3>1. Built' = Built /\ \A r \in Built : rooms'[r] \in {"Occupied", rooms[r]}
        BY <2>1 DEF Built
      <3>2. \A r \in Built : rooms'[r] \in States
        BY <3>1 DEF TypeOK, HouseTyped, States
      <3>3. QED BY <1>2, <3>1, <3>2 DEF TypeOK, HouseTyped
    <2>5. DeskTyped'
      <3>1. Built \subseteq Rooms
        BY DEF TypeOK, HouseTyped
      <3>2. \A r \in assigned : [booking |-> b, room |-> r, departure |-> end]
                                  \in [booking : Bookings, room : Rooms, departure : Nat]
        BY <2>1, <2>2, <2>3, <3>1
      <3>3. stays' \subseteq [booking : Bookings, room : Rooms, departure : Nat]
        BY <2>1, <3>2 DEF TypeOK, DeskTyped
      <3>4. QED BY <1>1, <1>2, <1>6, <3>3 DEF TypeOK, DeskTyped
    <2>6. BooksTyped'
      BY <1>4, <1>5, <1>7, BecomeTyped DEF CheckIn
    <2>7. QED BY <1>2, <1>3, <2>4, <2>5, <2>6, PartsUntouched DEF TypeOK
  <1>8. CASE Walk(b)
    <2>1. UNCHANGED <<rooms, stays>> /\ Become({b}, "walked")
      BY <1>8 DEF Walk
    <2>2. BooksTyped'
      BY <1>4, <1>5, <2>1, BecomeTyped
    <2>3. DeskTyped'
      BY <1>1, <1>2, <1>6, <2>1 DEF TypeOK, DeskTyped
    <2>4. QED BY <1>2, <1>3, <2>1, <2>2, <2>3, PartsUntouched DEF TypeOK, house
  <1>9. CASE PassOver(b)
    <2>1. UNCHANGED <<rooms, stays, reservations>>
      BY <1>9 DEF PassOver
    <2>2. DeskTyped'
      BY <1>1, <1>2, <1>6, <2>1 DEF TypeOK, DeskTyped
    <2>3. QED BY <1>2, <1>3, <2>1, <2>2, PartsUntouched DEF TypeOK, house, books
  <1>10. QED BY <1>1, <1>7, <1>8, <1>9

LEMMA TypeOutages ==
  TypeOK /\ (EndOutage \/ StartOutage \/ NothingFails) => TypeOK'
PROOF
  <1> SUFFICES ASSUME TypeOK, EndOutage \/ StartOutage \/ NothingFails PROVE TypeOK'
    OBVIOUS
  <1>1. phase' \in Phases
    BY PhaseNames DEF EndOutage, StartOutage, NothingFails
  <1>2. UNCHANGED <<clock, books, blocks, frontDesk, staff>>
    BY DEF EndOutage, StartOutage, NothingFails
  <1>3. CASE EndOutage
    <2>1. Built' = Built /\ \A r \in Built : rooms'[r] \in {"VacantDirty", rooms[r]}
      BY <1>3 DEF EndOutage, Built
    <2>2. \A r \in Built : rooms'[r] \in States
      BY <2>1 DEF TypeOK, HouseTyped, States
    <2>3. HouseTyped'
      BY <1>3, <2>1, <2>2 DEF EndOutage, TypeOK, HouseTyped
    <2>4. QED BY <1>1, <1>2, <2>3, PartsUntouched DEF TypeOK
  <1>4. CASE StartOutage
    <2>1. Built' = Built /\ \A r \in Built : rooms'[r] \in {"OutOfOrder", rooms[r]}
      BY <1>4 DEF StartOutage, Built
    <2>2. \A r \in Built : rooms'[r] \in States
      BY <2>1 DEF TypeOK, HouseTyped, States
    <2>3. faulty' \subseteq Built
      <3>1. PICK standby \in BOOLEAN :
              faulty' = IF standby THEN {}
                        ELSE {r \in Built : rooms[r] \notin {"Occupied", "OutOfOrder"}}
        BY <1>4 DEF StartOutage
      <3>2. QED BY <3>1
    <2>4. outage' \in Nat
      <3>1. PICK n \in OutageQuanta : outage' = Elapsed + n
        BY <1>4 DEF StartOutage
      <3>2. QuantaPerDay \in Nat /\ today \in Nat /\ quantum \in Nat /\ n \in Nat
        BY RoomsAssumption DEF TypeOK, ClockTyped, Days
      <3>3. today * QuantaPerDay \in Nat
        BY <3>2
      <3>4. QED BY <3>1, <3>2, <3>3 DEF Elapsed
    <2>5. outages' \in 0 .. MaxOutages
      BY <1>4, RoomsAssumption DEF StartOutage, TypeOK, HouseTyped
    <2>6. HouseTyped'
      BY <1>4, <2>1, <2>2, <2>3, <2>4, <2>5 DEF StartOutage, TypeOK, HouseTyped
    <2>7. QED BY <1>1, <1>2, <2>6, PartsUntouched DEF TypeOK
  <1>5. CASE NothingFails
    BY <1>1, <1>5, PartsUntouched DEF NothingFails, TypeOK
  <1>6. QED BY <1>3, <1>4, <1>5

LEMMA TypeContracts == TypeOK /\ RunContractCalendar => TypeOK'
PROOF
  <1> SUFFICES ASSUME TypeOK, RunContractCalendar PROVE TypeOK'
    OBVIOUS
  <1> DEFINE kept == {j \in blocks : ~(j.kind = "allotment" /\ j.release <= today)}
             f == [k \in kept |->
               [k EXCEPT !.released = k.kind = "group" /\ (@ \/ k.release <= today)]]
  <1>1. blocks' = {f[k] : k \in kept}
    BY DEF RunContractCalendar
  <1>2. kept \subseteq blocks
    OBVIOUS
  <1>3. \A k \in kept : /\ f[k] \in BlockRecords
                        /\ f[k].kind = k.kind /\ f[k].rooms = k.rooms
    <2>1. ASSUME NEW k \in kept
          PROVE  f[k] \in BlockRecords /\ f[k].kind = k.kind /\ f[k].rooms = k.rooms
      <3>1. k \in BlockRecords
        BY <1>2 DEF TypeOK, BlocksTyped
      <3> DEFINE given == k.kind = "group" /\ (k.released \/ k.release <= today)
      <3>2. f[k] = [k EXCEPT !.released = given]
        OBVIOUS
      <3>3. given \in BOOLEAN
        OBVIOUS
      <3> HIDE DEF given, f
      <3>4. QED BY <3>1, <3>2, <3>3 DEF BlockRecords
    <2>2. QED BY <2>1
  <1>4. IsFiniteSet(blocks')
    <2>1. IsFiniteSet(kept)
      BY <1>2, FS_Subset DEF TypeOK, BlocksTyped
    <2>2. f = [k \in kept |-> f[k]]
      OBVIOUS
    <2> HIDE DEF f, kept
    <2>3. QED BY <1>1, <2>1, <2>2, ImageIsFinite
  <1> HIDE DEF f
  <1>5. BlocksTyped'
    BY <1>1, <1>2, <1>3, <1>4 DEF TypeOK, BlocksTyped
  <1>6. phase' \in Phases
    BY PhaseNames DEF RunContractCalendar
  <1>7. QED BY <1>5, <1>6, PartsUntouched DEF RunContractCalendar, TypeOK

\* A cancellation changes statuses, and counts a late fee for some of them.
LEMMA CancellationBooks ==
  ASSUME BooksTyped, RunCancellations
  PROVE  \E away \in SUBSET {b \in Confirmed : reservations[b].arrival > today} :
           LET late == {b \in away : LateOn(b, today)}
           IN  /\ BooksTyped' /\ OnTheBooks' = OnTheBooks /\ taken' = taken
               /\ \A b \in OnTheBooks :
                    /\ reservations'[b].status = IF b \in away THEN "cancelled" ELSE Status(b)
                    /\ reservations'[b].category = reservations[b].category
                    /\ reservations'[b].rooms = reservations[b].rooms
                    /\ reservations'[b].arrival = reservations[b].arrival
                    /\ reservations'[b].nights = reservations[b].nights
                    /\ reservations'[b].by = reservations[b].by
               /\ \A b \in Bookings : charged'[b] = charged[b] + (IF b \in late THEN 1 ELSE 0)
PROOF
  <1>1. PICK away \in SUBSET {b \in Confirmed : reservations[b].arrival > today} :
          LET late == {b \in away : LateOn(b, today)}
          IN  /\ Become(away, "cancelled")
              /\ charged' = [b \in Bookings |-> charged[b] + (IF b \in late THEN 1 ELSE 0)]
    BY DEF RunCancellations
  <1> DEFINE late == {b \in away : LateOn(b, today)}
  <1>2. charged' \in [Bookings -> Nat] /\ taken' = taken
        /\ \A b \in Bookings : charged'[b] = charged[b] + (IF b \in late THEN 1 ELSE 0)
    <2> HIDE DEF late
    <2>1. charged' = [b \in Bookings |-> charged[b] + (IF b \in late THEN 1 ELSE 0)]
      BY <1>1 DEF late
    <2>2. \A b \in Bookings : charged[b] + (IF b \in late THEN 1 ELSE 0) \in Nat
      BY DEF BooksTyped
    <2>3. QED BY <2>1, <2>2 DEF RunCancellations
  <1>3. Become(away, "cancelled") /\ "cancelled" \in Statuses
    BY <1>1 DEF Statuses
  <1>4. BooksTyped' /\ OnTheBooks' = OnTheBooks
        /\ \A b \in OnTheBooks :
             /\ reservations'[b].status = IF b \in away THEN "cancelled"
                                          ELSE reservations[b].status
             /\ reservations'[b].category = reservations[b].category
             /\ reservations'[b].rooms = reservations[b].rooms
             /\ reservations'[b].arrival = reservations[b].arrival
             /\ reservations'[b].nights = reservations[b].nights
             /\ reservations'[b].by = reservations[b].by
    BY <1>2, <1>3, BecomeTyped
  <1>5. QED BY <1>2, <1>4 DEF Status

LEMMA TypeCancellations == TypeOK /\ RunCancellations => TypeOK'
PROOF
  <1> SUFFICES ASSUME TypeOK, RunCancellations PROVE TypeOK'
    OBVIOUS
  <1>1. BooksTyped'
    BY CancellationBooks DEF TypeOK
  <1>2. QED BY <1>1, PartsUntouched, PhaseNames DEF RunCancellations, TypeOK

LEMMA TypeEventLeads ==
  ASSUME TypeOK, NEW n \in Sizes, NEW date \in Days, NEW m \in Nights,
         GenerateEventLeads(n, date, m)
  PROVE  TypeOK'
PROOF
  <1> DEFINE half == Smaller(Cardinality(Of(BlockedCategory)) \div 2, n)
             k == [id |-> NewId, kind |-> "conference", category |-> BlockedCategory,
                   date |-> date, nights |-> m, rooms |-> half, release |-> date,
                   released |-> FALSE]
  <1>1. blocks' = blocks \cup {k}
    BY DEF GenerateEventLeads
  <1>2. half \in Nat
    <2>1. Of(BlockedCategory) \subseteq Rooms /\ IsFiniteSet(Rooms)
      BY RoomsAssumption DEF Of, TypeOK, HouseTyped
    <2>2. Cardinality(Of(BlockedCategory)) \in Nat /\ n \in Nat
      BY <2>1, FS_Subset, FS_CardinalityType, RoomsAssumption
    <2>3. QED BY <2>2 DEF Smaller
  <1> HIDE DEF half
  <1>3. k \in BlockRecords /\ k.kind # "group"
    <2>1. NewId \in Nat
      BY NewIdIsNat DEF TypeOK
    <2>2. BlockedCategory \in Categories /\ date \in Nat
      BY RoomsAssumption DEF Days
    <2>3. QED BY <1>2, <2>1, <2>2 DEF BlockRecords
  <1> HIDE DEF k
  <1>4. IsFiniteSet(blocks')
    BY <1>1, FS_AddElement DEF TypeOK, BlocksTyped
  <1>5. BlocksTyped'
    BY <1>1, <1>3, <1>4 DEF TypeOK, BlocksTyped
  <1>6. QED BY <1>5, PartsUntouched, PhaseNames DEF GenerateEventLeads, TypeOK

\* A booking is new on the books, and changes no other.
LEMMA ReserveBooks ==
  ASSUME BooksTyped, NEW n \in Sizes \cup {1}, NEW category \in Categories,
         NEW arrival \in Nat, NEW nights \in Nights \cup {1}, NEW guaranteed \in BOOLEAN,
         NEW by \in {"guest", "corporate", "group"}, NEW block \in Nat, NEW released,
         Reserve(n, category, arrival, nights, guaranteed, by, block, released)
  PROVE  /\ BooksTyped' /\ taken' = taken + 1 /\ taken + 1 \in Bookings
         /\ taken + 1 \notin OnTheBooks /\ OnTheBooks' = OnTheBooks \cup {taken + 1}
         /\ \A b \in OnTheBooks : reservations'[b] = reservations[b]
         /\ reservations'[taken + 1] =
              [status |-> "confirmed", category |-> category, rooms |-> n,
               arrival |-> arrival, nights |-> nights, guaranteed |-> guaranteed,
               by |-> by, block |-> block]
PROOF
  <1> DEFINE new == [status |-> "confirmed", category |-> category, rooms |-> n,
                     arrival |-> arrival, nights |-> nights, guaranteed |-> guaranteed,
                     by |-> by, block |-> block]
  <1>1. MaxBookings \in Nat /\ taken \in Nat /\ taken < MaxBookings /\ taken' = taken + 1
        /\ OnTheBooks \subseteq 1 .. taken
    BY RoomsAssumption DEF Reserve, BooksTyped
  <1>2. taken + 1 \in Bookings /\ taken + 1 \notin OnTheBooks /\ taken' \in 0 .. MaxBookings
    <2>1. taken + 1 \in 1 .. MaxBookings /\ taken + 1 \notin 1 .. taken
      BY <1>1
    <2>2. QED BY <1>1, <2>1 DEF Bookings
  <1>3. reservations' = [b \in OnTheBooks \cup {taken + 1} |->
                           IF b \in OnTheBooks THEN reservations[b] ELSE new]
    BY DEF Reserve
  <1>4. new \in Records
    BY DEF Records, Statuses
  <1> HIDE DEF new
  <1>5. /\ OnTheBooks' = OnTheBooks \cup {taken + 1}
        /\ \A b \in OnTheBooks : reservations'[b] = reservations[b]
        /\ reservations'[taken + 1] = new
    BY <1>2, <1>3 DEF OnTheBooks
  <1>6. OnTheBooks' \subseteq 1 .. taken'
    <2>1. taken + 1 \in 1 .. taken + 1 /\ \A b \in 1 .. taken : b \in 1 .. taken + 1
      BY <1>1
    <2>2. QED BY <1>1, <1>5, <2>1
  <1>7. BooksTyped'
    BY <1>2, <1>4, <1>5, <1>6 DEF BooksTyped, Reserve
  <1>8. QED BY <1>1, <1>2, <1>5, <1>7 DEF new

\* The bookings that are asked for are of the types the books keep.
LEMMA DemandIsReserved ==
  ASSUME TypeOK
  PROVE  /\ \A n \in Sizes : GenerateContractDemand(n) =>
              /\ n \in Sizes \cup {1} /\ AccountCategory \in Categories
              /\ today + 1 \in Nat /\ phase' = phase
              /\ Reserve(n, AccountCategory, today + 1, 1, TRUE, "corporate", 0, 0)
         /\ \A c \in Categories, lead \in LeadDays, m \in Nights : GenerateDemand(c, lead, m) =>
              /\ today + lead \in Nat /\ (lead = 0) \in BOOLEAN /\ phase' = phase
              /\ Reserve(1, c, today + lead, m, lead = 0, "guest", 0, 0)
         /\ GroupArrives =>
              \E k \in Arriving :
                /\ k.rooms \in Sizes \cup {1} /\ k.category \in Categories /\ k.date \in Nat
                /\ k.date = today + 1 /\ k.id \in Nat /\ phase' = phase
                /\ Reserve(k.rooms, k.category, k.date, 1, TRUE, "group", k.id, k.rooms)
PROOF
  <1>1. today \in Nat
    BY DEF TypeOK, ClockTyped, Days
  <1>2. \A n \in Sizes : GenerateContractDemand(n) =>
          /\ n \in Sizes \cup {1} /\ AccountCategory \in Categories
          /\ today + 1 \in Nat /\ phase' = phase
          /\ Reserve(n, AccountCategory, today + 1, 1, TRUE, "corporate", 0, 0)
    <2>1. AccountCategory \in Categories /\ today + 1 \in Nat
      BY <1>1, RoomsAssumption
    <2>2. QED BY <2>1 DEF GenerateContractDemand
  <1>3. \A c \in Categories, lead \in LeadDays, m \in Nights : GenerateDemand(c, lead, m) =>
          /\ today + lead \in Nat /\ (lead = 0) \in BOOLEAN /\ phase' = phase
          /\ Reserve(1, c, today + lead, m, lead = 0, "guest", 0, 0)
    <2>1. \A lead \in LeadDays : today + lead \in Nat
      BY <1>1, RoomsAssumption
    <2>2. QED BY <2>1 DEF GenerateDemand
  <1>4. ASSUME GroupArrives
        PROVE  \E k \in Arriving :
                 /\ k.rooms \in Sizes \cup {1} /\ k.category \in Categories /\ k.date \in Nat
                 /\ k.date = today + 1 /\ k.id \in Nat /\ phase' = phase
                 /\ Reserve(k.rooms, k.category, k.date, 1, TRUE, "group", k.id, k.rooms)
    <2>1. PICK k \in Arriving :
            Reserve(k.rooms, k.category, k.date, 1, TRUE, "group", k.id, k.rooms)
      BY <1>4 DEF GroupArrives
    <2>2. k \in blocks /\ k.kind = "group" /\ k.date = today + 1
      BY DEF Arriving
    <2>3. k \in BlockRecords /\ k.rooms \in Sizes
      BY <2>2 DEF TypeOK, BlocksTyped
    <2>4. k.category \in Categories /\ k.date \in Nat /\ k.id \in Nat
      BY <2>3 DEF BlockRecords
    <2>5. QED BY <1>4, <2>1, <2>2, <2>3, <2>4 DEF GroupArrives
  <1>5. QED BY <1>2, <1>3, <1>4

\* What demand does: it adds one booking, for a day to come.
LEMMA DemandBooks ==
  ASSUME TypeOK,
         \/ \E n \in Sizes : GenerateContractDemand(n)
         \/ GroupArrives
         \/ \E c \in Categories, lead \in LeadDays, m \in Nights : GenerateDemand(c, lead, m)
  PROVE  /\ UNCHANGED <<clock, phase, house, charged, blocks, frontDesk, staff>>
         /\ BooksTyped' /\ taken' = taken + 1 /\ taken + 1 \in Bookings
         /\ taken + 1 \notin OnTheBooks /\ OnTheBooks' = OnTheBooks \cup {taken + 1}
         /\ \A b \in OnTheBooks : reservations'[b] = reservations[b]
         /\ reservations'[taken + 1].status = "confirmed"
         /\ reservations'[taken + 1].arrival >= today
         /\ \/ reservations'[taken + 1].by = "group"
            \/ LET new == reservations'[taken + 1]
               IN  Fits(new.rooms, new.category, new.arrival, new.nights, 0)
PROOF
  <1> DEFINE Goal ==
         /\ UNCHANGED <<clock, phase, house, charged, blocks, frontDesk, staff>>
         /\ BooksTyped' /\ taken' = taken + 1 /\ taken + 1 \in Bookings
         /\ taken + 1 \notin OnTheBooks /\ OnTheBooks' = OnTheBooks \cup {taken + 1}
         /\ \A b \in OnTheBooks : reservations'[b] = reservations[b]
         /\ reservations'[taken + 1].status = "confirmed"
         /\ reservations'[taken + 1].arrival >= today
         /\ \/ reservations'[taken + 1].by = "group"
            \/ LET new == reservations'[taken + 1]
               IN  Fits(new.rooms, new.category, new.arrival, new.nights, 0)
  <1>1. 1 \in Nights \cup {1} /\ 1 \in Sizes \cup {1} /\ 0 \in Nat /\ TRUE \in BOOLEAN
        /\ Nights \subseteq Nights \cup {1}
    OBVIOUS
  <1>2. ASSUME NEW n \in Sizes \cup {1}, NEW category \in Categories,
               NEW arrival \in Nat, NEW nights \in Nights \cup {1}, NEW guaranteed \in BOOLEAN,
               NEW by \in {"guest", "corporate", "group"}, NEW block \in Nat, NEW released,
               Reserve(n, category, arrival, nights, guaranteed, by, block, released),
               phase' = phase, arrival >= today, by = "group" \/ released = 0
        PROVE  Goal
    <2> DEFINE new == reservations'[taken + 1]
    <2>1. /\ BooksTyped' /\ taken' = taken + 1 /\ taken + 1 \in Bookings
          /\ taken + 1 \notin OnTheBooks /\ OnTheBooks' = OnTheBooks \cup {taken + 1}
          /\ \A b \in OnTheBooks : reservations'[b] = reservations[b]
          /\ new = [status |-> "confirmed", category |-> category, rooms |-> n,
                    arrival |-> arrival, nights |-> nights, guaranteed |-> guaranteed,
                    by |-> by, block |-> block]
      BY <1>2, ReserveBooks DEF TypeOK
    <2> HIDE DEF new
    <2>2. /\ new.status = "confirmed" /\ new.arrival = arrival /\ new.by = by
          /\ new.rooms = n /\ new.category = category /\ new.nights = nights
      BY <2>1
    <2>3. Fits(n, category, arrival, nights, released)
      BY <1>2 DEF Reserve
    <2>4. new.by = "group" \/ Fits(new.rooms, new.category, new.arrival, new.nights, 0)
      BY <1>2, <2>2, <2>3
    <2>5. UNCHANGED <<clock, phase, house, charged, blocks, frontDesk, staff>>
      BY <1>2 DEF Reserve
    <2>6. new.arrival >= today
      BY <1>2, <2>2
    <2>7. QED BY <2>1, <2>2, <2>4, <2>5, <2>6 DEF new
  <1>3. ASSUME NEW n \in Sizes, GenerateContractDemand(n) PROVE Goal
    <2>1. /\ n \in Sizes \cup {1} /\ AccountCategory \in Categories
          /\ today + 1 \in Nat /\ phase' = phase
          /\ Reserve(n, AccountCategory, today + 1, 1, TRUE, "corporate", 0, 0)
      BY <1>3, DemandIsReserved
    <2>2. today + 1 >= today
      BY DEF TypeOK, ClockTyped, Days
    <2> HIDE DEF Goal
    <2>3. QED BY <1>1, <1>2, <2>1, <2>2
  <1>4. ASSUME NEW c \in Categories, NEW lead \in LeadDays, NEW m \in Nights,
               GenerateDemand(c, lead, m)
        PROVE  Goal
    <2>1. /\ today + lead \in Nat /\ (lead = 0) \in BOOLEAN /\ phase' = phase
          /\ Reserve(1, c, today + lead, m, lead = 0, "guest", 0, 0)
      BY <1>4, DemandIsReserved
    <2>2. m \in Nights \cup {1}
      OBVIOUS
    <2>3. today + lead >= today
      BY RoomsAssumption DEF TypeOK, ClockTyped, Days
    <2> HIDE DEF Goal
    <2>4. QED BY <1>1, <1>2, <2>1, <2>2, <2>3
  <1>5. ASSUME GroupArrives PROVE Goal
    <2>1. PICK k \in Arriving :
            /\ k.rooms \in Sizes \cup {1} /\ k.category \in Categories /\ k.date \in Nat
            /\ k.date = today + 1 /\ k.id \in Nat /\ phase' = phase
            /\ Reserve(k.rooms, k.category, k.date, 1, TRUE, "group", k.id, k.rooms)
      BY <1>5, DemandIsReserved
    <2>2. k.date >= today
      BY <2>1 DEF TypeOK, ClockTyped, Days
    <2> HIDE DEF Goal
    <2>3. QED BY <1>1, <1>2, <2>1, <2>2
  <1> HIDE DEF Goal
  <1>6. Goal
    BY <1>3, <1>4, <1>5
  <1>7. QED BY <1>6 DEF Goal

LEMMA TypeDemand ==
  ASSUME TypeOK,
         \/ \E n \in Sizes : GenerateContractDemand(n)
         \/ GroupArrives
         \/ \E c \in Categories, lead \in LeadDays, m \in Nights : GenerateDemand(c, lead, m)
  PROVE  TypeOK'
PROOF
  <1>1. UNCHANGED <<clock, phase, house, blocks, frontDesk, staff>> /\ BooksTyped'
    BY DemandBooks
  <1>2. QED BY <1>1, PartsUntouched DEF TypeOK, ClockTyped

LEMMA TypeNext == TypeOK /\ [Next]_vars => TypeOK'
PROOF
  <1> SUFFICES ASSUME TypeOK, [Next]_vars PROVE TypeOK'
    OBVIOUS
  <1>1. CASE UNCHANGED vars
    BY <1>1, PartsUntouched DEF vars, TypeOK, ClockTyped
  <1>2. ASSUME NEW kind \in {"allotment", "group"}, NEW c \in Categories, NEW n \in Sizes,
               NEW date \in today + 1 .. MaxDay, NEW release \in today + 1 .. MaxDay,
               AcceptBlock(kind, c, date, n, release)
        PROVE TypeOK'
    BY <1>2, TypeAcceptBlock
  <1>3. CASE StartRenovation \/ AdvanceTime
    BY <1>3, TypeStartRenovation, TypeAdvanceTime
  <1>4. CASE CheckOut \/ ArrivalWave \/ Midnight
    BY <1>4, TypeCheckOut, TypeArrivalWave, TypeMidnight
  <1>5. CASE RunHousekeeping \/ OpenDesk \/ RunReception
    BY <1>5, TypeHousekeeping, TypeOpenDesk, TypeReception
  <1>6. CASE EndOutage \/ StartOutage \/ NothingFails
    BY <1>6, TypeOutages
  <1>7. CASE RunContractCalendar \/ RunCancellations
    BY <1>7, TypeContracts, TypeCancellations
  <1>8. ASSUME NEW n \in Sizes, NEW date \in Days, NEW m \in Nights,
               GenerateEventLeads(n, date, m)
        PROVE TypeOK'
    BY <1>8, TypeEventLeads
  <1>9. CASE NoLead \/ NoMoreContracts \/ NoMoreGroups \/ NoMoreParties
    BY <1>9, PartsUntouched, PhaseNames
       DEF NoLead, NoMoreContracts, NoMoreGroups, NoMoreParties, TypeOK
  <1>10. CASE \/ \E n \in Sizes : GenerateContractDemand(n)
              \/ GroupArrives
              \/ \E c \in Categories, lead \in LeadDays, m \in Nights : GenerateDemand(c, lead, m)
    BY <1>10, TypeDemand
  <1>11. QED
    BY <1>1, <1>2, <1>3, <1>4, <1>5, <1>6, <1>7, <1>8, <1>9, <1>10 DEF Next

LEMMA TypeInvariant == Spec => []TypeOK
  BY TypeInit, TypeNext, PTL DEF Spec
-----------------------------------------------------------------------------
(***************************************************************************)
(* The late fee.  A booking is charged when it leaves the state            *)
(* "confirmed", to which none returns.                                     *)
(***************************************************************************)
ChargedInv ==
  \A b \in Bookings :
    /\ charged[b] \in {0, 1}
    /\ b \in Confirmed \/ b > taken => charged[b] = 0
    /\ charged[b] = 1 /\ b \in OnTheBooks => Status(b) \in {"cancelled", "noShow"}

\* A status that changes from "confirmed" is charged with it, or not at all.
LEMMA ChargedStep ==
  ASSUME TypeOK, ChargedInv, NEW lost, lost \subseteq Confirmed, taken' = taken,
         OnTheBooks' \subseteq OnTheBooks,
         \A b \in Bookings : charged'[b] = charged[b] + (IF b \in lost THEN 1 ELSE 0),
         \A b \in OnTheBooks' :
           /\ b \in lost => reservations'[b].status \in {"cancelled", "noShow"}
           /\ reservations'[b].status = "confirmed" => Status(b) = "confirmed" /\ b \notin lost
           /\ Status(b) \in {"cancelled", "noShow"} => reservations'[b].status = Status(b)
  PROVE  ChargedInv'
PROOF
  <1>1. lost \subseteq Bookings
    BY ConfirmedIsFinite DEF Confirmed, TypeOK
  <1>2. ASSUME NEW b \in Bookings
        PROVE  /\ charged'[b] \in {0, 1}
               /\ b \in Confirmed' \/ b > taken' => charged'[b] = 0
               /\ charged'[b] = 1 /\ b \in OnTheBooks' =>
                    reservations'[b].status \in {"cancelled", "noShow"}
    <2>1. /\ charged[b] \in {0, 1} /\ (b \in Confirmed \/ b > taken => charged[b] = 0)
          /\ (charged[b] = 1 /\ b \in OnTheBooks => Status(b) \in {"cancelled", "noShow"})
      BY DEF ChargedInv
    <2>2. CASE b \in lost
      <3>1. charged[b] = 0 /\ charged'[b] = 1
        BY <2>1, <2>2
      <3>2. ~(b > taken)
        <4>1. b \in 1 .. taken /\ taken \in Nat
          BY <2>2 DEF Confirmed, TypeOK, BooksTyped
        <4>2. QED BY <4>1
      <3>3. b \notin Confirmed'
        BY <2>2 DEF Confirmed, Status
      <3>4. QED BY <2>2, <3>1, <3>2, <3>3
    <2>3. CASE b \notin lost
      <3>1. charged'[b] = charged[b]
        BY <2>1, <2>3
      <3>2. b \in Confirmed' => b \in Confirmed
        BY DEF Confirmed, Status
      <3>3. QED BY <2>1, <3>1, <3>2
    <2>4. QED BY <2>2, <2>3
  <1>3. QED BY <1>2 DEF ChargedInv, Status

LEMMA ChargedReserve ==
  ASSUME TypeOK, ChargedInv, charged' = charged, taken' = taken + 1,
         OnTheBooks' = OnTheBooks \cup {taken + 1},
         \A b \in OnTheBooks : reservations'[b] = reservations[b]
  PROVE  ChargedInv'
PROOF
  <1>1. ASSUME NEW b \in Bookings
        PROVE  /\ charged[b] \in {0, 1}
               /\ b \in Confirmed' \/ b > taken + 1 => charged[b] = 0
               /\ charged[b] = 1 /\ b \in OnTheBooks' =>
                    reservations'[b].status \in {"cancelled", "noShow"}
    <2>1. /\ charged[b] \in {0, 1} /\ (b \in Confirmed \/ b > taken => charged[b] = 0)
          /\ (charged[b] = 1 /\ b \in OnTheBooks => Status(b) \in {"cancelled", "noShow"})
      BY DEF ChargedInv
    <2>2. taken \in Nat /\ b \in Int
      BY DEF TypeOK, BooksTyped, Bookings
    <2>3. CASE b = taken + 1
      BY <2>1, <2>2, <2>3
    <2>4. CASE b # taken + 1
      <3>1. b \in OnTheBooks' => b \in OnTheBooks /\ reservations'[b] = reservations[b]
        BY <2>4
      <3>2. b \in Confirmed' => b \in Confirmed
        BY <3>1 DEF Confirmed, Status
      <3>3. b > taken + 1 => b > taken
        BY <2>2
      <3>4. QED BY <2>1, <3>1, <3>2, <3>3 DEF Status
    <2>5. QED BY <2>3, <2>4
  <1>2. QED BY <1>1 DEF ChargedInv, Status

\* A step that leaves the books alone leaves the fees alone.
LEMMA ChargedUntouched == ChargedInv /\ UNCHANGED books => ChargedInv'
  BY DEF ChargedInv, books, Confirmed, OnTheBooks, Status

LEMMA ChargedInit == Init => ChargedInv
PROOF
  <1> SUFFICES ASSUME Init PROVE ChargedInv
    OBVIOUS
  <1>1. charged = [b \in Bookings |-> 0]
    BY DEF Init
  <1>2. \A b \in Bookings : charged[b] = 0
    BY <1>1
  <1>3. QED BY <1>2 DEF ChargedInv

LEMMA ChargedReception == TypeOK /\ ChargedInv /\ RunReception => ChargedInv'
PROOF
  <1> SUFFICES ASSUME TypeOK, ChargedInv, RunReception PROVE ChargedInv'
    OBVIOUS
  <1>1. PICK b : CheckIn(b) \/ Walk(b) \/ PassOver(b)
    BY ReceptionKinds
  <1>2. UNCHANGED <<taken, charged>>
    BY DEF RunReception
  <1>3. CASE PassOver(b)
    BY <1>2, <1>3, ChargedUntouched DEF PassOver, books
  <1>4. ASSUME NEW status \in {"checkedIn", "walked"}, Become({b}, status), b \in Confirmed
        PROVE  ChargedInv'
    <2> DEFINE none == {}
    <2>1. OnTheBooks' = OnTheBooks
          /\ \A x \in OnTheBooks :
               reservations'[x].status = IF x = b THEN status ELSE reservations[x].status
      <3>1. status \in Statuses /\ BooksTyped /\ charged' \in [Bookings -> Nat]
        BY <1>2 DEF Statuses, TypeOK, BooksTyped
      <3>2. OnTheBooks' = OnTheBooks
            /\ \A x \in OnTheBooks :
                 reservations'[x].status = IF x \in {b} THEN status ELSE reservations[x].status
        BY <1>2, <1>4, <3>1, BecomeTyped
      <3>3. QED BY <3>2
    <2>2. Status(b) = "confirmed" /\ b \in OnTheBooks
      BY <1>4 DEF Confirmed
    <2>3. \A x \in Bookings : charged'[x] = charged[x] + (IF x \in none THEN 1 ELSE 0)
      <3>1. \A x \in Bookings : charged[x] + 0 = charged[x]
        BY DEF TypeOK, BooksTyped
      <3>2. QED BY <1>2, <3>1
    <2>4. \A x \in OnTheBooks' :
            /\ x \in none => reservations'[x].status \in {"cancelled", "noShow"}
            /\ reservations'[x].status = "confirmed" => Status(x) = "confirmed" /\ x \notin none
            /\ Status(x) \in {"cancelled", "noShow"} => reservations'[x].status = Status(x)
      BY <2>1, <2>2 DEF Status
    <2>5. none \subseteq Confirmed
      OBVIOUS
    <2> HIDE DEF none
    <2>6. QED BY <1>2, <2>1, <2>3, <2>4, <2>5, ChargedStep
  <1>5. QED BY <1>1, <1>3, <1>4 DEF CheckIn, Walk

LEMMA ChargedCheckOut == TypeOK /\ ChargedInv /\ CheckOut => ChargedInv'
PROOF
  <1> SUFFICES ASSUME TypeOK, ChargedInv, CheckOut PROVE ChargedInv'
    OBVIOUS
  <1> DEFINE gone == {s.booking : s \in Leaving} \cap CheckedIn
  <1>1. UNCHANGED <<taken, charged>> /\ Become(gone, "completed") /\ "completed" \in Statuses
        /\ BooksTyped /\ charged \in [Bookings -> Nat]
    BY DEF CheckOut, Statuses, TypeOK, BooksTyped
  <1>2. \A b \in gone : Status(b) = "checkedIn"
    BY DEF CheckedIn
  <1> HIDE DEF gone
  <1>3. OnTheBooks' = OnTheBooks
        /\ \A b \in OnTheBooks :
             reservations'[b].status = IF b \in gone THEN "completed" ELSE reservations[b].status
    BY <1>1, BecomeTyped
  <1> DEFINE none == {}
  <1>4. \A x \in Bookings : charged'[x] = charged[x] + (IF x \in none THEN 1 ELSE 0)
    <2>1. \A x \in Bookings : charged[x] + 0 = charged[x]
      BY <1>1
    <2>2. QED BY <1>1, <2>1
  <1>5. \A x \in OnTheBooks' :
          /\ x \in none => reservations'[x].status \in {"cancelled", "noShow"}
          /\ reservations'[x].status = "confirmed" => Status(x) = "confirmed" /\ x \notin none
          /\ Status(x) \in {"cancelled", "noShow"} => reservations'[x].status = Status(x)
    BY <1>2, <1>3 DEF Status
  <1>6. none \subseteq Confirmed
    OBVIOUS
  <1> HIDE DEF none
  <1>7. QED BY <1>1, <1>3, <1>4, <1>5, <1>6, ChargedStep

LEMMA ChargedMidnight == TypeOK /\ ChargedInv /\ Midnight => ChargedInv'
PROOF
  <1> SUFFICES ASSUME TypeOK, ChargedInv, Midnight PROVE ChargedInv'
    OBVIOUS
  <1> DEFINE gone == {b \in Confirmed \ Waiting : reservations[b].arrival = today - 1}
  <1>1. /\ OnTheBooks' \subseteq OnTheBooks
        /\ \A b \in OnTheBooks' :
             reservations'[b].status = IF b \in gone THEN "noShow" ELSE Status(b)
        /\ \A b \in Bookings : charged'[b] = charged[b] + (IF b \in gone THEN 1 ELSE 0)
    BY MidnightBooks DEF TypeOK
  <1>2. gone \subseteq Confirmed /\ taken' = taken
    BY DEF Midnight
  <1>3. \A b \in gone : Status(b) = "confirmed"
    BY DEF Confirmed
  <1> HIDE DEF gone
  <1>4. \A b \in OnTheBooks' :
          /\ b \in gone => reservations'[b].status \in {"cancelled", "noShow"}
          /\ reservations'[b].status = "confirmed" => Status(b) = "confirmed" /\ b \notin gone
          /\ Status(b) \in {"cancelled", "noShow"} => reservations'[b].status = Status(b)
    BY <1>1, <1>3
  <1>5. QED BY <1>1, <1>2, <1>4, ChargedStep

LEMMA ChargedCancellations == TypeOK /\ ChargedInv /\ RunCancellations => ChargedInv'
PROOF
  <1> SUFFICES ASSUME TypeOK, ChargedInv, RunCancellations PROVE ChargedInv'
    OBVIOUS
  <1>1. PICK away \in SUBSET {b \in Confirmed : reservations[b].arrival > today} :
          /\ OnTheBooks' = OnTheBooks /\ taken' = taken
          /\ \A b \in OnTheBooks :
               reservations'[b].status = IF b \in away THEN "cancelled" ELSE Status(b)
          /\ \A b \in Bookings :
               charged'[b] = charged[b] + (IF b \in {x \in away : LateOn(x, today)} THEN 1 ELSE 0)
    BY CancellationBooks DEF TypeOK
  <1> DEFINE late == {b \in away : LateOn(b, today)}
  <1>2. late \subseteq away /\ away \subseteq Confirmed
    OBVIOUS
  <1>3. \A b \in away : Status(b) = "confirmed"
    BY <1>2 DEF Confirmed
  <1>4. \A b \in Bookings : charged'[b] = charged[b] + (IF b \in late THEN 1 ELSE 0)
    BY <1>1
  <1> HIDE DEF late
  <1>5. \A b \in OnTheBooks' :
          /\ b \in late => reservations'[b].status \in {"cancelled", "noShow"}
          /\ reservations'[b].status = "confirmed" => Status(b) = "confirmed" /\ b \notin late
          /\ Status(b) \in {"cancelled", "noShow"} => reservations'[b].status = Status(b)
    BY <1>1, <1>2, <1>3
  <1>6. QED BY <1>1, <1>2, <1>4, <1>5, ChargedStep

LEMMA ChargedNext == TypeOK /\ ChargedInv /\ [Next]_vars => ChargedInv'
PROOF
  <1> SUFFICES ASSUME TypeOK, ChargedInv, [Next]_vars PROVE ChargedInv'
    OBVIOUS
  <1>1. CASE UNCHANGED vars
    BY <1>1, ChargedUntouched DEF vars
  <1>2. ASSUME NEW kind \in {"allotment", "group"}, NEW c \in Categories, NEW n \in Sizes,
               NEW date \in today + 1 .. MaxDay, NEW release \in today + 1 .. MaxDay,
               AcceptBlock(kind, c, date, n, release)
        PROVE ChargedInv'
    BY <1>2, ChargedUntouched DEF AcceptBlock
  <1>3. CASE StartRenovation \/ AdvanceTime \/ ArrivalWave \/ RunHousekeeping \/ OpenDesk
    BY <1>3, ChargedUntouched
       DEF StartRenovation, AdvanceTime, ArrivalWave, RunHousekeeping, OpenDesk
  <1>4. CASE EndOutage \/ StartOutage \/ NothingFails \/ RunContractCalendar
    BY <1>4, ChargedUntouched DEF EndOutage, StartOutage, NothingFails, RunContractCalendar
  <1>5. CASE CheckOut \/ Midnight \/ RunReception \/ RunCancellations
    BY <1>5, ChargedCheckOut, ChargedMidnight, ChargedReception, ChargedCancellations
  <1>6. CASE NoLead \/ NoMoreContracts \/ NoMoreGroups \/ NoMoreParties
    BY <1>6, ChargedUntouched DEF NoLead, NoMoreContracts, NoMoreGroups, NoMoreParties
  <1>7. ASSUME NEW n \in Sizes, NEW date \in Days, NEW m \in Nights,
               GenerateEventLeads(n, date, m)
        PROVE ChargedInv'
    BY <1>7, ChargedUntouched DEF GenerateEventLeads
  <1>8. CASE \/ \E n \in Sizes : GenerateContractDemand(n)
             \/ GroupArrives
             \/ \E c \in Categories, lead \in LeadDays, m \in Nights : GenerateDemand(c, lead, m)
    BY <1>8, DemandBooks, ChargedReserve
  <1>9. QED
    BY <1>1, <1>2, <1>3, <1>4, <1>5, <1>6, <1>7, <1>8 DEF Next

(***************************************************************************)
(* The late fee is charged once, and only to a party that did not come     *)
(* (bookingEngine.ts:170), however many bookings are cancelled and missed. *)
(***************************************************************************)
THEOREM ChargedOnce == Spec => []ChargedOnceForAbsence
PROOF
  <1>1. Init => ChargedInv
    BY ChargedInit
  <1>2. TypeOK /\ ChargedInv /\ [Next]_vars => ChargedInv'
    BY ChargedNext
  <1>3. ChargedInv => ChargedOnceForAbsence
    BY DEF ChargedInv, ChargedOnceForAbsence
  <1>4. QED BY <1>1, <1>2, <1>3, TypeInvariant, PTL DEF Spec
\* Two intervals from 1 are the same only if they end at the same number.
LEMMA SameInterval ==
  ASSUME NEW a \in Nat, NEW b \in Nat, 1 .. a = 1 .. b
  PROVE  a = b
PROOF
  <1>1. a >= 1 => a \in 1 .. b
    <2>1. a >= 1 => a \in 1 .. a
      OBVIOUS
    <2>2. QED BY <2>1
  <1>2. b >= 1 => b \in 1 .. a
    <2>1. b >= 1 => b \in 1 .. b
      OBVIOUS
    <2>2. QED BY <2>1
  <1>3. QED BY <1>1, <1>2

-----------------------------------------------------------------------------
(***************************************************************************)
(* The queue at the desk.  On the day of arrival a party stands in it only *)
(* after the hour of arrivals; a booking that day went by without it is    *)
(* taken off at midnight, before anything else happens.                    *)
(***************************************************************************)
ArrivedInWave(b) ==
  reservations[b].arrival = today =>
    \/ quantum > ArrivalAt
    \/ quantum = ArrivalAt /\ phase # "arrivalsDepartures"

WaitingIsDue ==
  \A b \in Waiting : b \in Confirmed /\ reservations[b].arrival <= today /\ ArrivedInWave(b)

MissedYesterday(b) ==
  phase = "arrivalsDepartures" /\ DayRolled /\ reservations[b].arrival = today - 1

DueIsWaiting ==
  \A b \in Confirmed : reservations[b].arrival < today => b \in Waiting \/ MissedYesterday(b)

DeskInv == Once /\ WaitingIsDue /\ DueIsWaiting

\* Who waited is still due, and who is due and does not wait was so before.
LEMMA DeskKept ==
  ASSUME DeskInv, UNCHANGED clock, phase' # "arrivalsDepartures",
         phase = "arrivalsDepartures" => ~DayRolled, Once',
         \A b \in Waiting' : /\ b \in Waiting /\ b \in Confirmed'
                             /\ reservations'[b].arrival = reservations[b].arrival,
         \A b \in Confirmed' :
           reservations'[b].arrival < today =>
             /\ b \in Confirmed /\ reservations'[b].arrival = reservations[b].arrival
             /\ b \in Waiting => b \in Waiting'
  PROVE  DeskInv'
PROOF
  <1>1. today' = today /\ quantum' = quantum
    BY DEF clock
  <1>2. WaitingIsDue'
    BY <1>1 DEF DeskInv, WaitingIsDue, ArrivedInWave
  <1>3. DueIsWaiting'
    <2>1. ASSUME NEW b \in Confirmed', reservations'[b].arrival < today PROVE b \in Waiting'
      <3>1. b \in Confirmed /\ reservations[b].arrival < today
        BY <2>1
      <3>2. b \in Waiting
        BY <3>1 DEF DeskInv, DueIsWaiting, MissedYesterday
      <3>3. QED BY <2>1, <3>2
    <2>2. QED BY <1>1, <2>1 DEF DueIsWaiting
  <1>4. QED BY <1>2, <1>3 DEF DeskInv

\* A step that leaves the clock, the queue and the books alone, not out of midnight.
LEMMA DeskUntouched ==
  ASSUME DeskInv, UNCHANGED <<clock, queue, reservations>>,
         \/ phase' = phase
         \/ phase' # "arrivalsDepartures" /\ phase # "arrivalsDepartures"
  PROVE  DeskInv'
PROOF
  <1>1. Waiting' = Waiting /\ Confirmed' = Confirmed /\ Once'
    BY DEF Waiting, Confirmed, OnTheBooks, Status, Once, DeskInv
  <1>2. CASE phase' = phase
    BY <1>1, <1>2
       DEF DeskInv, WaitingIsDue, DueIsWaiting, ArrivedInWave, MissedYesterday, DayRolled, clock
  <1>3. CASE phase' # "arrivalsDepartures" /\ phase # "arrivalsDepartures"
    <2>1. \A b \in Waiting : b \in Confirmed
      BY DEF DeskInv, WaitingIsDue
    <2>2. \A b \in Waiting' : /\ b \in Waiting /\ b \in Confirmed'
                              /\ reservations'[b].arrival = reservations[b].arrival
      BY <1>1, <2>1
    <2>3. \A b \in Confirmed' :
            reservations'[b].arrival < today =>
              /\ b \in Confirmed /\ reservations'[b].arrival = reservations[b].arrival
              /\ b \in Waiting => b \in Waiting'
      BY <1>1
    <2>4. QED BY <1>1, <1>3, <2>2, <2>3, DeskKept
  <1>4. QED BY <1>2, <1>3

LEMMA DeskInit == Init => DeskInv
PROOF
  <1> SUFFICES ASSUME Init PROVE DeskInv
    OBVIOUS
  <1>1. queue = <<>> /\ OnTheBooks = {}
    BY DEF Init, OnTheBooks
  <1>2. Waiting = {} /\ Confirmed = {} /\ Once
    BY <1>1 DEF Waiting, Confirmed, Once
  <1>3. QED BY <1>2 DEF DeskInv, WaitingIsDue, DueIsWaiting

\* Confirmed bookings are typed.
LEMMA ArrivalIsNat == ASSUME BooksTyped, NEW b \in OnTheBooks PROVE reservations[b].arrival \in Nat
  BY DEF BooksTyped, Records

LEMMA DeskAdvanceTime == TypeOK /\ DeskInv /\ AdvanceTime => DeskInv'
PROOF
  <1> SUFFICES ASSUME TypeOK, DeskInv, AdvanceTime PROVE DeskInv'
    OBVIOUS
  <1>1. phase = "commands" /\ UNCHANGED <<queue, reservations>>
    BY DEF AdvanceTime, frontDesk, books
  <1>2. Waiting' = Waiting /\ Confirmed' = Confirmed /\ Once'
    BY <1>1 DEF Waiting, Confirmed, OnTheBooks, Status, Once, DeskInv
  <1>3. today \in Nat /\ quantum \in Nat /\ ArrivalAt \in Nat /\ QuantaPerDay \in Nat
        /\ \A b \in Confirmed : reservations[b].arrival \in Nat
    <2>1. ArrivalAt \in 1 .. QuantaPerDay - 1 /\ QuantaPerDay \in Nat
      BY RoomsAssumption
    <2>2. QED BY <2>1, ArrivalIsNat DEF TypeOK, ClockTyped, Days, Confirmed
  <1>4. /\ \A b \in Waiting : /\ b \in Confirmed /\ reservations[b].arrival <= today
                              /\ reservations[b].arrival = today => quantum >= ArrivalAt
        /\ \A b \in Confirmed : reservations[b].arrival < today => b \in Waiting
    BY <1>1, <1>3 DEF DeskInv, WaitingIsDue, DueIsWaiting, ArrivedInWave, MissedYesterday
  <1>5. CASE quantum < QuantaPerDay - 1
    <2>1. quantum' = quantum + 1 /\ today' = today
      BY <1>5 DEF AdvanceTime
    <2>2. WaitingIsDue'
      <3>1. ASSUME NEW b \in Waiting, reservations[b].arrival = today PROVE quantum' > ArrivalAt
        BY <1>3, <1>4, <2>1, <3>1
      <3>2. QED BY <1>1, <1>2, <1>4, <2>1, <3>1 DEF WaitingIsDue, ArrivedInWave
    <2>3. DueIsWaiting'
      BY <1>1, <1>2, <1>4, <2>1 DEF DueIsWaiting
    <2>4. QED BY <1>2, <2>2, <2>3 DEF DeskInv
  <1>6. CASE ~(quantum < QuantaPerDay - 1)
    <2>1. quantum' = 0 /\ today' = today + 1
      BY <1>6 DEF AdvanceTime
    <2>2. phase' = "arrivalsDepartures" /\ DayRolled'
      BY <2>1 DEF AdvanceTime, DayRolled
    <2>3. WaitingIsDue'
      <3>1. ASSUME NEW b \in Waiting
            PROVE  /\ b \in Confirmed /\ reservations[b].arrival <= today'
                   /\ reservations[b].arrival # today'
        BY <1>3, <1>4, <2>1
      <3>2. QED BY <1>1, <1>2, <3>1 DEF WaitingIsDue, ArrivedInWave
    <2>4. DueIsWaiting'
      <3>1. ASSUME NEW b \in Confirmed, reservations[b].arrival < today'
            PROVE  b \in Waiting \/ reservations[b].arrival = today' - 1
        <4>1. reservations[b].arrival < today \/ reservations[b].arrival = today
          BY <1>3, <2>1, <3>1
        <4>2. QED BY <1>3, <1>4, <2>1, <4>1
      <3>2. QED BY <1>1, <1>2, <2>2, <3>1 DEF DueIsWaiting, MissedYesterday
    <2>5. QED BY <1>2, <2>3, <2>4 DEF DeskInv
  <1>7. QED BY <1>5, <1>6

\* The moments of a day are different quanta, none of them midnight.
LEMMA Moments ==
  /\ CheckoutAt # 0 /\ ArrivalAt # 0 /\ ArrivalAt \in Nat
PROOF
  <1>1. {DemandAt, CheckoutAt, ArrivalAt} \subseteq 1 .. QuantaPerDay - 1 /\ QuantaPerDay \in Nat
    BY RoomsAssumption
  <1>2. CheckoutAt \in 1 .. QuantaPerDay - 1 /\ ArrivalAt \in 1 .. QuantaPerDay - 1
    BY <1>1
  <1>3. QED BY <1>1, <1>2

LEMMA DeskCheckOut == TypeOK /\ DeskInv /\ CheckOut => DeskInv'
PROOF
  <1> SUFFICES ASSUME TypeOK, DeskInv, CheckOut PROVE DeskInv'
    OBVIOUS
  <1> DEFINE gone == {s.booking : s \in Leaving} \cap CheckedIn
  <1>1. UNCHANGED <<taken, charged>> /\ Become(gone, "completed") /\ "completed" \in Statuses
        /\ BooksTyped /\ charged \in [Bookings -> Nat]
    BY DEF CheckOut, Statuses, TypeOK, BooksTyped
  <1>2. \A b \in gone : Status(b) = "checkedIn"
    BY DEF CheckedIn
  <1> HIDE DEF gone
  <1>3. OnTheBooks' = OnTheBooks
        /\ \A b \in OnTheBooks :
             /\ reservations'[b].status = IF b \in gone THEN "completed" ELSE reservations[b].status
             /\ reservations'[b].arrival = reservations[b].arrival
    BY <1>1, BecomeTyped
  <1>4. Confirmed' = Confirmed
    BY <1>2, <1>3 DEF Confirmed, Status
  <1>5. Waiting' = Waiting /\ Once'
    BY DEF CheckOut, Waiting, Once, DeskInv
  <1>6. \A b \in Confirmed : reservations'[b].arrival = reservations[b].arrival
    BY <1>3 DEF Confirmed
  <1>7. \A b \in Waiting : b \in Confirmed
    BY DEF DeskInv, WaitingIsDue
  <1>8. ~DayRolled /\ UNCHANGED clock /\ phase' # "arrivalsDepartures"
    BY Moments DEF CheckOut, DayRolled
  <1>9. QED BY <1>4, <1>5, <1>6, <1>7, <1>8, DeskKept

LEMMA DeskArrivalWave == TypeOK /\ DeskInv /\ ArrivalWave => DeskInv'
PROOF
  <1> SUFFICES ASSUME TypeOK, DeskInv, ArrivalWave PROVE DeskInv'
    OBVIOUS
  <1> DEFINE due == {b \in Confirmed : reservations[b].arrival = today}
  <1>1. PICK absent \in SUBSET {b \in due : ~reservations[b].guaranteed} :
          \E coming \in Ascending(due \ absent) :
            queue' = queue \o [i \in DOMAIN coming |-> [booking |-> coming[i], waited |-> 0]]
    BY DEF ArrivalWave
  <1> DEFINE S == due \ absent
  <1>2. PICK coming \in Ascending(S) :
          queue' = queue \o [i \in DOMAIN coming |-> [booking |-> coming[i], waited |-> 0]]
    BY <1>1
  <1>3. S \subseteq OnTheBooks /\ S \subseteq due
    BY DEF Confirmed
  <1>4. IsFiniteSet(S) /\ S \subseteq Int
    BY <1>3, ConfirmedIsFinite DEF TypeOK
  <1> DEFINE new == [i \in DOMAIN coming |-> [booking |-> coming[i], waited |-> 0]]
             m == Cardinality(S)
             n == Len(queue)
  <1>5. DOMAIN coming = 1 .. m /\ m \in Nat
        /\ (\A i \in DOMAIN coming : coming[i] \in S)
        /\ (\A i, j \in DOMAIN coming : coming[i] = coming[j] => i = j)
        /\ (\A x \in S : \E i \in DOMAIN coming : coming[i] = x)
    <2> HIDE DEF S
    <2>1. QED BY <1>4, AscendingLists
  <1>6. UNCHANGED <<clock, reservations>> /\ phase' = "roomState" /\ phase = "arrivalsDepartures"
        /\ quantum = ArrivalAt
    BY DEF ArrivalWave, books
  <1>7. \A b \in Waiting : b \in Confirmed /\ reservations[b].arrival <= today
                           /\ reservations[b].arrival # today
    BY <1>6, Moments DEF DeskInv, WaitingIsDue, ArrivedInWave
  <1>8. \A b \in S : b \in Confirmed /\ reservations[b].arrival = today /\ b \notin Waiting
    BY <1>3, <1>7
  <1> HIDE DEF S
  <1>9. /\ n \in Nat /\ DOMAIN queue = 1 .. n /\ DOMAIN queue' = 1 .. n + m
        /\ \A i \in 1 .. n : queue'[i] = queue[i]
        /\ \A i \in 1 .. m : queue'[n + i].booking = coming[i]
    <2>1. new = [i \in 1 .. m |-> [booking |-> coming[i], waited |-> 0]]
      BY <1>5
    <2>2. \A i \in 1 .. m : new[i].booking = coming[i]
      BY <2>1
    <2>3. new \in Seq([booking : Int, waited : Int]) /\ Len(new) = m
      <3>1. \A i \in 1 .. m : new[i] \in [booking : Int, waited : Int]
        BY <1>4, <1>5, <2>1
      <3>2. new \in [1 .. m -> [booking : Int, waited : Int]]
        BY <2>1, <3>1
      <3> DEFINE R == [booking : Int, waited : Int]
      <3> HIDE DEF new, m, R
      <3>3. new \in Seq([booking : Int, waited : Int])
        <4>1. new \in [1 .. m -> R] /\ m \in Nat
          BY <1>5, <3>2 DEF R
        <4>2. new \in Seq(R)
          BY <4>1, SeqDef
        <4>3. QED BY <4>2 DEF R
      <3>4. Len(new) \in Nat /\ DOMAIN new = 1 .. Len(new) /\ DOMAIN new = 1 .. m
        BY <3>2, <3>3, LenProperties
      <3>5. Len(new) = m
        BY <1>5, <3>4, SameInterval
      <3>6. QED BY <3>3, <3>5
    <2>4. queue \in Seq([booking : Bookings, waited : 0 .. WalkAfter])
      BY DEF TypeOK, DeskTyped
    <2>5. queue \in Seq([booking : Int, waited : Int])
      <3>1. [booking : Bookings, waited : 0 .. WalkAfter] \subseteq [booking : Int, waited : Int]
        BY DEF Bookings
      <3> DEFINE P == [booking : Bookings, waited : 0 .. WalkAfter]
                 R == [booking : Int, waited : Int]
      <3>2. P \subseteq R /\ queue \in Seq(P)
        BY <2>4, <3>1
      <3> HIDE DEF P, R
      <3>3. queue \in Seq(R)
        BY <3>2, SeqMonotonic
      <3>4. QED BY <3>3 DEF R
    <2>6. n \in Nat /\ DOMAIN queue = 1 .. n
      BY QueueFacts DEF TypeOK
    <2> DEFINE both == queue \o new
               R == [booking : Int, waited : Int]
    <2>7. both \in Seq(R) /\ Len(both) = n + m
          /\ \A i \in 1 .. n + m : both[i] = IF i <= n THEN queue[i] ELSE new[i - n]
      <3> HIDE DEF new, m, R
      <3>1. /\ Len(queue \o new) = Len(queue) + Len(new) /\ queue \o new \in Seq(R)
            /\ \A i \in 1 .. Len(queue) + Len(new) : (queue \o new)[i] =
                    IF i <= Len(queue) THEN queue[i] ELSE new[i - Len(queue)]
        BY <2>3, <2>5, ConcatProperties DEF R
      <3>2. QED BY <2>3, <3>1
    <2>8. queue' = both
      BY <1>2
    <2> HIDE DEF new, m, n, both
    <2>9. DOMAIN queue' = 1 .. n + m
      BY <2>7, <2>8, LenProperties
    <2>10. \A i \in 1 .. n : i \in 1 .. n + m /\ i <= n
      BY <1>5, <2>6
    <2>11. \A i \in 1 .. m : n + i \in 1 .. n + m /\ ~(n + i <= n) /\ n + i - n = i
      BY <1>5, <2>6
    <2>12. \A i \in 1 .. n : queue'[i] = queue[i]
      BY <2>7, <2>8, <2>10
    <2>13. \A i \in 1 .. m : queue'[n + i] = new[i]
      <3>1. \A k \in 1 .. n + m : \A j : ~(k <= n) /\ k - n = j => queue'[k] = new[j]
        BY <2>7, <2>8
      <3>2. QED BY <1>5, <2>6, <2>11, <3>1
    <2>14. QED BY <2>2, <2>6, <2>9, <2>12, <2>13
  <1> HIDE DEF new, m, n
  <1>10. \A i \in 1 .. n + m : i \in 1 .. n \/ \E j \in 1 .. m : i = n + j
    <2>1. ASSUME NEW i \in 1 .. n + m, i \notin 1 .. n PROVE i - n \in 1 .. m /\ i = n + (i - n)
      BY <1>5, <1>9, <2>1
    <2>2. QED BY <2>1
  <1>11. Waiting' = Waiting \cup S
    <2>1. \A b \in Waiting : b \in Waiting'
      <3>1. \A i \in 1 .. n : i \in 1 .. n + m
        BY <1>5, <1>9
      <3>2. QED BY <1>9, <3>1 DEF Waiting
    <2>2. \A b \in S : b \in Waiting'
      <3>1. \A i \in 1 .. m : n + i \in 1 .. n + m
        BY <1>5, <1>9
      <3>2. QED BY <1>5, <1>9, <3>1 DEF Waiting
    <2>3. \A b \in Waiting' : b \in Waiting \cup S
      <3>1. ASSUME NEW i \in 1 .. n + m PROVE queue'[i].booking \in Waiting \cup S
        <4>1. CASE i \in 1 .. n
          BY <1>9, <4>1 DEF Waiting
        <4>2. ASSUME NEW j \in 1 .. m, i = n + j PROVE queue'[i].booking \in Waiting \cup S
          BY <1>5, <1>9, <4>2
        <4>3. QED BY <1>10, <4>1, <4>2
      <3>2. QED BY <1>9, <3>1 DEF Waiting
    <2>4. QED BY <2>1, <2>2, <2>3
  <1>12. Once'
    <2>1. ASSUME NEW i \in 1 .. n + m, NEW j \in 1 .. n + m,
                 queue'[i].booking = queue'[j].booking
          PROVE  i = j
      <3>1. \A k \in 1 .. n : queue'[k].booking \in Waiting
        BY <1>9 DEF Waiting
      <3>2. \A k \in 1 .. m : queue'[n + k].booking \in S
        BY ZenonT(60), <1>5, <1>9
      <3>3. CASE i \in 1 .. n /\ j \in 1 .. n
        BY <1>9, <2>1, <3>3 DEF DeskInv, Once
      <3>4. ASSUME NEW k \in 1 .. m, NEW l \in 1 .. m, i = n + k, j = n + l PROVE i = j
        <4>1. coming[k] = coming[l]
          BY <1>9, <2>1, <3>4
        <4>2. k = l
          BY <1>5, <4>1
        <4>3. QED BY <3>4, <4>2
      <3>5. ASSUME NEW k \in 1 .. m, i = n + k, j \in 1 .. n PROVE FALSE
        BY <1>8, <2>1, <3>1, <3>2, <3>5
      <3>6. ASSUME NEW k \in 1 .. m, j = n + k, i \in 1 .. n PROVE FALSE
        BY <1>8, <2>1, <3>1, <3>2, <3>6
      <3>7. QED BY <1>10, <3>3, <3>4, <3>5, <3>6
    <2>2. QED BY <1>9, <2>1 DEF Once
  <1>13. Confirmed' = Confirmed /\ today' = today /\ quantum' = quantum
    BY <1>6 DEF Confirmed, OnTheBooks, Status, clock
  <1>14. WaitingIsDue'
    <2>1. \A b \in Waiting' : b \in Confirmed /\ reservations[b].arrival <= today
      <3>1. today \in Int
        BY DEF TypeOK, ClockTyped, Days
      <3>2. QED BY <1>7, <1>8, <1>11, <3>1
    <2>2. QED BY <1>6, <1>13, <2>1 DEF WaitingIsDue, ArrivedInWave
  <1>15. DueIsWaiting'
    <2>1. ~DayRolled
      BY <1>6, Moments DEF DayRolled
    <2>2. \A b \in Confirmed : reservations[b].arrival < today => b \in Waiting
      BY <2>1 DEF DeskInv, DueIsWaiting, MissedYesterday
    <2>3. QED BY <1>6, <1>11, <1>13, <2>2 DEF DueIsWaiting
  <1>16. QED BY <1>12, <1>14, <1>15 DEF DeskInv

LEMMA DeskMidnight == TypeOK /\ DeskInv /\ Midnight => DeskInv'
PROOF
  <1> SUFFICES ASSUME TypeOK, DeskInv, Midnight PROVE DeskInv'
    OBVIOUS
  <1> DEFINE gone == {b \in Confirmed \ Waiting : reservations[b].arrival = today - 1}
  <1>1. /\ OnTheBooks' \subseteq OnTheBooks /\ Live \subseteq OnTheBooks'
        /\ \A b \in OnTheBooks' :
             /\ reservations'[b].status = IF b \in gone THEN "noShow" ELSE Status(b)
             /\ reservations'[b].arrival = reservations[b].arrival
    BY MidnightBooks DEF TypeOK
  <1>2. UNCHANGED <<clock, queue>> /\ phase' = "roomState" /\ today' = today
        /\ quantum' = quantum
    BY DEF Midnight, frontDesk, clock
  <1>3. gone \cap Waiting = {}
    OBVIOUS
  <1>4. \A b \in Confirmed \ Waiting : reservations[b].arrival = today - 1 => b \in gone
    OBVIOUS
  <1> HIDE DEF gone
  <1>5. \A b \in Confirmed' : b \in Confirmed /\ b \notin gone
                              /\ reservations'[b].arrival = reservations[b].arrival
    BY <1>1 DEF Confirmed, Status
  <1>6. \A b \in Confirmed : b \notin gone =>
          b \in Confirmed' /\ reservations'[b].arrival = reservations[b].arrival
    BY <1>1 DEF Confirmed, Status, Live
  <1>7. Waiting' = Waiting /\ Once'
    BY <1>2 DEF Waiting, Once, DeskInv
  <1>8. WaitingIsDue'
    <2>1. \A b \in Waiting : b \in Confirmed /\ reservations[b].arrival <= today
                             /\ ArrivedInWave(b)
      BY DEF DeskInv, WaitingIsDue
    <2>2. \A b \in Waiting :
            b \in Confirmed' /\ reservations'[b].arrival = reservations[b].arrival
      BY <1>3, <1>6, <2>1
    <2>3. QED BY <1>2, <1>7, <2>1, <2>2 DEF WaitingIsDue, ArrivedInWave
  <1>9. DueIsWaiting'
    <2>1. \A b \in Confirmed' : reservations'[b].arrival < today => b \in Waiting
      BY <1>4, <1>5 DEF DeskInv, DueIsWaiting, MissedYesterday
    <2>2. QED BY <1>2, <1>7, <2>1 DEF DueIsWaiting
  <1>10. QED BY <1>7, <1>8, <1>9 DEF DeskInv

LEMMA DeskOpenDesk == TypeOK /\ DeskInv /\ OpenDesk => DeskInv'
PROOF
  <1> SUFFICES ASSUME TypeOK, DeskInv, OpenDesk PROVE DeskInv'
    OBVIOUS
  <1>1. /\ DOMAIN queue' = DOMAIN queue
        /\ \A i \in DOMAIN queue : queue'[i].booking = queue[i].booking
    BY OpenDeskKeeps
  <1>2. Waiting' = Waiting /\ Once'
    BY <1>1 DEF Waiting, Once, DeskInv
  <1>3. UNCHANGED <<clock, reservations>> /\ phase = "staffService"
        /\ phase' # "arrivalsDepartures"
    BY DEF OpenDesk, books
  <1>4. Confirmed' = Confirmed
    BY <1>3 DEF Confirmed, OnTheBooks, Status
  <1>5. \A b \in Waiting : b \in Confirmed
    BY DEF DeskInv, WaitingIsDue
  <1>6. QED BY <1>2, <1>3, <1>4, <1>5, DeskKept

LEMMA DeskReception == TypeOK /\ DeskInv /\ RunReception => DeskInv'
PROOF
  <1> SUFFICES ASSUME TypeOK, DeskInv, RunReception PROVE DeskInv'
    OBVIOUS
  <1>1. PICK b : /\ CheckIn(b) \/ Walk(b) \/ PassOver(b)
                 /\ phase' \in {"staffService", "maintenanceFailures"}
    BY ReceptionKinds
  <1>2. UNCHANGED <<clock, taken, charged>> /\ phase = "staffService"
    BY DEF RunReception
  <1>3. \A x \in Waiting : x \in Confirmed
    BY DEF DeskInv, WaitingIsDue
  <1>4. DeskTyped
    BY DEF TypeOK
  <1>5. ASSUME NEW status \in {"checkedIn", "walked"}, Become({b}, status), b \in Confirmed,
               LeaveQueue(b)
        PROVE  DeskInv'
    <2>1. OnTheBooks' = OnTheBooks
          /\ \A x \in OnTheBooks :
               /\ reservations'[x].status = IF x = b THEN status ELSE reservations[x].status
               /\ reservations'[x].arrival = reservations[x].arrival
      <3>1. status \in Statuses /\ BooksTyped /\ charged' \in [Bookings -> Nat]
        BY <1>2 DEF Statuses, TypeOK, BooksTyped
      <3>2. OnTheBooks' = OnTheBooks
            /\ \A x \in OnTheBooks :
                 /\ reservations'[x].status = IF x \in {b} THEN status ELSE reservations[x].status
                 /\ reservations'[x].arrival = reservations[x].arrival
        BY <1>2, <1>5, <3>1, BecomeTyped
      <3>3. QED BY <3>2
    <2>2. Confirmed' = Confirmed \ {b}
      BY <2>1 DEF Confirmed, Status
    <2>3. Waiting' = Waiting \ {b} /\ Once'
      BY <1>4, <1>5, LeaveQueueKeeps DEF DeskInv
    <2>4. \A x \in Waiting' : /\ x \in Waiting /\ x \in Confirmed'
                              /\ reservations'[x].arrival = reservations[x].arrival
      <3>1. \A x \in Waiting' : x \in Waiting /\ x \in Confirmed' /\ x \in OnTheBooks
        BY <1>3, <2>2, <2>3 DEF Confirmed
      <3>2. QED BY <2>1, <3>1
    <2>5. \A x \in Confirmed' :
            reservations'[x].arrival < today =>
              /\ x \in Confirmed /\ reservations'[x].arrival = reservations[x].arrival
              /\ x \in Waiting => x \in Waiting'
      <3>1. \A x \in Confirmed' : x \in Confirmed /\ x \in OnTheBooks /\ x # b
        BY <2>2 DEF Confirmed
      <3>2. QED BY <2>1, <2>3, <3>1
    <2>6. QED BY <1>1, <1>2, <2>3, <2>4, <2>5, DeskKept
  <1>6. CASE PassOver(b)
    <2>1. UNCHANGED reservations /\ Confirmed' = Confirmed
      BY <1>6 DEF PassOver, Confirmed, OnTheBooks, Status
    <2>2. Waiting' = Waiting /\ Once'
      <3>1. CASE b \in Confirmed
        <4>1. queue' = queue
          BY <1>6, <3>1 DEF PassOver
        <4>2. QED BY <4>1 DEF Waiting, Once, DeskInv
      <3>2. CASE b \notin Confirmed
        <4>1. LeaveQueue(b)
          BY <1>6, <3>2 DEF PassOver
        <4>2. Waiting' = Waiting \ {b} /\ Once'
          BY <1>4, <4>1, LeaveQueueKeeps DEF DeskInv
        <4>3. QED BY <1>3, <3>2, <4>2
      <3>3. QED BY <3>1, <3>2
    <2>3. QED BY <1>1, <1>2, <1>3, <2>1, <2>2, DeskKept
  <1>7. QED BY <1>1, <1>5, <1>6 DEF CheckIn, Walk

LEMMA DeskCancellations == TypeOK /\ DeskInv /\ RunCancellations => DeskInv'
PROOF
  <1> SUFFICES ASSUME TypeOK, DeskInv, RunCancellations PROVE DeskInv'
    OBVIOUS
  <1>1. PICK away \in SUBSET {b \in Confirmed : reservations[b].arrival > today} :
          /\ OnTheBooks' = OnTheBooks
          /\ \A b \in OnTheBooks :
               /\ reservations'[b].status = IF b \in away THEN "cancelled" ELSE Status(b)
               /\ reservations'[b].arrival = reservations[b].arrival
    BY CancellationBooks DEF TypeOK
  <1>2. UNCHANGED <<clock, queue>> /\ phase = "cancellations" /\ phase' # "arrivalsDepartures"
    BY DEF RunCancellations, frontDesk
  <1>3. Waiting' = Waiting /\ Once'
    BY <1>2 DEF Waiting, Once, DeskInv
  <1>4. Confirmed' = Confirmed \ away
    BY <1>1 DEF Confirmed, Status
  <1>5. \A b \in Waiting : b \in Confirmed /\ b \notin away
    <2>1. \A b \in away : reservations[b].arrival > today /\ reservations[b].arrival \in Nat
      BY ArrivalIsNat DEF TypeOK, Confirmed
    <2>2. \A b \in Waiting : b \in Confirmed /\ reservations[b].arrival <= today
      BY DEF DeskInv, WaitingIsDue
    <2>3. today \in Nat
      BY DEF TypeOK, ClockTyped, Days
    <2>4. QED BY <2>1, <2>2, <2>3
  <1>6. \A b \in Confirmed : b \in OnTheBooks
    BY DEF Confirmed
  <1>7. QED BY <1>1, <1>2, <1>3, <1>4, <1>5, <1>6, DeskKept

LEMMA DeskDemand ==
  ASSUME TypeOK, DeskInv,
         \/ \E n \in Sizes : GenerateContractDemand(n)
         \/ GroupArrives
         \/ \E c \in Categories, lead \in LeadDays, m \in Nights : GenerateDemand(c, lead, m)
  PROVE  DeskInv'
PROOF
  <1>1. /\ UNCHANGED <<clock, phase, frontDesk>> /\ BooksTyped'
        /\ OnTheBooks' = OnTheBooks \cup {taken + 1} /\ taken + 1 \notin OnTheBooks
        /\ \A b \in OnTheBooks : reservations'[b] = reservations[b]
        /\ reservations'[taken + 1].arrival >= today
    BY DemandBooks
  <1>2. phase # "arrivalsDepartures"
    BY DEF GenerateContractDemand, GroupArrives, GenerateDemand
  <1>3. Waiting' = Waiting /\ Once'
    BY <1>1 DEF frontDesk, Waiting, Once, DeskInv
  <1>4. \A b \in Confirmed : b \in Confirmed' /\ reservations'[b] = reservations[b]
    BY <1>1 DEF Confirmed, Status
  <1>5. \A b \in Confirmed' : b \in Confirmed \/ b = taken + 1
    BY <1>1 DEF Confirmed, Status
  <1>6. ~(reservations'[taken + 1].arrival < today)
    <2>1. today \in Nat /\ reservations'[taken + 1].arrival \in Nat
      BY <1>1 DEF TypeOK, ClockTyped, Days, BooksTyped, Records
    <2>2. QED BY <1>1, <2>1
  <1>7. \A b \in Waiting : b \in Confirmed
    BY DEF DeskInv, WaitingIsDue
  <1>8. QED BY <1>1, <1>2, <1>3, <1>4, <1>5, <1>6, <1>7, DeskKept

LEMMA DeskNext == TypeOK /\ DeskInv /\ [Next]_vars => DeskInv'
PROOF
  <1> SUFFICES ASSUME TypeOK, DeskInv, [Next]_vars PROVE DeskInv'
    OBVIOUS
  <1>1. CASE UNCHANGED vars
    BY <1>1, DeskUntouched DEF vars, frontDesk, books
  <1>2. ASSUME NEW kind \in {"allotment", "group"}, NEW c \in Categories, NEW n \in Sizes,
               NEW date \in today + 1 .. MaxDay, NEW release \in today + 1 .. MaxDay,
               AcceptBlock(kind, c, date, n, release)
        PROVE DeskInv'
    BY <1>2, DeskUntouched DEF AcceptBlock, frontDesk, books
  <1>3. CASE StartRenovation \/ RunHousekeeping
    BY <1>3, DeskUntouched DEF StartRenovation, RunHousekeeping, frontDesk, books
  <1>4. CASE EndOutage \/ StartOutage \/ NothingFails
    <2>1. phase = "maintenanceFailures" /\ phase' # "arrivalsDepartures"
      BY <1>4 DEF EndOutage, StartOutage, NothingFails, AfterMaintenance
    <2>2. UNCHANGED <<clock, frontDesk, books>>
      BY <1>4 DEF EndOutage, StartOutage, NothingFails
    <2>3. QED BY <2>1, <2>2, DeskUntouched DEF frontDesk, books
  <1>5. CASE AdvanceTime \/ CheckOut \/ ArrivalWave \/ Midnight
    BY <1>5, DeskAdvanceTime, DeskCheckOut, DeskArrivalWave, DeskMidnight
  <1>6. CASE OpenDesk \/ RunReception \/ RunCancellations
    BY <1>6, DeskOpenDesk, DeskReception, DeskCancellations
  <1>7. CASE RunContractCalendar \/ NoLead \/ NoMoreContracts \/ NoMoreGroups \/ NoMoreParties
    BY <1>7, DeskUntouched
       DEF RunContractCalendar, NoLead, NoMoreContracts, NoMoreGroups, NoMoreParties,
           frontDesk, books
  <1>8. ASSUME NEW n \in Sizes, NEW date \in Days, NEW m \in Nights,
               GenerateEventLeads(n, date, m)
        PROVE DeskInv'
    BY <1>8, DeskUntouched DEF GenerateEventLeads, frontDesk, books
  <1>9. CASE \/ \E n \in Sizes : GenerateContractDemand(n)
             \/ GroupArrives
             \/ \E c \in Categories, lead \in LeadDays, m \in Nights : GenerateDemand(c, lead, m)
    BY <1>9, DeskDemand
  <1>10. QED
    BY <1>1, <1>2, <1>3, <1>4, <1>5, <1>6, <1>7, <1>8, <1>9 DEF Next

\* In a queue where nobody stands twice there are as many places as parties.
LEMMA QueueIsCounted ==
  ASSUME DeskTyped, Once PROVE Len(queue) = Cardinality(Waiting)
PROOF
  <1> DEFINE n == Len(queue)
             f == [i \in 1 .. n |-> queue[i].booking]
  <1>1. n \in Nat /\ DOMAIN queue = 1 .. n
    BY QueueFacts
  <1>2. IsFiniteSet(1 .. n) /\ Cardinality(1 .. n) = n
    <2>1. 1 \in Int /\ n \in Int /\ (1 > n => n = 0) /\ n - 1 + 1 = n
      BY <1>1
    <2> HIDE DEF n
    <2>2. QED BY <2>1, FS_Interval
  <1>3. f \in [1 .. n -> Waiting]
    BY <1>1 DEF Waiting
  <1>4. \A i, j \in 1 .. n : f[i] = f[j] => i = j
    BY <1>1 DEF Once
  <1>5. \A b \in Waiting : \E i \in 1 .. n : f[i] = b
    BY <1>1 DEF Waiting
  <1> HIDE DEF f, n
  <1>6. f \in Bijection(1 .. n, Waiting)
    BY <1>3, <1>4, <1>5 DEF Bijection, Injection, IsInjective, Surjection
  <1>7. Cardinality(Waiting) = Cardinality(1 .. n)
    BY <1>2, <1>6, FS_Bijection DEF ExistsBijection
  <1>8. QED BY <1>2, <1>7 DEF n

LEMMA DeskImpliesQueue == TypeOK /\ DeskInv => QueueIsArrivals
PROOF
  <1> SUFFICES ASSUME TypeOK, DeskInv PROVE QueueIsArrivals
    OBVIOUS
  <1>1. Len(queue) = Cardinality(Waiting)
    BY QueueIsCounted DEF TypeOK, DeskInv
  <1>2. Waiting \subseteq {b \in Confirmed : reservations[b].arrival <= today}
    BY DEF DeskInv, WaitingIsDue
  <1>3. phase # "arrivalsDepartures" =>
          {b \in Confirmed : reservations[b].arrival < today} \subseteq Waiting
    BY DEF DeskInv, DueIsWaiting, MissedYesterday
  <1>4. QED BY <1>1, <1>2, <1>3 DEF QueueIsArrivals
-----------------------------------------------------------------------------
(***************************************************************************)
(* Who sleeps in the house.  All rooms of a party are given back on the    *)
(* same day, so a party that leaves leaves with all of them.               *)
(***************************************************************************)
Beds(b) == {s \in stays : s.booking = b}

SleepersCheckedIn ==
  \A s \in stays :
    /\ s.booking \in CheckedIn
    /\ s.departure = reservations[s.booking].arrival + reservations[s.booking].nights
    /\ CategoryOf[s.room] = reservations[s.booking].category

AllRoomsTaken == \A b \in CheckedIn : Cardinality(Beds(b)) = reservations[b].rooms

BedsInv == SleepersCheckedIn /\ AllRoomsTaken

\* Bookings change, but those of the parties in the house do not.
LEMMA BedsKept ==
  ASSUME BedsInv, stays' = stays, CheckedIn' = CheckedIn,
         \A b \in CheckedIn :
           /\ reservations'[b].arrival = reservations[b].arrival
           /\ reservations'[b].nights = reservations[b].nights
           /\ reservations'[b].rooms = reservations[b].rooms
           /\ reservations'[b].category = reservations[b].category
  PROVE  BedsInv'
PROOF
  <1>1. SleepersCheckedIn'
    BY DEF BedsInv, SleepersCheckedIn
  <1>2. \A b \in CheckedIn : Cardinality(Beds(b)) = reservations'[b].rooms
    BY DEF BedsInv, AllRoomsTaken
  <1>3. AllRoomsTaken'
    BY <1>2 DEF AllRoomsTaken, Beds
  <1>4. QED BY <1>1, <1>3 DEF BedsInv

LEMMA BedsUntouched == BedsInv /\ UNCHANGED <<stays, reservations>> => BedsInv'
PROOF
  <1> SUFFICES ASSUME BedsInv, UNCHANGED <<stays, reservations>> PROVE BedsInv'
    OBVIOUS
  <1>1. CheckedIn' = CheckedIn
    BY DEF CheckedIn, OnTheBooks, Status
  <1>2. QED BY <1>1, BedsKept

LEMMA BedsInit == Init => BedsInv
PROOF
  <1> SUFFICES ASSUME Init PROVE BedsInv
    OBVIOUS
  <1>1. stays = {} /\ OnTheBooks = {}
    BY DEF Init, OnTheBooks
  <1>2. CheckedIn = {}
    BY <1>1 DEF CheckedIn
  <1>3. QED BY <1>1, <1>2 DEF BedsInv, SleepersCheckedIn, AllRoomsTaken

LEMMA BedsCheckOut == TypeOK /\ BedsInv /\ CheckOut => BedsInv'
PROOF
  <1> SUFFICES ASSUME TypeOK, BedsInv, CheckOut PROVE BedsInv'
    OBVIOUS
  <1> DEFINE gone == {s.booking : s \in Leaving} \cap CheckedIn
  <1>1. UNCHANGED <<taken, charged>> /\ Become(gone, "completed") /\ "completed" \in Statuses
        /\ BooksTyped /\ charged \in [Bookings -> Nat] /\ stays' = stays \ Leaving
    BY DEF CheckOut, Statuses, TypeOK, BooksTyped
  <1>2. \A s \in stays : s \in Leaving <=> s.booking \in gone
    <2>1. \A s \in stays : s.booking \in CheckedIn
      BY DEF BedsInv, SleepersCheckedIn
    <2>2. \A s, t \in stays : s.booking = t.booking => s.departure = t.departure
      BY DEF BedsInv, SleepersCheckedIn
    <2>3. \A s \in Leaving : s.booking \in gone
      BY <2>1 DEF Leaving
    <2>4. \A s \in stays : s.booking \in gone => s \in Leaving
      BY <2>2 DEF Leaving
    <2>5. QED BY <2>3, <2>4
  <1> HIDE DEF gone
  <1>3. OnTheBooks' = OnTheBooks
        /\ \A b \in OnTheBooks :
             /\ reservations'[b].status = IF b \in gone THEN "completed" ELSE reservations[b].status
             /\ reservations'[b].arrival = reservations[b].arrival
             /\ reservations'[b].nights = reservations[b].nights
             /\ reservations'[b].rooms = reservations[b].rooms
             /\ reservations'[b].category = reservations[b].category
    BY <1>1, BecomeTyped
  <1>4. CheckedIn' = CheckedIn \ gone /\ CheckedIn \subseteq OnTheBooks
    BY <1>3 DEF CheckedIn, Status
  <1>5. SleepersCheckedIn'
    <2>1. \A s \in stays' : s \in stays /\ s.booking \in CheckedIn'
      BY <1>1, <1>2, <1>4 DEF BedsInv, SleepersCheckedIn
    <2>2. QED BY <1>3, <1>4, <2>1 DEF BedsInv, SleepersCheckedIn
  <1>6. AllRoomsTaken'
    <2>1. ASSUME NEW b \in CheckedIn'
          PROVE  Cardinality(Beds(b)') = reservations'[b].rooms
      <3>1. Beds(b)' = Beds(b)
        BY <1>1, <1>2, <1>4 DEF Beds
      <3>2. Cardinality(Beds(b)) = reservations'[b].rooms
        BY <1>3, <1>4 DEF BedsInv, AllRoomsTaken
      <3>3. QED BY <3>1, <3>2
    <2>2. QED BY <2>1 DEF AllRoomsTaken
  <1>7. QED BY <1>5, <1>6 DEF BedsInv

LEMMA BedsCheckIn ==
  ASSUME TypeOK, BedsInv, NEW b, CheckIn(b), UNCHANGED <<taken, charged>>
  PROVE  BedsInv'
PROOF
  <1> DEFINE assigned == First(reservations[b].rooms, Ready(reservations[b].category))
             end == reservations[b].arrival + reservations[b].nights
             Stay(r) == [booking |-> b, room |-> r, departure |-> end]
             new == {Stay(r) : r \in assigned}
  <1>1. /\ b \in OnTheBooks /\ Status(b) = "confirmed"
        /\ assigned \subseteq Ready(reservations[b].category)
        /\ IsFiniteSet(assigned) /\ Cardinality(assigned) = reservations[b].rooms
        /\ stays' = stays \cup new
    BY CheckInTakes
  <1>2. OnTheBooks' = OnTheBooks
        /\ \A x \in OnTheBooks :
             /\ reservations'[x].status = IF x = b THEN "checkedIn" ELSE reservations[x].status
             /\ reservations'[x].arrival = reservations[x].arrival
             /\ reservations'[x].nights = reservations[x].nights
             /\ reservations'[x].rooms = reservations[x].rooms
             /\ reservations'[x].category = reservations[x].category
    <2>1. Become({b}, "checkedIn") /\ "checkedIn" \in Statuses
          /\ BooksTyped /\ charged' \in [Bookings -> Nat]
      BY DEF CheckIn, Statuses, TypeOK, BooksTyped
    <2>2. OnTheBooks' = OnTheBooks
          /\ \A x \in OnTheBooks :
               /\ reservations'[x].status = IF x \in {b} THEN "checkedIn"
                                            ELSE reservations[x].status
               /\ reservations'[x].arrival = reservations[x].arrival
               /\ reservations'[x].nights = reservations[x].nights
               /\ reservations'[x].rooms = reservations[x].rooms
               /\ reservations'[x].category = reservations[x].category
      BY <2>1, BecomeTyped
    <2>3. QED BY <2>2
  <1>3. CheckedIn' = CheckedIn \cup {b} /\ CheckedIn \subseteq OnTheBooks /\ b \notin CheckedIn
    BY <1>1, <1>2 DEF CheckedIn, Status
  <1>4. \A s \in stays : s.booking \in CheckedIn /\ s.booking # b
    BY <1>3 DEF BedsInv, SleepersCheckedIn
  <1>5. \A r \in assigned : CategoryOf[r] = reservations[b].category
    BY <1>1 DEF Ready, Of
  <1>6. \A r : Stay(r).booking = b /\ Stay(r).room = r /\ Stay(r).departure = end
    OBVIOUS
  <1> HIDE DEF assigned, Stay
  <1>7. SleepersCheckedIn'
    <2>1. ASSUME NEW s \in stays'
          PROVE  /\ s.booking \in CheckedIn'
                 /\ s.departure = reservations'[s.booking].arrival
                                  + reservations'[s.booking].nights
                 /\ CategoryOf[s.room] = reservations'[s.booking].category
      <3>1. CASE s \in stays
        <4>1. s.booking \in OnTheBooks /\ s.booking \in CheckedIn
          BY <1>3, <1>4, <3>1
        <4>2. /\ reservations'[s.booking].arrival = reservations[s.booking].arrival
              /\ reservations'[s.booking].nights = reservations[s.booking].nights
              /\ reservations'[s.booking].category = reservations[s.booking].category
          BY <1>2, <4>1
        <4>3. QED BY <1>3, <3>1, <4>1, <4>2 DEF BedsInv, SleepersCheckedIn
      <3>2. CASE s \in new
        <4>1. PICK r \in assigned : s = Stay(r)
          BY <3>2
        <4>2. s.booking = b /\ s.room = r /\ s.departure = end
          BY <1>6, <4>1
        <4>3. QED BY <1>1, <1>2, <1>3, <1>5, <4>2
      <3>3. QED BY <1>1, <3>1, <3>2
    <2>2. QED BY <2>1 DEF SleepersCheckedIn
  <1>8. Beds(b)' = new
    BY <1>1, <1>4, <1>6 DEF Beds
  <1>9. \A x \in CheckedIn : Beds(x)' = Beds(x)
    BY <1>1, <1>3, <1>6 DEF Beds
  <1>10. Cardinality(new) = reservations[b].rooms
    <2> DEFINE f == [r \in assigned |-> Stay(r)]
    <2>1. f \in [assigned -> new]
      OBVIOUS
    <2>2. \A r, q \in assigned : f[r] = f[q] => r = q
      <3>1. \A r \in assigned : f[r] = Stay(r)
        OBVIOUS
      <3> HIDE DEF f
      <3>2. QED BY <1>6, <3>1
    <2>3. \A s \in new : \E r \in assigned : f[r] = s
      OBVIOUS
    <2> HIDE DEF f, new
    <2>4. f \in Bijection(assigned, new)
      BY <2>1, <2>2, <2>3 DEF Bijection, Injection, IsInjective, Surjection
    <2>5. Cardinality(new) = Cardinality(assigned)
      BY <1>1, <2>4, FS_Bijection DEF ExistsBijection
    <2>6. QED BY <1>1, <2>5
  <1>11. AllRoomsTaken'
    <2>1. ASSUME NEW x \in CheckedIn' PROVE Cardinality(Beds(x)') = reservations'[x].rooms
      <3>1. CASE x = b
        <4>1. Beds(x)' = new
          BY <1>8, <3>1
        <4>2. QED BY <1>1, <1>2, <1>10, <3>1, <4>1
      <3>2. CASE x \in CheckedIn
        <4>1. Cardinality(Beds(x)) = reservations[x].rooms
          BY <3>2 DEF BedsInv, AllRoomsTaken
        <4>2. reservations'[x].rooms = reservations[x].rooms
          BY <1>2, <1>3, <3>2
        <4>3. QED BY <1>9, <3>2, <4>1, <4>2
      <3>3. QED BY <1>3, <3>1, <3>2
    <2>2. QED BY <2>1 DEF AllRoomsTaken
  <1>12. QED BY <1>7, <1>11 DEF BedsInv

LEMMA BedsReception == TypeOK /\ BedsInv /\ RunReception => BedsInv'
PROOF
  <1> SUFFICES ASSUME TypeOK, BedsInv, RunReception PROVE BedsInv'
    OBVIOUS
  <1>1. PICK b : CheckIn(b) \/ Walk(b) \/ PassOver(b)
    BY ReceptionKinds
  <1>2. UNCHANGED <<taken, charged>>
    BY DEF RunReception
  <1>3. CASE CheckIn(b)
    BY <1>2, <1>3, BedsCheckIn
  <1>4. CASE PassOver(b)
    BY <1>4, BedsUntouched DEF PassOver
  <1>5. CASE Walk(b)
    <2>1. Become({b}, "walked") /\ "walked" \in Statuses /\ stays' = stays
          /\ BooksTyped /\ charged' \in [Bookings -> Nat] /\ taken' = taken
      BY <1>2, <1>5 DEF Walk, Statuses, TypeOK, BooksTyped
    <2>2. OnTheBooks' = OnTheBooks
          /\ \A x \in OnTheBooks :
               /\ reservations'[x].status = IF x \in {b} THEN "walked" ELSE reservations[x].status
               /\ reservations'[x].arrival = reservations[x].arrival
               /\ reservations'[x].nights = reservations[x].nights
               /\ reservations'[x].rooms = reservations[x].rooms
               /\ reservations'[x].category = reservations[x].category
      BY <2>1, BecomeTyped
    <2>3. Status(b) = "confirmed"
      BY <1>5 DEF Walk, Confirmed
    <2>4. CheckedIn' = CheckedIn /\ CheckedIn \subseteq OnTheBooks
      BY <2>2, <2>3 DEF CheckedIn, Status
    <2>5. QED BY <2>1, <2>2, <2>4, BedsKept
  <1>6. QED BY <1>1, <1>3, <1>4, <1>5

LEMMA BedsMidnight == TypeOK /\ BedsInv /\ Midnight => BedsInv'
PROOF
  <1> SUFFICES ASSUME TypeOK, BedsInv, Midnight PROVE BedsInv'
    OBVIOUS
  <1> DEFINE gone == {b \in Confirmed \ Waiting : reservations[b].arrival = today - 1}
  <1>1. /\ OnTheBooks' \subseteq OnTheBooks /\ Live \subseteq OnTheBooks'
        /\ \A b \in OnTheBooks' :
             /\ reservations'[b].status = IF b \in gone THEN "noShow" ELSE Status(b)
             /\ reservations'[b].category = reservations[b].category
             /\ reservations'[b].rooms = reservations[b].rooms
             /\ reservations'[b].arrival = reservations[b].arrival
             /\ reservations'[b].nights = reservations[b].nights
    BY MidnightBooks DEF TypeOK
  <1>2. \A b \in gone : Status(b) = "confirmed"
    BY DEF Confirmed
  <1>3. stays' = stays
    BY DEF Midnight, frontDesk
  <1> HIDE DEF gone
  <1>4. CheckedIn \subseteq OnTheBooks'
    BY <1>1 DEF CheckedIn, Live
  <1>5. CheckedIn' = CheckedIn
    <2>1. \A b \in CheckedIn : b \in CheckedIn'
      BY <1>1, <1>2, <1>4 DEF CheckedIn, Status
    <2>2. \A b \in CheckedIn' : b \in CheckedIn
      BY <1>1 DEF CheckedIn, Status
    <2>3. QED BY <2>1, <2>2
  <1>6. QED BY <1>1, <1>3, <1>4, <1>5, BedsKept

LEMMA BedsCancellations == TypeOK /\ BedsInv /\ RunCancellations => BedsInv'
PROOF
  <1> SUFFICES ASSUME TypeOK, BedsInv, RunCancellations PROVE BedsInv'
    OBVIOUS
  <1>1. PICK away \in SUBSET {b \in Confirmed : reservations[b].arrival > today} :
          /\ OnTheBooks' = OnTheBooks
          /\ \A b \in OnTheBooks :
               /\ reservations'[b].status = IF b \in away THEN "cancelled" ELSE Status(b)
               /\ reservations'[b].category = reservations[b].category
               /\ reservations'[b].rooms = reservations[b].rooms
               /\ reservations'[b].arrival = reservations[b].arrival
               /\ reservations'[b].nights = reservations[b].nights
    BY CancellationBooks DEF TypeOK
  <1>2. \A b \in away : Status(b) = "confirmed"
    BY DEF Confirmed
  <1>3. CheckedIn' = CheckedIn /\ CheckedIn \subseteq OnTheBooks
    BY <1>1, <1>2 DEF CheckedIn, Status
  <1>4. stays' = stays
    BY DEF RunCancellations, frontDesk
  <1>5. QED BY <1>1, <1>3, <1>4, BedsKept

LEMMA BedsDemand ==
  ASSUME TypeOK, BedsInv,
         \/ \E n \in Sizes : GenerateContractDemand(n)
         \/ GroupArrives
         \/ \E c \in Categories, lead \in LeadDays, m \in Nights : GenerateDemand(c, lead, m)
  PROVE  BedsInv'
PROOF
  <1>1. /\ UNCHANGED frontDesk /\ taken + 1 \notin OnTheBooks
        /\ OnTheBooks' = OnTheBooks \cup {taken + 1}
        /\ \A b \in OnTheBooks : reservations'[b] = reservations[b]
        /\ reservations'[taken + 1].status = "confirmed"
    BY DemandBooks
  <1>2. CheckedIn' = CheckedIn /\ CheckedIn \subseteq OnTheBooks
    BY <1>1 DEF CheckedIn, Status
  <1>3. QED BY <1>1, <1>2, BedsKept DEF frontDesk

LEMMA BedsNext == TypeOK /\ BedsInv /\ [Next]_vars => BedsInv'
PROOF
  <1> SUFFICES ASSUME TypeOK, BedsInv, [Next]_vars PROVE BedsInv'
    OBVIOUS
  <1> USE DEF frontDesk, books
  <1>1. CASE UNCHANGED vars
    BY <1>1, BedsUntouched DEF vars
  <1>2. ASSUME NEW kind \in {"allotment", "group"}, NEW c \in Categories, NEW n \in Sizes,
               NEW date \in today + 1 .. MaxDay, NEW release \in today + 1 .. MaxDay,
               AcceptBlock(kind, c, date, n, release)
        PROVE BedsInv'
    BY <1>2, BedsUntouched DEF AcceptBlock
  <1>3. CASE StartRenovation \/ AdvanceTime \/ ArrivalWave \/ RunHousekeeping \/ OpenDesk
    BY <1>3, BedsUntouched DEF StartRenovation, AdvanceTime, ArrivalWave, RunHousekeeping, OpenDesk
  <1>4. CASE EndOutage \/ StartOutage \/ NothingFails \/ RunContractCalendar
    BY <1>4, BedsUntouched DEF EndOutage, StartOutage, NothingFails, RunContractCalendar
  <1>5. CASE CheckOut \/ Midnight \/ RunReception \/ RunCancellations
    BY <1>5, BedsCheckOut, BedsMidnight, BedsReception, BedsCancellations
  <1>6. CASE NoLead \/ NoMoreContracts \/ NoMoreGroups \/ NoMoreParties
    BY <1>6, BedsUntouched DEF NoLead, NoMoreContracts, NoMoreGroups, NoMoreParties
  <1>7. ASSUME NEW n \in Sizes, NEW date \in Days, NEW m \in Nights,
               GenerateEventLeads(n, date, m)
        PROVE BedsInv'
    BY <1>7, BedsUntouched DEF GenerateEventLeads
  <1>8. CASE \/ \E n \in Sizes : GenerateContractDemand(n)
             \/ GroupArrives
             \/ \E c \in Categories, lead \in LeadDays, m \in Nights : GenerateDemand(c, lead, m)
    BY <1>8, BedsDemand
  <1>9. QED
    BY <1>1, <1>2, <1>3, <1>4, <1>5, <1>6, <1>7, <1>8 DEF Next

(***************************************************************************)
(* A party that is in the house has every room it booked, of the category  *)
(* it booked (GameSimulation.ts:1708); nobody else sleeps there; whoever   *)
(* waits at the desk waits once, for a booking that is due, and after      *)
(* midnight no booking of a day gone by holds rooms for nobody             *)
(* (GameSimulation.ts:1528).                                               *)
(***************************************************************************)
THEOREM PartiesHaveTheirRooms == Spec => []PartyHasItsRooms
PROOF
  <1>1. Init => DeskInv /\ BedsInv
    BY DeskInit, BedsInit
  <1>2. TypeOK /\ DeskInv /\ BedsInv /\ [Next]_vars => (DeskInv /\ BedsInv)'
    BY DeskNext, BedsNext
  <1>3. TypeOK /\ DeskInv /\ BedsInv => PartyHasItsRooms
    <2> SUFFICES ASSUME TypeOK, DeskInv, BedsInv PROVE PartyHasItsRooms
      OBVIOUS
    <2>1. ASSUME NEW b \in OnTheBooks
          PROVE  LET its == {s \in stays : s.booking = b}
                 IN  IF b \in CheckedIn
                     THEN /\ Cardinality(its) = reservations[b].rooms
                          /\ \A s \in its : CategoryOf[s.room] = reservations[b].category
                     ELSE its = {}
      <3>1. CASE b \in CheckedIn
        <4>1. Cardinality(Beds(b)) = reservations[b].rooms
              /\ \A s \in Beds(b) : CategoryOf[s.room] = reservations[b].category
          BY <3>1 DEF BedsInv, AllRoomsTaken, SleepersCheckedIn, Beds
        <4>2. QED BY <3>1, <4>1 DEF Beds
      <3>2. CASE b \notin CheckedIn
        BY <3>2 DEF BedsInv, SleepersCheckedIn
      <3>3. QED BY <3>1, <3>2
    <2>2. {s.booking : s \in stays} \subseteq OnTheBooks
      BY DEF BedsInv, SleepersCheckedIn, CheckedIn
    <2>3. QED BY <2>1, <2>2, DeskImpliesQueue DEF PartyHasItsRooms
  <1>4. QED BY <1>1, <1>2, <1>3, TypeInvariant, PTL DEF Spec
-----------------------------------------------------------------------------
(***************************************************************************)
(* What is sold.  The rooms of single parties and accounts on a night only *)
(* grow by a booking that fits beside everything else that holds rooms.    *)
(***************************************************************************)
SoldOn(date, c) ==
  {b \in Live : /\ reservations[b].by \in {"guest", "corporate"}
                /\ reservations[b].category = c
                /\ HoldsRoomOn(b, date)}

\* The rooms of bookings are finitely many, and so are those of blocks.
LEMMA RoomsAreFinite ==
  ASSUME TypeOK
  PROVE  /\ \A bs \in SUBSET OnTheBooks : /\ IsFiniteSet(RoomsOf(bs))
                                          /\ Cardinality(RoomsOf(bs)) \in Nat
         /\ \A ks \in SUBSET blocks : /\ IsFiniteSet(RoomsBlocked(ks))
                                      /\ Cardinality(RoomsBlocked(ks)) \in Nat
PROOF
  <1>1. ASSUME NEW bs \in SUBSET OnTheBooks PROVE IsFiniteSet(RoomsOf(bs))
    <2> DEFINE f == [b \in bs |-> {b} \X (1 .. reservations[b].rooms)]
               all == {f[b] : b \in bs}
    <2>1. IsFiniteSet(bs)
      BY ConfirmedIsFinite DEF TypeOK
    <2>2. f = [b \in bs |-> f[b]]
      OBVIOUS
    <2>3. \A b \in bs : IsFiniteSet(f[b])
      <3>1. ASSUME NEW b \in bs PROVE IsFiniteSet(f[b])
        <4>1. reservations[b].rooms \in Nat
          <5>1. reservations[b].rooms \in Sizes \cup {1} /\ Sizes \subseteq Nat
            BY RoomsAssumption DEF TypeOK, BooksTyped, Records
          <5>2. 1 \in Nat
            OBVIOUS
          <5>3. QED BY <5>1, <5>2, Zenon
        <4>2. IsFiniteSet(1 .. reservations[b].rooms)
          <5>1. 1 \in Int /\ reservations[b].rooms \in Int
            BY <4>1
          <5>2. QED BY <5>1, FS_Interval
        <4> HIDE DEF f
        <4>2a. IsFiniteSet({b})
          BY FS_Singleton
        <4>3. IsFiniteSet({b} \X (1 .. reservations[b].rooms))
          BY <4>2, <4>2a, FS_Product
        <4>4. QED BY <4>3 DEF f
      <3>2. QED BY <3>1
    <2>4. RoomsOf(bs) = UNION all
      BY DEF RoomsOf
    <2> HIDE DEF f
    <2>5. IsFiniteSet(all)
      BY <2>1, <2>2, ImageIsFinite
    <2>6. \A T \in all : IsFiniteSet(T)
      BY <2>3
    <2> HIDE DEF all
    <2>7. IsFiniteSet(UNION all)
      BY <2>5, <2>6, FS_UNION
    <2>8. QED BY <2>4, <2>7
  <1>2. ASSUME NEW ks \in SUBSET blocks PROVE IsFiniteSet(RoomsBlocked(ks))
    <2> DEFINE f == [k \in ks |-> {k} \X (1 .. k.rooms)]
               all == {f[k] : k \in ks}
    <2>1. IsFiniteSet(ks)
      BY FS_Subset DEF TypeOK, BlocksTyped
    <2>2. f = [k \in ks |-> f[k]]
      OBVIOUS
    <2>3. \A k \in ks : IsFiniteSet(f[k])
      <3>1. ASSUME NEW k \in ks PROVE IsFiniteSet(f[k])
        <4>1. k.rooms \in Nat
          BY DEF TypeOK, BlocksTyped, BlockRecords
        <4>2. IsFiniteSet(1 .. k.rooms)
          <5>1. 1 \in Int /\ k.rooms \in Int
            BY <4>1
          <5>2. QED BY <5>1, FS_Interval
        <4> HIDE DEF f
        <4>2a. IsFiniteSet({k})
          BY FS_Singleton
        <4>3. IsFiniteSet({k} \X (1 .. k.rooms))
          BY <4>2, <4>2a, FS_Product
        <4>4. QED BY <4>3 DEF f
      <3>2. QED BY <3>1
    <2>4. RoomsBlocked(ks) = UNION all
      BY DEF RoomsBlocked
    <2> HIDE DEF f
    <2>5. IsFiniteSet(all)
      BY <2>1, <2>2, ImageIsFinite
    <2>6. \A T \in all : IsFiniteSet(T)
      BY <2>3
    <2> HIDE DEF all
    <2>7. IsFiniteSet(UNION all)
      BY <2>5, <2>6, FS_UNION
    <2>8. QED BY <2>4, <2>7
  <1>3. QED BY <1>1, <1>2, FS_CardinalityType

\* The rooms of a category are finitely many, and never fewer than they were.
LEMMA RoomsOnlyGrow ==
  ASSUME TypeOK, TypeOK', Built \subseteq Built', NEW CONSTANT c
  PROVE  /\ Cardinality(Of(c)) \in Nat /\ Cardinality(Of(c)') \in Nat
         /\ Cardinality(Of(c)) <= Cardinality(Of(c)')
PROOF
  <1>1. IsFiniteSet(Rooms)
    BY RoomsAssumption
  <1>2. Of(c) \subseteq Of(c)' /\ Of(c) \subseteq Rooms /\ Of(c)' \subseteq Rooms
    BY DEF Of, TypeOK, HouseTyped
  <1>3. IsFiniteSet(Of(c)) /\ IsFiniteSet(Of(c)')
    BY <1>1, <1>2, FS_Subset
  <1>4. QED BY <1>2, <1>3, FS_Subset, FS_CardinalityType

\* A step after which no booking holds rooms that did not hold them before.
LEMMA SoldShrinks ==
  ASSUME TypeOK, TypeOK', NightsAreNotOversold, Built \subseteq Built', Live' \subseteq Live,
         \A b \in Live' :
           /\ reservations'[b].by = reservations[b].by
           /\ reservations'[b].category = reservations[b].category
           /\ reservations'[b].rooms = reservations[b].rooms
           /\ reservations'[b].arrival = reservations[b].arrival
           /\ reservations'[b].nights = reservations[b].nights
  PROVE  NightsAreNotOversold'
PROOF
  <1>1. ASSUME NEW date \in Days, NEW c \in Categories
        PROVE  Cardinality(RoomsOf(SoldOn(date, c))') <= Cardinality(Of(c)') + OverbookingLimit
    <2> DEFINE before == RoomsOf(SoldOn(date, c))
               after == RoomsOf(SoldOn(date, c))'
    <2>1. SoldOn(date, c)' \subseteq SoldOn(date, c)
      BY DEF SoldOn, HoldsRoomOn
    <2>2. \A b \in SoldOn(date, c)' : reservations'[b].rooms = reservations[b].rooms
      BY DEF SoldOn
    <2>3. after \subseteq before
      BY <2>1, <2>2 DEF RoomsOf
    <2>4. SoldOn(date, c) \subseteq OnTheBooks
      BY DEF SoldOn, Live
    <2>5. IsFiniteSet(before) /\ Cardinality(before) \in Nat
      BY <2>4, RoomsAreFinite
    <2>6. Cardinality(before) <= Cardinality(Of(c)) + OverbookingLimit
      BY DEF NightsAreNotOversold, SoldOn
    <2> HIDE DEF before, after
    <2>7. Cardinality(after) <= Cardinality(before) /\ Cardinality(after) \in Nat
      BY <2>3, <2>5, FS_Subset, FS_CardinalityType
    <2>8. /\ Cardinality(Of(c)) \in Nat /\ Cardinality(Of(c)') \in Nat
          /\ Cardinality(Of(c)) <= Cardinality(Of(c)') /\ OverbookingLimit \in Nat
      BY RoomsOnlyGrow, RoomsAssumption
    <2>9. Cardinality(after) <= Cardinality(Of(c)') + OverbookingLimit
      BY <2>5, <2>6, <2>7, <2>8
    <2>10. QED BY <2>9 DEF after
  <1>2. QED BY <1>1 DEF NightsAreNotOversold, SoldOn

LEMMA SoldUntouched ==
  TypeOK /\ TypeOK' /\ NightsAreNotOversold /\ Built \subseteq Built' /\ UNCHANGED reservations
    => NightsAreNotOversold'
PROOF
  <1> SUFFICES ASSUME TypeOK, TypeOK', NightsAreNotOversold, Built \subseteq Built',
                      UNCHANGED reservations
               PROVE  NightsAreNotOversold'
    OBVIOUS
  <1>1. Live' = Live
    BY DEF Live, OnTheBooks, Status
  <1>2. QED BY <1>1, SoldShrinks

\* A booking that fits leaves room for what was sold before it.
LEMMA FitsBesideSold ==
  ASSUME TypeOK, NEW date \in Days, NEW c \in Categories, NEW n \in Nat \ {0},
         n <= AvailableRooms(date, c) + 0
  PROVE  Cardinality(RoomsOf(SoldOn(date, c))) + n <= Cardinality(Of(c)) + OverbookingLimit
PROOF
  <1> DEFINE left == Cardinality(Of(c)) + OverbookingLimit - Held(date, c) - Distributed(date, c)
             all == {b \in Live : reservations[b].category = c /\ HoldsRoomOn(b, date)}
             blocking == {k \in blocks : k.category = c /\ BlockHolds(k, date)}
  <1>1. Held(date, c) \in Nat /\ Held(date, c) = Cardinality(RoomsOf(all))
        /\ IsFiniteSet(RoomsOf(all))
    <2>1. all \subseteq OnTheBooks
      BY DEF Live
    <2>2. Held(date, c) = Cardinality(RoomsOf(all))
      BY DEF Held
    <2> HIDE DEF all
    <2>3. QED BY <2>1, <2>2, RoomsAreFinite
  <1>2. Distributed(date, c) \in Nat
    <2>1. blocking \subseteq blocks /\ Distributed(date, c) = Cardinality(RoomsBlocked(blocking))
      BY DEF Distributed
    <2> HIDE DEF blocking
    <2>2. QED BY <2>1, RoomsAreFinite
  <1>3. Cardinality(Of(c)) \in Nat /\ OverbookingLimit \in Nat
    <2>1. Of(c) \subseteq Rooms /\ IsFiniteSet(Rooms)
      BY RoomsAssumption DEF Of, TypeOK, HouseTyped
    <2>2. QED BY <2>1, FS_Subset, FS_CardinalityType, RoomsAssumption
  <1>4. left \in Int
    BY <1>1, <1>2, <1>3
  <1>5. n <= left
    <2>1. AvailableRooms(date, c) = Max({0, left})
      BY DEF AvailableRooms
    <2> HIDE DEF left
    <2>2. {0, left} \in SUBSET Int /\ {0, left} # {}
      BY <1>4
    <2>3. IsFiniteSet({0, left})
      <3>1. {0, left} = {0} \cup {left}
        OBVIOUS
      <3>2. IsFiniteSet({0})
        BY FS_Singleton
      <3>3. IsFiniteSet({left})
        BY FS_Singleton
      <3>4. QED BY <3>1, <3>2, <3>3, FS_Union
    <2>4. Max({0, left}) \in {0, left}
      BY <2>2, <2>3, MaxIsThere
    <2>5. QED BY <1>4, <2>1, <2>4
  <1>6. Cardinality(RoomsOf(SoldOn(date, c))) <= Held(date, c)
        /\ Cardinality(RoomsOf(SoldOn(date, c))) \in Nat
    <2>1. SoldOn(date, c) \subseteq all /\ SoldOn(date, c) \subseteq OnTheBooks
      BY DEF SoldOn, Live
    <2> HIDE DEF all
    <2>2. RoomsOf(SoldOn(date, c)) \subseteq RoomsOf(all)
      BY <2>1 DEF RoomsOf
    <2>3. QED BY <1>1, <2>1, <2>2, FS_Subset, RoomsAreFinite
  <1>7. QED BY <1>1, <1>2, <1>3, <1>5, <1>6

LEMMA SoldDemand ==
  ASSUME TypeOK, TypeOK', NightsAreNotOversold,
         \/ \E n \in Sizes : GenerateContractDemand(n)
         \/ GroupArrives
         \/ \E c \in Categories, lead \in LeadDays, m \in Nights : GenerateDemand(c, lead, m)
  PROVE  NightsAreNotOversold'
PROOF
  <1> DEFINE new == taken + 1
             it == reservations'[new]
  <1>1. /\ UNCHANGED house /\ BooksTyped' /\ new \notin OnTheBooks
        /\ OnTheBooks' = OnTheBooks \cup {new}
        /\ \A b \in OnTheBooks : reservations'[b] = reservations[b]
        /\ it.status = "confirmed"
        /\ it.by = "group" \/ Fits(it.rooms, it.category, it.arrival, it.nights, 0)
    BY DemandBooks
  <1> HIDE DEF new
  <1>2. it.rooms \in Nat \ {0} /\ it.arrival \in Nat /\ it.nights \in Nat /\ it.category \in Categories
    <2>1. it \in Records
      BY <1>1 DEF BooksTyped
    <2>2. it.rooms \in Sizes \cup {1} /\ it.nights \in Nights \cup {1} /\ it.arrival \in Nat
          /\ it.category \in Categories
      BY <2>1 DEF Records
    <2>3. Sizes \subseteq Nat \ {0} /\ Nights \subseteq Nat
      BY RoomsAssumption
    <2>4. 1 \in Nat \ {0} /\ 1 \in Nat
      OBVIOUS
    <2> HIDE DEF it
    <2>5. QED BY <2>2, <2>3, <2>4, Zenon
  <1>3. Live' = Live \cup {new} /\ new \notin Live
    BY <1>1 DEF Live, Status
  <1>4. Built' = Built
    BY <1>1 DEF house, Built
  <1>5. ASSUME NEW date \in Days, NEW c \in Categories
        PROVE  Cardinality(RoomsOf(SoldOn(date, c))') <= Cardinality(Of(c)') + OverbookingLimit
    <2> DEFINE before == RoomsOf(SoldOn(date, c))
               after == RoomsOf(SoldOn(date, c))'
    <2>0. Of(c)' = Of(c)
      BY <1>4 DEF Of
    <2>1. \A b \in Live : /\ b \in SoldOn(date, c)' <=> b \in SoldOn(date, c)
                          /\ reservations'[b].rooms = reservations[b].rooms
      <3>1. \A b \in Live : b \in Live' /\ reservations'[b] = reservations[b]
        BY <1>1, <1>3 DEF Live
      <3>2. QED BY <3>1 DEF SoldOn, HoldsRoomOn
    <2>2. SoldOn(date, c) \subseteq Live /\ SoldOn(date, c)' \subseteq Live \cup {new}
      BY <1>3 DEF SoldOn
    <2>3. Cardinality(before) <= Cardinality(Of(c)) + OverbookingLimit
      BY DEF NightsAreNotOversold, SoldOn
    <2>4. IsFiniteSet(before) /\ Cardinality(before) \in Nat
      <3>1. SoldOn(date, c) \subseteq OnTheBooks
        BY DEF SoldOn, Live
      <3>2. QED BY <3>1, RoomsAreFinite
    <2>5. CASE new \notin SoldOn(date, c)'
      <3>1. SoldOn(date, c)' = SoldOn(date, c)
        BY <2>1, <2>2, <2>5
      <3>2. after = before
        BY <2>1, <2>2, <3>1 DEF RoomsOf
      <3>3. QED BY <2>0, <2>3, <3>2
    <2>6. CASE new \in SoldOn(date, c)'
      <3>1. it.category = c /\ it.by # "group"
            /\ it.arrival <= date /\ it.arrival + it.nights > date
        BY <2>6 DEF SoldOn, HoldsRoomOn
      <3>2. date \in StayDates(it.arrival, it.nights)
        BY <1>2, <3>1 DEF StayDates, Days
      <3>3. it.rooms <= AvailableRooms(date, c) + 0
        BY <1>1, <3>1, <3>2 DEF Fits
      <3> DEFINE own == {new} \X (1 .. it.rooms)
      <3>4. IsFiniteSet(own) /\ Cardinality(own) = it.rooms
        <4>1. it.rooms \in Nat /\ it.rooms >= 1
          BY <1>2
        <4>2. IsFiniteSet(1 .. it.rooms) /\ Cardinality(1 .. it.rooms) = it.rooms
          <5>1. 1 \in Int /\ it.rooms \in Int /\ ~(1 > it.rooms) /\ it.rooms - 1 + 1 = it.rooms
            BY <4>1
          <5> HIDE DEF it
          <5>2. QED BY <5>1, FS_Interval
        <4>3. IsFiniteSet({new}) /\ Cardinality({new}) = 1
          BY FS_Singleton
        <4>4. Cardinality(own) = 1 * it.rooms /\ IsFiniteSet(own)
          BY ZenonT(60), <4>2, <4>3, FS_Product
        <4> HIDE DEF it, own
        <4>5. QED BY <4>1, <4>4
      <3>5. after = before \cup own
        <4>1. SoldOn(date, c)' = SoldOn(date, c) \cup {new}
          BY <2>1, <2>2, <2>6
        <4>2. \A b \in SoldOn(date, c) : reservations'[b].rooms = reservations[b].rooms
          BY <2>1, <2>2
        <4>3. QED BY <4>1, <4>2 DEF RoomsOf
      <3>6. Cardinality(before) + it.rooms <= Cardinality(Of(c)) + OverbookingLimit
        <4> HIDE DEF it
        <4>1. QED BY <1>2, <3>3, FitsBesideSold
      <3> HIDE DEF it, own, before, after
      <3>7. /\ IsFiniteSet(after)
            /\ Cardinality(after)
                 = Cardinality(before) + Cardinality(own) - Cardinality(before \cap own)
        BY <2>4, <3>4, <3>5, FS_Union
      <3>8. Cardinality(before \cap own) \in Nat
        <4>1. before \cap own \subseteq before
          OBVIOUS
        <4>2. IsFiniteSet(before \cap own)
          BY <2>4, <4>1, FS_Subset
        <4>3. QED BY <4>2, FS_CardinalityType
      <3>9. Cardinality(Of(c)) \in Nat /\ OverbookingLimit \in Nat
        <4>1. Built \subseteq Built'
          BY <1>4
        <4>2. QED BY <4>1, RoomsOnlyGrow, RoomsAssumption
      <3>10. Cardinality(after) <= Cardinality(Of(c)) + OverbookingLimit
        BY <1>2, <2>4, <3>4, <3>6, <3>7, <3>8, <3>9
      <3>11. QED BY <2>0, <3>10 DEF after
    <2>7. QED BY <2>5, <2>6
  <1>6. QED BY <1>5 DEF NightsAreNotOversold, SoldOn

\* A change of statuses that makes no booking live, and changes nothing else.
LEMMA SoldBecome ==
  ASSUME TypeOK, TypeOK', NightsAreNotOversold, Built \subseteq Built', taken' = taken,
         NEW bs, NEW status \in Statuses, Become(bs, status),
         status \in {"confirmed", "checkedIn"} => bs \subseteq Live
  PROVE  NightsAreNotOversold'
PROOF
  <1>1. /\ OnTheBooks' = OnTheBooks
        /\ \A b \in OnTheBooks :
             /\ reservations'[b].status = IF b \in bs THEN status ELSE reservations[b].status
             /\ reservations'[b].category = reservations[b].category
             /\ reservations'[b].rooms = reservations[b].rooms
             /\ reservations'[b].arrival = reservations[b].arrival
             /\ reservations'[b].nights = reservations[b].nights
             /\ reservations'[b].by = reservations[b].by
    <2>1. BooksTyped /\ charged' \in [Bookings -> Nat]
      BY DEF TypeOK, BooksTyped
    <2>2. QED BY <2>1, BecomeTyped
  <1>2. Live' \subseteq Live /\ Live' \subseteq OnTheBooks
    BY <1>1 DEF Live, Status
  <1>3. QED BY <1>1, <1>2, SoldShrinks

LEMMA SoldReception ==
  TypeOK /\ TypeOK' /\ NightsAreNotOversold /\ RunReception => NightsAreNotOversold'
PROOF
  <1> SUFFICES ASSUME TypeOK, TypeOK', NightsAreNotOversold, RunReception
               PROVE  NightsAreNotOversold'
    OBVIOUS
  <1>1. PICK b : CheckIn(b) \/ Walk(b) \/ PassOver(b)
    BY ReceptionKinds
  <1>2. taken' = taken
    BY DEF RunReception
  <1>3. CASE CheckIn(b)
    <2>1. Built' = Built
      BY <1>3 DEF CheckIn, Built
    <2>2. b \in Live /\ Become({b}, "checkedIn") /\ "checkedIn" \in Statuses
      BY <1>3 DEF CheckIn, Confirmed, Live, Statuses
    <2>3. {b} \subseteq Live /\ Built \subseteq Built'
      BY <2>1, <2>2
    <2>4. QED BY <1>2, <2>2, <2>3, SoldBecome
  <1>4. CASE Walk(b)
    <2>1. Built \subseteq Built' /\ Become({b}, "walked")
      BY <1>4 DEF Walk, Built
    <2>2. "walked" \in Statuses /\ "walked" \notin {"confirmed", "checkedIn"}
      BY DEF Statuses
    <2>3. QED BY <1>2, <2>1, <2>2, SoldBecome
  <1>5. CASE PassOver(b)
    BY <1>5, SoldUntouched DEF PassOver, Built
  <1>6. QED BY <1>1, <1>3, <1>4, <1>5

LEMMA SoldCheckOut ==
  TypeOK /\ TypeOK' /\ NightsAreNotOversold /\ CheckOut => NightsAreNotOversold'
PROOF
  <1> SUFFICES ASSUME TypeOK, TypeOK', NightsAreNotOversold, CheckOut
               PROVE  NightsAreNotOversold'
    OBVIOUS
  <1> DEFINE gone == {s.booking : s \in Leaving} \cap CheckedIn
  <1>1. Become(gone, "completed") /\ taken' = taken /\ Built \subseteq Built'
    BY DEF CheckOut, Built
  <1>2. "completed" \in Statuses /\ "completed" \notin {"confirmed", "checkedIn"}
    BY DEF Statuses
  <1> HIDE DEF gone
  <1>3. QED BY <1>1, <1>2, SoldBecome

LEMMA SoldCancellations ==
  TypeOK /\ TypeOK' /\ NightsAreNotOversold /\ RunCancellations => NightsAreNotOversold'
PROOF
  <1> SUFFICES ASSUME TypeOK, TypeOK', NightsAreNotOversold, RunCancellations
               PROVE  NightsAreNotOversold'
    OBVIOUS
  <1>1. PICK away : Become(away, "cancelled")
    BY DEF RunCancellations
  <1>2. taken' = taken /\ Built \subseteq Built'
    BY DEF RunCancellations, house, Built
  <1>3. "cancelled" \in Statuses /\ "cancelled" \notin {"confirmed", "checkedIn"}
    BY DEF Statuses
  <1>4. QED BY <1>1, <1>2, <1>3, SoldBecome

LEMMA SoldMidnight ==
  TypeOK /\ TypeOK' /\ NightsAreNotOversold /\ Midnight => NightsAreNotOversold'
PROOF
  <1> SUFFICES ASSUME TypeOK, TypeOK', NightsAreNotOversold, Midnight
               PROVE  NightsAreNotOversold'
    OBVIOUS
  <1> DEFINE gone == {b \in Confirmed \ Waiting : reservations[b].arrival = today - 1}
  <1>1. /\ OnTheBooks' \subseteq OnTheBooks
        /\ \A b \in OnTheBooks' :
             /\ reservations'[b].status = IF b \in gone THEN "noShow" ELSE Status(b)
             /\ reservations'[b].category = reservations[b].category
             /\ reservations'[b].rooms = reservations[b].rooms
             /\ reservations'[b].arrival = reservations[b].arrival
             /\ reservations'[b].nights = reservations[b].nights
             /\ reservations'[b].by = reservations[b].by
    BY MidnightBooks DEF TypeOK
  <1> HIDE DEF gone
  <1>2. Live' \subseteq Live /\ Live' \subseteq OnTheBooks'
    BY <1>1 DEF Live, Status
  <1>3. Built \subseteq Built'
    BY DEF Midnight, house, Built
  <1>4. QED BY <1>1, <1>2, <1>3, SoldShrinks

LEMMA SoldHousekeeping ==
  TypeOK /\ TypeOK' /\ NightsAreNotOversold /\ RunHousekeeping => NightsAreNotOversold'
PROOF
  <1> SUFFICES ASSUME TypeOK, TypeOK', NightsAreNotOversold, RunHousekeeping
               PROVE  NightsAreNotOversold'
    OBVIOUS
  <1>1. Built \subseteq Built'
    BY DEF RunHousekeeping, Built
  <1>2. QED BY <1>1, SoldUntouched DEF RunHousekeeping, books

LEMMA SoldInit == Init => NightsAreNotOversold
PROOF
  <1> SUFFICES ASSUME Init PROVE NightsAreNotOversold
    OBVIOUS
  <1>1. OnTheBooks = {} /\ TypeOK
    BY TypeInit DEF Init, OnTheBooks
  <1>2. ASSUME NEW date \in Days, NEW c \in Categories
        PROVE  Cardinality(RoomsOf(SoldOn(date, c))) <= Cardinality(Of(c)) + OverbookingLimit
    <2>1. RoomsOf(SoldOn(date, c)) = {}
      BY <1>1 DEF SoldOn, Live, RoomsOf
    <2>2. Cardinality(RoomsOf(SoldOn(date, c))) = 0
      BY <2>1, FS_EmptySet
    <2>3. Of(c) \subseteq Rooms /\ IsFiniteSet(Rooms)
      BY <1>1, RoomsAssumption DEF Of, TypeOK, HouseTyped
    <2>4. Cardinality(Of(c)) \in Nat /\ OverbookingLimit \in Nat
      BY <2>3, FS_Subset, FS_CardinalityType, RoomsAssumption
    <2>5. QED BY <2>2, <2>4
  <1>3. QED BY <1>2 DEF NightsAreNotOversold, SoldOn

LEMMA SoldNext ==
  TypeOK /\ TypeOK' /\ NightsAreNotOversold /\ [Next]_vars => NightsAreNotOversold'
PROOF
  <1> SUFFICES ASSUME TypeOK, TypeOK', NightsAreNotOversold, [Next]_vars
               PROVE  NightsAreNotOversold'
    OBVIOUS
  <1>1. ASSUME UNCHANGED <<rooms, reservations>> PROVE NightsAreNotOversold'
    BY <1>1, SoldUntouched DEF Built
  <1> USE DEF house, books
  <1>2. CASE UNCHANGED vars
    BY <1>1, <1>2 DEF vars
  <1>3. ASSUME NEW kind \in {"allotment", "group"}, NEW c \in Categories, NEW n \in Sizes,
               NEW date \in today + 1 .. MaxDay, NEW release \in today + 1 .. MaxDay,
               AcceptBlock(kind, c, date, n, release)
        PROVE NightsAreNotOversold'
    BY <1>1, <1>3 DEF AcceptBlock
  <1>4. CASE StartRenovation \/ AdvanceTime \/ ArrivalWave \/ OpenDesk
    BY <1>1, <1>4 DEF StartRenovation, AdvanceTime, ArrivalWave, OpenDesk
  <1>5. CASE EndOutage \/ StartOutage
    <2>1. Built \subseteq Built' /\ UNCHANGED reservations
      BY <1>5 DEF EndOutage, StartOutage, Built
    <2>2. QED BY <2>1, SoldUntouched
  <1>6. CASE \/ NothingFails \/ RunContractCalendar \/ NoLead
             \/ NoMoreContracts \/ NoMoreGroups \/ NoMoreParties
    BY <1>1, <1>6 DEF NothingFails, RunContractCalendar, NoLead, NoMoreContracts, NoMoreGroups,
                      NoMoreParties
  <1>7. CASE CheckOut \/ Midnight \/ RunHousekeeping \/ RunReception \/ RunCancellations
    BY <1>7, SoldCheckOut, SoldMidnight, SoldHousekeeping, SoldReception, SoldCancellations
  <1>8. ASSUME NEW n \in Sizes, NEW date \in Days, NEW m \in Nights,
               GenerateEventLeads(n, date, m)
        PROVE NightsAreNotOversold'
    BY <1>1, <1>8 DEF GenerateEventLeads
  <1>9. CASE \/ \E n \in Sizes : GenerateContractDemand(n)
             \/ GroupArrives
             \/ \E c \in Categories, lead \in LeadDays, m \in Nights : GenerateDemand(c, lead, m)
    BY <1>9, SoldDemand
  <1>10. QED
    BY <1>2, <1>3, <1>4, <1>5, <1>6, <1>7, <1>8, <1>9 DEF Next

(***************************************************************************)
(* On no night do single parties and accounts hold more rooms of a         *)
(* category than the house has, with the overbooking the player allowed:   *)
(* a booking is taken only when every night of it fits                     *)
(* (bookingEngine.ts:49), and no room is ever unbuilt.                     *)
(***************************************************************************)
THEOREM NightsNotOversold == Spec => []NightsAreNotOversold
PROOF
  <1>1. TypeOK /\ TypeOK' /\ NightsAreNotOversold /\ [Next]_vars => NightsAreNotOversold'
    BY SoldNext
  <1>2. QED BY <1>1, SoldInit, TypeInvariant, PTL DEF Spec
-----------------------------------------------------------------------------
(***************************************************************************)
(* Walked guests.  Only the desk walks a party, and it takes no room when  *)
(* it does.                                                                *)
(***************************************************************************)
\* A change to another status than "walked" walks nobody.
LEMMA BecomeWalksNobody ==
  ASSUME NEW bs, NEW status, status # "walked", Become(bs, status), NEW b \in OnTheBooks,
         reservations[b] \in Records, Status(b) # "walked"
  PROVE  reservations'[b].status # "walked"
PROOF
  <1>1. reservations'[b] =
          IF b \in bs THEN [reservations[b] EXCEPT !.status = status] ELSE reservations[b]
    BY DEF Become
  <1>2. [reservations[b] EXCEPT !.status = status].status = status
    BY DEF Records
  <1>3. QED BY <1>1, <1>2 DEF Status

LEMMA OnlyTheDeskWalks ==
  ASSUME TypeOK, [Next]_vars, NEW b \in OnTheBooks, b \in OnTheBooks',
         Status(b) # "walked", reservations'[b].status = "walked"
  PROVE  Walk(b)
PROOF
  <1>1. ASSUME UNCHANGED reservations PROVE FALSE
    BY <1>1 DEF Status
  <1>2. reservations[b] \in Records
    BY DEF TypeOK, BooksTyped
  <1>3. ASSUME NEW bs, NEW status, Become(bs, status), status # "walked" PROVE FALSE
    BY <1>2, <1>3, BecomeWalksNobody
  <1> USE DEF books
  <1>4. CASE UNCHANGED vars
    BY <1>1, <1>4 DEF vars
  <1>5. ASSUME NEW kind \in {"allotment", "group"}, NEW c \in Categories, NEW n \in Sizes,
               NEW date \in today + 1 .. MaxDay, NEW release \in today + 1 .. MaxDay,
               AcceptBlock(kind, c, date, n, release)
        PROVE FALSE
    BY <1>1, <1>5 DEF AcceptBlock
  <1>6. CASE StartRenovation \/ AdvanceTime \/ ArrivalWave \/ RunHousekeeping \/ OpenDesk
    BY <1>1, <1>6 DEF StartRenovation, AdvanceTime, ArrivalWave, RunHousekeeping, OpenDesk
  <1>7. CASE EndOutage \/ StartOutage \/ NothingFails \/ RunContractCalendar
    BY <1>1, <1>7 DEF EndOutage, StartOutage, NothingFails, RunContractCalendar
  <1>8. CASE NoLead \/ NoMoreContracts \/ NoMoreGroups \/ NoMoreParties
    BY <1>1, <1>8 DEF NoLead, NoMoreContracts, NoMoreGroups, NoMoreParties
  <1>9. ASSUME NEW n \in Sizes, NEW date \in Days, NEW m \in Nights,
               GenerateEventLeads(n, date, m)
        PROVE FALSE
    BY <1>1, <1>9 DEF GenerateEventLeads
  <1>10. CASE CheckOut
    <2>1. \E bs : Become(bs, "completed")
      BY <1>10 DEF CheckOut
    <2>2. QED BY <1>3, <2>1
  <1>11. CASE RunCancellations
    <2>1. \E bs : Become(bs, "cancelled")
      BY <1>11 DEF RunCancellations
    <2>2. QED BY <1>3, <2>1
  <1>12. CASE Midnight
    <2>1. reservations'[b].status \in {"noShow", Status(b)}
      BY <1>12, MidnightBooks DEF TypeOK
    <2>2. QED BY <2>1
  <1>13. CASE \/ \E n \in Sizes : GenerateContractDemand(n)
              \/ GroupArrives
              \/ \E c \in Categories, lead \in LeadDays, m \in Nights : GenerateDemand(c, lead, m)
    <2>1. reservations'[b] = reservations[b]
      BY <1>13, DemandBooks
    <2>2. QED BY <2>1 DEF Status
  <1>14. CASE RunReception
    <2>1. PICK x : CheckIn(x) \/ Walk(x) \/ PassOver(x)
      BY <1>14, ReceptionKinds
    <2>2. CASE CheckIn(x)
      BY <1>3, <2>2 DEF CheckIn
    <2>3. CASE PassOver(x)
      BY <1>1, <2>3 DEF PassOver
    <2>4. CASE Walk(x)
      <3>1. reservations'[b] = IF b \in {x} THEN [reservations[b] EXCEPT !.status = "walked"]
                               ELSE reservations[b]
        BY <2>4 DEF Walk, Become
      <3>2. b = x
        BY <3>1 DEF Status
      <3>3. QED BY <2>4, <3>2
    <2>5. QED BY <2>1, <2>2, <2>3, <2>4
  <1>15. QED
    BY <1>4, <1>5, <1>6, <1>7, <1>8, <1>9, <1>10, <1>11, <1>12, <1>13, <1>14 DEF Next

(***************************************************************************)
(* A guest is walked only when too few clean rooms of the category are     *)
(* left for the party (GameSimulation.ts:1712).                            *)
(***************************************************************************)
THEOREM WalkedWhenShort == Spec => WalkedOnlyWhenShort
PROOF
  <1>1. TypeOK /\ [Next]_vars =>
          [\A b \in OnTheBooks :
             b \in DOMAIN reservations' /\ Status(b) # "walked" /\ reservations'[b].status = "walked" =>
               Cardinality(Ready(reservations[b].category)') < reservations[b].rooms]_vars
    <2> SUFFICES ASSUME TypeOK, [Next]_vars, NEW b \in OnTheBooks, b \in DOMAIN reservations',
                        Status(b) # "walked", reservations'[b].status = "walked"
                 PROVE  Cardinality(Ready(reservations[b].category)') < reservations[b].rooms
      OBVIOUS
    <2>1. Walk(b)
      BY OnlyTheDeskWalks DEF OnTheBooks
    <2>2. UNCHANGED rooms /\ UNCHANGED reservations[b].category /\ Short(b)
      <3>1. reservations'[b] = [reservations[b] EXCEPT !.status = "walked"]
        BY <2>1 DEF Walk, Become
      <3>2. QED BY <2>1, <3>1 DEF Walk
    <2>3. Ready(reservations[b].category)' = Ready(reservations[b].category)
      BY <2>2 DEF Ready, InState, Of, Built
    <2>4. QED BY <2>2, <2>3 DEF Short
  <1>2. QED BY <1>1, TypeInvariant, PTL DEF Spec, WalkedOnlyWhenShort

(***************************************************************************)
(* The clock, the rooms, the books, the blocks, the desk and the staff     *)
(* keep their types in every state of the house (initialState.ts,          *)
(* GameSimulation.ts:1270): no counter leaves its bounds and no list names *)
(* a booking that was never taken.                                         *)
(***************************************************************************)
THEOREM TypeCorrect == Spec => []TypeOK
  BY TypeInvariant
=============================================================================
