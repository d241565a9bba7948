----------------------------- MODULE Facilities -----------------------------
(***************************************************************************)
(* The serviced areas of the house (GameSimulation.runFacilities): four    *)
(* outlets that cook from one larder, the spa, the daily meters, the       *)
(* commercial spaces, and the facility board that is worked out anew at    *)
(* the end of every quantum.                                               *)
(*                                                                         *)
(* A day is its Moments; one action is the quantum of a moment, with the   *)
(* appetites it finds.  Guests come and go, and portions are delivered,    *)
(* between any two of them; who is on duty is decided for the day.  Basis  *)
(* points are scaled: Full stands for 10,000.                              *)
(***************************************************************************)
EXTENDS Integers, Sequences, FiniteSets, FiniteSetsExt

CONSTANTS
  Seating,       \* [outlet -> covers its seats can be sold for in a service]
  KitchenLine,   \* STARTER_HOTEL.kitchenCovers
  PerHand,       \* covers one member of staff serves
  WasteShare, Buffer,            \* FNB_WASTE_BP, FNB_PREPARATION_BUFFER_BP
  TakeUp,        \* [outlet -> share of the guests that come to it]
  Full,          \* 10,000 basis points
  Outside,       \* covers the city, or a conference at breakfast, may bring
  TreatmentRooms, SlotsPerRoom, SpaTakeUp,
  DrawPerTreatment, MeterCapacity,
  Spaces,        \* the commercial spaces
  SpaceCapacity, SpaceStaff, SpaceFit,   \* of a space
  Promise,       \* PROMISED_DELIVERY_MINUTES
  PrepMinutes,   \* kitchen and corridor
  Laws,          \* what the law may ask of a facility: see Restriction
  Duties,        \* hands and lifts a day may have
  Regulated,     \* the facilities the law knows of
  TripsPerCar,   \* LIFT_TRIPS_PER_DAY
  Larder, Delivery,              \* portions at the start, and of one delivery
  DaysOfHouseMonth,
  MaxGuests, MaxQuiet, MaxHouseDays   \* bounds: stays, quanta without a service, days

VARIABLES
  hour,          \* the moment of the day that comes next
  houseDay,      \* days gone by
  guests,        \* Len(stays)
  larder,        \* stock["breakfast-portion"]
  outlets,       \* fnb.outlets
  spa,           \* wellness.booked and wellness.therapists
  drawn,         \* utilities: units metered today
  trips,         \* elevatorTrips
  units,         \* commercialSpaces.unitsSold
  duty,          \* hands on duty of each department, lifts that run
  law,           \* compliance.activeClosures and activeRestrictions
  shown,         \* the alerts of this module on the screen
  facilityBoard,         \* facilities: the rows
  announced,          \* ghost: the cause the last FACILITY_CONSTRAINT_CHANGED named
  tally          \* ghost: portions delivered and gone, treatments not metered yet,
                 \* quanta without a service

facilityVars == <<hour, houseDay, guests, larder, outlets, spa, drawn, trips, units, law,
                  duty, shown, facilityBoard, announced, tally>>

Outlets == {"breakfastRoom", "restaurant", "bar", "roomService"}

Moments == <<"breakfast", "laundry", "spa", "evening", "bar", "late", "midnight">>

\* The facility whose law binds an outlet.
Premises == [breakfastRoom |-> "facility.breakfast_room", restaurant |-> "facility.restaurant",
             bar |-> "facility.bar", roomService |-> "facility.kitchen"]

Facilities == {Premises[o] : o \in {"breakfastRoom", "restaurant", "bar"}} \cup
              {"facility.wellness", "facility.elevator"}

Departments == {"kitchen", "fnb", "wellness", "reception"}

Open == [closed |-> FALSE, halved |-> FALSE]

ASSUME FacilitiesAssumption ==
  /\ {KitchenLine, PerHand, WasteShare, Buffer, TreatmentRooms, SlotsPerRoom, SpaTakeUp,
      DrawPerTreatment, MeterCapacity, Promise, PrepMinutes, TripsPerCar, Larder, Delivery,
      SpaceCapacity, SpaceStaff, SpaceFit, MaxGuests, MaxQuiet, MaxHouseDays} \subseteq Nat
  /\ {Full, DaysOfHouseMonth} \subseteq Nat \ {0}
  /\ {WasteShare, SpaTakeUp, SpaceFit} \subseteq 0 .. Full
  /\ TakeUp \in [Outlets -> 0 .. Full] /\ Seating \in [Outlets -> Nat]
  /\ Outside \subseteq Nat /\ Duties \subseteq [hands : [Departments -> Nat], lifts : Nat]
-----------------------------------------------------------------------------
(* Capacities.                                                             *)

Least(a, b) == IF a < b THEN a ELSE b

\* Math.round, half up.
Rounded(n, d) == (2 * n + d) \div (2 * d)

Share(n, part) == (n * part) \div Full

Limit(label, value) == [label |-> label, value |-> value]

\* facilityRow: the tightest limit, and the first declared of those that tie.
Binding(limits) ==
  limits[CHOOSE i \in DOMAIN limits :
           /\ \A j \in DOMAIN limits : limits[i].value <= limits[j].value
           /\ \A j \in 1 .. (i - 1) : limits[i].value < limits[j].value]

\* applyComplianceConstraints: a closure, and the restriction in force, if any.
Restriction(l, base) ==
  (IF l.closed THEN <<Limit("regulatory closure", 0)>> ELSE <<>>) \o
  (IF l.halved THEN <<Limit("compliance restriction", base \div 2)>> ELSE <<>>)

\* plannedFnbPreparation.
Prepared(wanted) ==
  Least(KitchenLine, wanted + (wanted * Buffer + Full - 1) \div Full)

\* runKitchenService: served from what was prepared and is in stock; of the
\* prepared portions nobody wanted a share is thrown away.
Kitchen(covers, wanted) ==
  LET made == Least(Prepared(wanted), larder)
      served == Least(covers, made)
  IN  [served |-> served,
       wasted |-> Least(made - served, Rounded(made * WasteShare, Full))]

\* The limits of a service in the order the code declares them.
Limits(o, wanted, hands) ==
  LET service == Limit("facility.cause.serviceStaff", hands * PerHand)
      line == Limit("facility.cause.kitchenLine", KitchenLine)
      tail == <<Limit("facility.cause.stock", larder),
                Limit("facility.cause.miseEnPlace", Prepared(wanted))>>
  IN  <<Limit("facility.cause.demand", wanted)>> \o
      (IF o = "roomService"
         THEN <<line, service, Limit("facility.cause.transport", hands * PerHand),
                Limit("facility.cause.elevator", duty.lifts * KitchenLine)>> \o tail \o
              Restriction(law[Premises[o]], KitchenLine)
         ELSE <<Limit("facility.cause.seating", Seating[o]), service, line>> \o tail \o
              Restriction(law[Premises[o]], Seating[o]))

\* The covers the kitchen is asked for.
CoversOrdered(o, wanted, capacity) ==
  IF o = "roomService" THEN capacity ELSE Least(Least(wanted, Seating[o]), capacity)

\* deliveryMinutes, with the lifts as they are: sixty minutes where none runs.
Minutes == PrepMinutes + (IF duty.lifts = 0 THEN 60 ELSE Least(60, Rounded(trips, duty.lifts)))
-----------------------------------------------------------------------------
(* A service.                                                              *)

\* One service: what the outlet records of it.
Service(o, wanted, department) ==
  LET row == Binding(Limits(o, wanted, duty.hands[department]))
      k == Kitchen(CoversOrdered(o, wanted, row.value), wanted)
  IN  [demand |-> wanted, capacity |-> row.value, served |-> k.served,
       wasted |-> k.wasted, cause |-> row.label,
       waiting |-> wanted - k.served,
       late |-> o = "roomService" /\ k.served > 0 /\ Minutes > Promise]

\* recordFnbOutlet: the alert of the outlet goes up or comes down.
Delayed(o, record) ==
  IF record.waiting > 0 \/ record.late THEN shown \cup {o} ELSE shown \ {o}

\* What is served and wasted leaves the larder.
Serve(o, record) ==
  /\ outlets' = [outlets EXCEPT ![o] = record]
  /\ larder' = larder - record.served - record.wasted

Gone(record) == [tally EXCEPT !.gone = @ + record.served + record.wasted]

\* Covers wanted of an outlet: the guests' share, and those from outside.
Wanted(o, outside) == Share(guests, TakeUp[o]) + outside
-----------------------------------------------------------------------------
(* The board. *)

\* refreshFacilities, of the rows the state of this module decides.
Rows(left, records, on, rules) ==
  [f \in Facilities |->
     Binding(CASE f = "facility.breakfast_room" ->
                    <<Limit("seating", Seating["breakfastRoom"]),
                      Limit("facility.cause.kitchenLine", KitchenLine),
                      Limit("portions in stock", left)>> \o
                    Restriction(rules[f], Seating["breakfastRoom"])
               [] f = "facility.bar" ->
                    <<Limit("seating", Seating["bar"]),
                      Limit("staffed throughput", on.hands["fnb"] * PerHand)>> \o
                    Restriction(rules[f], Seating["bar"])
               [] f = "facility.restaurant" ->
                    <<Limit(records["restaurant"].cause, records["restaurant"].capacity)>> \o
                    Restriction(rules[f], records["restaurant"].capacity)
               [] f = "facility.wellness" ->
                    <<Limit("treatment rooms", TreatmentRooms * SlotsPerRoom),
                      Limit("therapists on duty", on.hands["wellness"] * SlotsPerRoom)>> \o
                    Restriction(rules[f], TreatmentRooms * SlotsPerRoom)
               [] f = "facility.elevator" ->
                    <<Limit("cars in service", on.lifts * TripsPerCar)>> \o
                    Restriction(rules[f], on.lifts * TripsPerCar))]

\* The events of a quantum: an outlet's or a row's new cause, if it is new.
News(rows, records) ==
  [f \in DOMAIN announced |->
     IF f \in Facilities
       THEN IF rows[f].label # facilityBoard[f].label THEN rows[f].label ELSE announced[f]
       ELSE IF records[f].cause # outlets[f].cause THEN records[f].cause ELSE announced[f]]

Refresh ==
  LET rows == Rows(larder', outlets', duty', law')
  IN  facilityBoard' = rows /\ announced' = News(rows, outlets')
-----------------------------------------------------------------------------
(* The day.                                                                *)

Comes(moment) == Moments[hour] = moment

Passes == hour' = hour + 1 /\ houseDay' = houseDay

\* runBreakfast.
Breakfast(outside) ==
  LET wanted == Wanted("breakfastRoom", outside)
      record == Service("breakfastRoom", wanted, "kitchen")
  IN  /\ Comes("breakfast") /\ Passes
      /\ Serve("breakfastRoom", record)
      /\ shown' = Delayed("breakfastRoom", record)
      /\ tally' = Gone(record)
      /\ UNCHANGED <<guests, spa, drawn, trips, units, law, duty>>
      /\ Refresh

\* meterDailyUtilities, before the wash: the kitchen, the laundry, and the spa
\* with what it has booked, as far as the supply goes.
MeterDay(outside, dirty) ==
  /\ Comes("laundry") /\ Passes
  /\ drawn' = Least(MeterCapacity, drawn + guests + outside + dirty
                                      + spa.booked * DrawPerTreatment)
  /\ tally' = [tally EXCEPT !.unmetered = @ - spa.booked]
  /\ UNCHANGED <<guests, larder, outlets, spa, trips, units, law, duty, shown>>
  /\ Refresh

\* openSlots, of a spa nothing is booked in yet.
Slots(therapists) == Least(TreatmentRooms, therapists) * SlotsPerRoom

\* The book of the day: bookSlot until one is refused.
BookTreatments(therapists, wanted) ==
  [booked |-> Least(wanted, Slots(therapists)), therapists |-> therapists]

\* runWellness.
OpenSpa ==
  LET wanted == Share(guests, SpaTakeUp)
  IN  /\ Comes("spa") /\ Passes
      /\ spa' = BookTreatments(duty.hands["wellness"], wanted)
      /\ tally' = [tally EXCEPT !.unmetered = @ + Least(wanted, Slots(duty.hands["wellness"]))]
      /\ shown' = IF wanted > spa'.booked /\ duty.hands["wellness"] = 0
                    THEN shown \cup {"spa"} ELSE shown \ {"spa"}
      /\ UNCHANGED <<guests, larder, outlets, drawn, trips, units, law, duty>>
      /\ Refresh

\* runCommercialSpaces: nobody is served where too few stand.
Used ==
  IF duty.hands["reception"] < SpaceStaff THEN 0
  ELSE Least(SpaceCapacity, Share(guests, SpaceFit))

\* The hour the restaurant serves and the spaces are settled for, in this order.
Evening(outside) ==
  LET record == Service("restaurant", Wanted("restaurant", outside), "fnb")
      over == Used < Share(guests, SpaceFit)
  IN  /\ Comes("evening") /\ Passes
      /\ Serve("restaurant", record)
      /\ units' = [s \in Spaces |-> units[s] + Used]
      /\ tally' = Gone(record)
      /\ shown' = IF over THEN Delayed("restaurant", record) \cup {"space"}
                           ELSE Delayed("restaurant", record) \ {"space"}
      /\ UNCHANGED <<guests, spa, drawn, trips, law, duty>>
      /\ Refresh

\* runBar.
BarService(outside) ==
  LET record == Service("bar", Wanted("bar", outside), "fnb")
  IN  /\ Comes("bar") /\ Passes
      /\ Serve("bar", record)
      /\ shown' = Delayed("bar", record)
      /\ tally' = Gone(record)
      /\ UNCHANGED <<guests, spa, drawn, trips, units, law, duty>>
      /\ Refresh

\* runRoomService: every order served is a trip of the lift.
RoomService ==
  LET record == Service("roomService", Wanted("roomService", 0), "fnb")
  IN  /\ Comes("late") /\ Passes
      /\ Serve("roomService", record)
      /\ trips' = trips + record.served
      /\ shown' = Delayed("roomService", record)
      /\ tally' = Gone(record)
      /\ UNCHANGED <<guests, spa, drawn, units, law, duty>>
      /\ Refresh

\* runCommercialSpaceMonth: the month's use is settled, and the next starts at nothing.
UseAfterMonth(ending) == IF ending THEN [s \in Spaces |-> 0] ELSE units

\* The day rolls: the loads of the day start again, the compliance check may
\* bind or free a facility, the month may end.
RollDay(f, l, on) ==
  LET ending == (houseDay + 1) % DaysOfHouseMonth = 0
  IN  /\ Comes("midnight") /\ houseDay + 1 < MaxHouseDays
      /\ hour' = 1 /\ houseDay' = houseDay + 1
      /\ trips' = 0 /\ drawn' = 0
      /\ law' = [law EXCEPT ![f] = l]
      /\ duty' = on
      /\ units' = UseAfterMonth(ending)
      /\ UNCHANGED <<guests, larder, outlets, spa, shown, tally>>
      /\ Refresh

\* A quantum without a service: guests come or go by the lift, portions arrive.
QuietQuantum(n, portions) ==
  /\ tally.quiet < MaxQuiet
  /\ tally' = [tally EXCEPT !.quiet = @ + 1, !.delivered = @ + portions]
  /\ guests' = n
  /\ trips' = trips + (IF n > guests THEN n - guests ELSE guests - n)
  /\ larder' = larder + portions
  /\ UNCHANGED <<hour, houseDay, outlets, spa, drawn, units, law, duty, shown>>
  /\ Refresh

ClosedYet == [demand |-> 0, capacity |-> 0, served |-> 0, wasted |-> 0,
              cause |-> "facility.cause.closed", waiting |-> 0, late |-> FALSE]

FacilitiesInit ==
  /\ hour = 1 /\ houseDay = 0 /\ guests = MaxGuests
  /\ larder = Larder
  /\ outlets = [o \in Outlets |-> ClosedYet]
  /\ spa = [booked |-> 0, therapists |-> 0]
  /\ drawn = 0 /\ trips = 0
  /\ units = [s \in Spaces |-> 0]
  /\ law = [f \in Facilities \cup {"facility.kitchen"} |-> Open]
  /\ shown = {}
  /\ tally = [delivered |-> 0, gone |-> 0, unmetered |-> 0, quiet |-> 0]
  /\ duty \in Duties
  /\ facilityBoard = Rows(Larder, outlets, duty, law)
  /\ announced = [f \in Facilities \cup Outlets |->
              IF f \in Facilities THEN facilityBoard[f].label ELSE outlets[f].cause]

FacilitiesNext ==
  \/ \E outside \in Outside :
       \/ Breakfast(outside)
       \/ Evening(outside)
       \/ BarService(outside)
       \/ \E dirty \in {0, MeterCapacity} : MeterDay(outside, dirty)
  \/ OpenSpa
  \/ RoomService
  \/ \E f \in Regulated, l \in Laws, on \in Duties : RollDay(f, l, on)
  \/ \E n \in 0 .. MaxGuests, portions \in {0, Delivery} : QuietQuantum(n, portions)

FacilitiesSpec == FacilitiesInit /\ [][FacilitiesNext]_facilityVars
-----------------------------------------------------------------------------
(* Properties.                                                             *)

\* However the outlets share the larder, every portion delivered is on the shelf,
\* was served or was thrown away, and none of them takes one that is not there
\* (consume throws, and the game stops).
LarderIsShared == larder >= 0 /\ larder + tally.gone = Larder + tally.delivered

\* What a save is refused without (fnbState.ts, isFnbState): no outlet serves more
\* than was wanted or than it can.
OutletsAreSavable ==
  \A o \in Outlets : /\ outlets[o].served <= outlets[o].demand
                     /\ outlets[o].served <= outlets[o].capacity

\* The alert of an outlet is up exactly while guests waited in its last service.
WaitsAreTold ==
  \A o \in Outlets : o \in shown <=> outlets[o].waiting > 0 \/ outlets[o].late

\* Every treatment booked is metered, once: at the next wash, and not again
\* after the spa has opened a new book.
TreatmentsAreMetered ==
  tally.unmetered = IF Moments[hour] = "spa" THEN 0 ELSE spa.booked

\* Who only hears of changed constraints knows what binds each area.
CausesAreNews ==
  announced = [f \in Facilities \cup Outlets |->
            IF f \in Facilities THEN facilityBoard[f].label ELSE outlets[f].cause]

FacilitiesHold ==
  /\ LarderIsShared
  /\ OutletsAreSavable
  /\ WaitsAreTold
  /\ TreatmentsAreMetered
  /\ CausesAreNews

\* A save is also refused where an outlet's cause is not one of facility.cause
\* (fnbState.ts, isFnbState): what the law binds is named otherwise.
OutletsLoad ==
  \A o \in Outlets : outlets[o].cause \notin {"regulatory closure", "compliance restriction"}
=============================================================================
