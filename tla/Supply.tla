--------------------------------- MODULE Supply --------------------------------
(***************************************************************************)
(* What the house uses up and gets back: portions and cleaning units that  *)
(* are ordered, delivered and consumed, and the linen that goes from the   *)
(* shelf to the beds, to the laundry and to the shelf again.               *)
(*                                                                         *)
(* The phases of a quantum run in the order GameSimulation.runPhase gives  *)
(* them; the operators below are the phases this module is about.          *)
(***************************************************************************)
EXTENDS Integers, Sequences, FiniteSets, SequencesExt, Lists

CONSTANTS
  Beds,            \* the rooms
  LinenPieces,     \* what one room takes
  StartingLinen,   \* on the shelf at the start
  LowStock,        \* below this the house orders by itself
  Minimum,         \* the smallest order a supplier takes
  LeadTime,        \* quanta until an order is delivered
  CheckOutTime, LaundryTime, BreakfastTime, DayLength,   \* in quanta
  MaxTurnround,    \* rooms housekeeping has the minutes for
  MaxPlayerOrders, MaxOutages,   \* bounds: of each event
  MaxQuanta        \* bound: quanta played

ASSUME SupplyAssumption ==
  /\ IsFiniteSet(Beds)
  /\ {LinenPieces, DayLength, Minimum} \subseteq Nat \ {0}
  /\ {StartingLinen, LowStock, LeadTime, CheckOutTime, LaundryTime, BreakfastTime,
      MaxTurnround, MaxPlayerOrders, MaxOutages, MaxQuanta} \subseteq Nat

VARIABLES
  rooms,      \* the state of each room
  linen,      \* pieces clean and dirty
  made,       \* ghost: the rooms whose beds are made up
  stock,      \* units and portions on the shelf
  coming,     \* pendingOrders, as placed
  standing,   \* the house's orders that wait to be decided
  outage,     \* quanta an outage has left
  moment,     \* quanta since the start
  asked       \* ghost: orders of the player, outages

supplyVars == <<rooms, linen, made, stock, coming, standing, outage, moment, asked>>

Skus == {"cleaning-unit", "breakfast-portion"}

SupplyInit ==
  /\ rooms = [r \in Beds |-> "VacantClean"]
  /\ linen = [clean |-> StartingLinen, dirty |-> 0]
  /\ made = Beds
  /\ stock = [sku \in Skus |-> LowStock]
  /\ coming = <<>> /\ standing = <<>>
  /\ outage = 0 /\ moment = 0
  /\ asked = [orders |-> 0, outages |-> 0]

At(time) == moment % DayLength = time

In(state) == {r \in Beds : rooms[r] = state}
-----------------------------------------------------------------------------
(* Orders.                                                                 *)

PlaceOrder(sku, quantity, by) ==
  [sku |-> sku, quantity |-> quantity, due |-> moment + LeadTime, by |-> by]

\* Standing orders are placed, or refused for want of cash.
Decided(affordable) ==
  coming \o [i \in DOMAIN affordable |->
               PlaceOrder(affordable[i], Minimum, "house")]

\* The player orders between two quanta: what waits is decided first.
OrderSupplies(sku, affordable) ==
  /\ asked.orders < MaxPlayerOrders
  /\ asked' = [asked EXCEPT !.orders = @ + 1]
  /\ coming' = Append(Decided(affordable), PlaceOrder(sku, Minimum, "player"))
  /\ standing' = <<>>
  /\ UNCHANGED <<rooms, linen, made, stock, outage, moment>>

LowOn(left, shelf) ==
  {sku \in Skus : /\ shelf[sku] < LowStock
                  /\ \A i \in DOMAIN left : left[i].sku # sku}

\* receiveOrders: what is due is put on the shelf.
Delivered(orders, shelf) ==
  [sku \in Skus |->
     FoldSeq(LAMBDA o, n : n + (IF o.sku = sku /\ o.due <= moment THEN o.quantity ELSE 0),
             shelf[sku], orders)]

OnTheWay(orders) == Sifted(orders, {o \in ElementsOf(orders) : o.due > moment})

\* What is low is ordered ware by ware, where there is the cash for that ware.
Reordered(left, shelf, payable) ==
  Sifted(<<"cleaning-unit", "breakfast-portion">>, LowOn(left, shelf) \cap payable)
-----------------------------------------------------------------------------
(* The phases that use things up.                                          *)

\* Slip: the linen of a room that is left is forgotten on its bed.
CheckOutUnstripped(leaving) ==
  [rooms |-> [r \in Beds |-> IF r \in leaving THEN "VacantDirty" ELSE rooms[r]],
   linen |-> [linen EXCEPT !.dirty = @ + LinenPieces * Cardinality(leaving)],
   made |-> made]

\* Stays that are over leave dirty rooms and their linen.
CheckOut(leaving) ==
  [rooms |-> [r \in Beds |-> IF r \in leaving THEN "VacantDirty" ELSE rooms[r]],
   linen |-> [linen EXCEPT !.dirty = @ + LinenPieces * Cardinality(leaving)],
   made |-> made \ leaving]

\* Rooms are turned one by one, while there are minutes, units and linen; a
\* room inspected in the last quantum is for sale.
TurnRooms(h, units, minutes) ==
  LET opened == [r \in Beds |-> IF h.rooms[r] = "Inspected" THEN "VacantClean"
                                                           ELSE h.rooms[r]]
      dirty == {r \in Beds : opened[r] = "VacantDirty"}
      fits(n) == /\ n <= minutes /\ n <= units /\ n <= Cardinality(dirty)
                 /\ n * LinenPieces <= h.linen.clean
  IN  {[rooms |-> [r \in Beds |-> IF r \in turned THEN "Inspected" ELSE opened[r]],
        linen |-> [h.linen EXCEPT !.clean = @ - LinenPieces * Cardinality(turned)],
        made |-> h.made \cup turned, units |-> units - Cardinality(turned)] :
         turned \in {t \in SUBSET dirty : fits(Cardinality(t)) /\ ~fits(Cardinality(t) + 1)}}

CheckIn(h, arriving) ==
  [h EXCEPT !.rooms = [r \in Beds |-> IF r \in arriving THEN "Occupied" ELSE @[r]]]

\* In-house capacity first, then the contract laundry: n pieces in all.
RunLaundry(h, n) ==
  [h EXCEPT !.linen = [clean |-> @.clean + n, dirty |-> @.dirty - n]]

\* An energy outage closes every room nobody sleeps in; when it is over, those
\* rooms have to be cleaned, made up or not.
EndOutage(h) ==
  [h EXCEPT !.rooms = [r \in Beds |-> IF @[r] = "OutOfOrder" THEN "VacantDirty"
                                                             ELSE @[r]]]

StartOutage(h) ==
  [h EXCEPT !.rooms = [r \in Beds |-> IF @[r] = "Occupied" THEN @[r] ELSE "OutOfOrder"]]

RunMaintenance(h, fails) ==
  LET mended == IF outage = 1 THEN EndOutage(h) ELSE h
  IN  IF fails THEN StartOutage(mended) ELSE mended

\* One quantum: check-outs, housekeeping, check-ins, breakfast, laundry,
\* deliveries, the outages.
AdvanceQuantum(affordable, minutes, leaving, portions, pieces, fails, length) ==
  LET placed == Decided(affordable)
      left == CheckOut(IF At(CheckOutTime) THEN leaving ELSE {})
      eaten == IF At(BreakfastTime) THEN portions ELSE 0
      washed == IF At(LaundryTime) THEN pieces ELSE 0
  IN  /\ moment' = moment + 1
      /\ \E h \in TurnRooms(left, stock["cleaning-unit"], minutes) :
         \E arriving \in SUBSET {r \in Beds : h.rooms[r] = "VacantClean"} :
           LET shelf == [stock EXCEPT !["cleaning-unit"] = h.units,
                                      !["breakfast-portion"] = @ - eaten]
               way == OnTheWay(placed)
               laundered == RunLaundry(CheckIn(h, arriving), washed)
               kept == RunMaintenance(laundered, fails)
           IN  /\ washed <= h.linen.dirty
               /\ stock' = Delivered(placed, shelf)
               /\ coming' = way
               /\ \E payable \in SUBSET LowOn(way, stock') :
                    standing' = Reordered(way, stock', payable)
               /\ rooms' = kept.rooms /\ linen' = kept.linen /\ made' = kept.made
      /\ outage' = IF fails THEN length ELSE IF outage > 0 THEN outage - 1 ELSE 0
      /\ asked' = IF fails THEN [asked EXCEPT !.outages = @ + 1] ELSE asked

SupplyNext ==
  \/ \E sku \in Skus, paid \in SUBSET ElementsOf(standing) :
       OrderSupplies(sku, Sifted(standing, paid))
  \/ /\ moment < MaxQuanta
     /\ \E fails \in {f \in BOOLEAN : f => asked.outages < MaxOutages /\ outage <= 1 /\ At(0)} :
        \E length \in IF fails THEN 1 .. 2 ELSE {1},
           leaving \in SUBSET IF At(CheckOutTime) THEN In("Occupied") ELSE {},
           portions \in IF At(BreakfastTime) THEN {0, stock["breakfast-portion"]} ELSE {0},
           pieces \in IF At(LaundryTime) THEN {0, linen.dirty} ELSE {0} :
        \E paid \in SUBSET ElementsOf(standing), minutes \in 0 .. MaxTurnround :
          AdvanceQuantum(Sifted(standing, paid), minutes, leaving, portions, pieces, fails,
                         length)

SupplySpec == SupplyInit /\ [][SupplyNext]_supplyVars
-----------------------------------------------------------------------------
(* Properties.                                                             *)

PiecesInHouse == linen.clean + linen.dirty + LinenPieces * Cardinality(made)

\* However rooms are left, turned, closed and laundered, no piece of linen is in
\* two places: the house never has more than it started with, and a bed somebody
\* sleeps in or may sleep in is made up.
LinenIsNotMultiplied ==
  /\ PiecesInHouse <= StartingLinen + LinenPieces * Cardinality(Beds)
  /\ In("Occupied") \cup In("VacantClean") \cup In("Inspected") \subseteq made

\* Of each ware the house has at most one order of its own on the way, waiting
\* to be decided or placed (GameSimulation.receiveOrders, 2446).
OneStandingOrderAtATime ==
  \A sku \in Skus :
    Cardinality({i \in DOMAIN coming : coming[i].sku = sku /\ coming[i].by = "house"})
      + Cardinality({i \in DOMAIN standing : standing[i] = sku}) <= 1

\* What the house has, and what it has coming, is counted once.
SupplyHolds == LinenIsNotMultiplied /\ OneStandingOrderAtATime

\* Housekeeping needs the linen to make a room up and the laundry needs the same
\* pile back (inventory.ts:56): what is washed and laid is what there was.
LinenIsKept == PiecesInHouse = StartingLinen + LinenPieces * Cardinality(Beds)
=============================================================================
