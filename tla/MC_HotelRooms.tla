----------------------------- MODULE MC_HotelRooms -----------------------------
(*****************************************************************************)
(* Instances of HotelRooms for TLC: double rooms, in the run of stays a      *)
(* third that is converted; days of five or six quanta.                      *)
(*****************************************************************************)
EXTENDS HotelRooms

Doubles == [r \in Rooms |-> "double"]
=============================================================================
