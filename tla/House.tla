-------------------------------- MODULE House --------------------------------
(***************************************************************************)
(* What runs in a house beside the stays: its stock and linen, what it     *)
(* draws, and its service areas.  The quantum of the simulation steps each *)
(* of them (GameSimulation.ts, runQuantum); none reads another here.       *)
(***************************************************************************)
EXTENDS Supply, Utilities, Facilities, Focus

HouseSpec ==
  /\ FocusStays
  /\ focus = "supply" => SupplySpec
  /\ focus = "utilities" => UtilitiesSpec
  /\ focus = "facilities" => FacilitiesSpec

\* Nothing of the house's stock, linen, draw or covers is used twice or lost
\* (GameSimulation.ts:2034).
HouseRuns ==
  /\ focus = "supply" => SupplyHolds
  /\ focus = "utilities" => UtilitiesAgree
  /\ focus = "facilities" => FacilitiesHold
=============================================================================
