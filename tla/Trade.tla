-------------------------------- MODULE Trade --------------------------------
(***************************************************************************)
(* What the company sells and where: accounts, the loyalty scheme and      *)
(* campaigns beside what a room is sold for and to how many; the city and  *)
(* its other houses beside the terms a career is played on; the houses of  *)
(* the group, what it buys and builds, and who may decide without asking.  *)
(***************************************************************************)
EXTENDS Commercial, Selling, City, Campaign, Group, Ventures, Delegation, Focus

SalesSpec ==
  /\ FocusStays
  /\ focus = "commercial" => CommercialSpec
  /\ focus = "selling" => SellingSpec

WorldSpec ==
  /\ FocusStays
  /\ focus = "city" => CitySpec
  /\ focus = "campaign" => CampaignSpec

CompanySpec ==
  /\ FocusStays
  /\ focus = "group" => GroupSpec
  /\ focus = "ventures" => VenturesSpec
  /\ focus = "delegation" => DelegationSpec

\* What is promised to accounts and guests, and what a room is sold for, is kept to
\* (GameSimulation.ts:3525).
SalesAreKept ==
  /\ focus = "commercial" => CommercialAgrees
  /\ focus = "selling" => SellingHolds

\* The city shares its nights without losing or inventing one, and the campaign's terms land
\* where they are disclosed (cityMarket.ts, difficultyEffects.ts).
WorldIsFair ==
  /\ focus = "city" => CityAgrees
  /\ focus = "campaign" => CampaignHolds

\* The company's registers agree: a house entered and left is in all of them or in none,
\* a deal leaves what was paid where it was promised, and what a desk was allowed is what it
\* spends (recovery.ts:520, companyCommands.ts:541).
CompanyAgrees ==
  /\ focus = "group" => GroupAgrees
  /\ focus = "ventures" => VenturesHold
  /\ focus = "delegation" => DelegationHolds
=============================================================================
