------------------------------ MODULE Commercial ------------------------------
(***************************************************************************)
(* The commercial side of the house: leads and the accounts signed from    *)
(* them, the loyalty scheme and what it owes, the guests remembered, and   *)
(* the campaigns and what they are credited with.                          *)
(*                                                                         *)
(* What a campaign costs, and what a benefit or the points released bring, *)
(* are postings of FinanceBooks and left out here.  Dates are numbers.     *)
(***************************************************************************)
EXTENDS Integers, FiniteSets, Functions

CONSTANTS
  Leads, AccountOf,      \* sales leads, and the account of each
  Dates,                 \* dates contracts run between
  Guests, Stays,         \* guests, and the bookings they come on
  PointsPerNight,
  PointValue,            \* what honouring a point costs
  BreakageShare,         \* one point in so many is written off a month
  SilverNights,          \* nights that make a member
  BurnAt,                \* points a benefit is paid with
  Durations,             \* days a campaign is bought for
  AttributionLag, DaysAMonth,
  MaxCommercial,         \* bound: commands and nights
  MaxCloses              \* bound: months closed

ASSUME CommercialAssumption ==
  /\ DOMAIN AccountOf = Leads
  /\ Dates \subseteq Nat /\ Durations \subseteq Nat \ {0}
  /\ {PointsPerNight, PointValue, SilverNights, AttributionLag, MaxCommercial,
      MaxCloses} \subseteq Nat
  /\ {BreakageShare, BurnAt, DaysAMonth} \subseteq Nat \ {0}

VARIABLES
  leads,       \* the stage each lead is at
  contracts,   \* accounts signed
  scheme,      \* the loyalty scheme: whether it is offered, and what it owes
  members,     \* its members: points and nights
  profiles,    \* the stays each guest is remembered for
  campaigns,   \* campaigns launched, in order
  closes,      \* months closed
  dealt        \* commands decided and nights sold

commercialVars ==
  <<leads, contracts, scheme, members, profiles, campaigns, closes, dealt>>

Rank == [lead |-> 1, qualified |-> 2, proposed |-> 3, won |-> 4, lost |-> 5]
Stages == DOMAIN Rank

CommercialInit ==
  /\ leads = <<>> /\ contracts = {}
  /\ scheme = [active |-> TRUE, liability |-> 0]
  /\ members = <<>> /\ profiles = [g \in Guests |-> {}] /\ campaigns = {}
  /\ closes = 0 /\ dealt = 0

Dealt == dealt < MaxCommercial /\ dealt' = dealt + 1
-----------------------------------------------------------------------------
(* Sales.                                                                  *)

Extended(f, x, value) == [y \in DOMAIN f \cup {x} |-> IF y = x THEN value ELSE f[y]]

AddLead(lead) ==
  /\ Dealt /\ lead \notin DOMAIN leads
  /\ leads' = Extended(leads, lead, "lead")
  /\ UNCHANGED <<contracts, scheme, members, profiles, campaigns, closes>>

\* Stages only ever move forwards; any open lead can be lost.
MayAdvance(lead, stage) ==
  /\ lead \in DOMAIN leads /\ leads[lead] \notin {"won", "lost"}
  /\ stage = "lost" \/ Rank[stage] > Rank[leads[lead]]

AdvanceLead(lead, stage) ==
  /\ Dealt /\ MayAdvance(lead, stage)
  /\ leads' = Extended(leads, lead, stage)
  /\ UNCHANGED <<contracts, scheme, members, profiles, campaigns, closes>>

Overlap(c, d) == c.from < d.to /\ d.from < c.to

SameAccount(c, d) == AccountOf[c.lead] = AccountOf[d.lead]

\* Two live rates for one account would make the rate a matter of which came first.
MaySign(contract) ==
  /\ contract.from < contract.to
  /\ \A other \in contracts :
       /\ other.lead # contract.lead
       /\ ~(SameAccount(contract, other) /\ Overlap(contract, other))

\* The contract and the lead it wins move together: when the lead is closed the
\* signature is undone with the command.
SignAccount(lead, from, to) ==
  LET contract == [lead |-> lead, from |-> from, to |-> to, intent |-> "unknown"]
  IN  /\ Dealt /\ MayAdvance(lead, "won") /\ MaySign(contract)
      /\ contracts' = contracts \cup {contract}
      /\ leads' = Extended(leads, lead, "won")
      /\ UNCHANGED <<scheme, members, profiles, campaigns, closes>>

SetRenewalIntent(contract, intent) ==
  /\ Dealt /\ contract \in contracts
  /\ contracts' = (contracts \ {contract}) \cup {[contract EXCEPT !.intent = intent]}
  /\ UNCHANGED <<leads, scheme, members, profiles, campaigns, closes>>
-----------------------------------------------------------------------------
(* Loyalty, and the guests remembered.                                     *)

ConfigureLoyalty(active) ==
  /\ Dealt /\ scheme.active # active
  /\ scheme' = [scheme EXCEPT !.active = active]
  /\ UNCHANGED <<leads, contracts, members, profiles, campaigns, closes>>

MemberFor(guest) ==
  IF guest \in DOMAIN members THEN members[guest] ELSE [points |-> 0, nights |-> 0]

Earned(guest) ==
  IF scheme.active
  THEN Extended(members, guest, [points |-> MemberFor(guest).points + PointsPerNight,
                                 nights |-> MemberFor(guest).nights + 1])
  ELSE members

\* A member of a tier is given its first benefit as soon as the points reach it.
Burns(after, guest) ==
  /\ guest \in DOMAIN after
  /\ after[guest].nights >= SilverNights /\ after[guest].points >= BurnAt

\* A night sold: the scheme owes its points, the guest is remembered once for
\* the booking, and a benefit may be taken.
RecordCommercialStay(guest, stay) ==
  LET after == Earned(guest)
      owed == scheme.liability + (IF scheme.active THEN PointsPerNight * PointValue ELSE 0)
      burns == Burns(after, guest)
  IN  /\ Dealt
      /\ profiles' = [profiles EXCEPT ![guest] = @ \cup {stay}]
      /\ members' = IF burns THEN [after EXCEPT ![guest].points = @ - BurnAt] ELSE after
      /\ scheme' = [scheme EXCEPT !.liability =
                      IF burns THEN owed - BurnAt * PointValue ELSE owed]
      /\ UNCHANGED <<leads, contracts, campaigns, closes>>

Breakage(member) == member.points \div BreakageShare

WrittenOff == SumFunction([g \in DOMAIN members |-> Breakage(members[g])])

\* What nobody will come back for is released, the points with the money.
AfterBreakage ==
  [g \in DOMAIN members |-> [members[g] EXCEPT !.points = @ - Breakage(members[g])]]
-----------------------------------------------------------------------------
(* Campaigns.                                                              *)

LaunchCampaign(id, days) ==
  /\ Dealt /\ id \notin {c.id : c \in campaigns}
  /\ campaigns' = campaigns \cup
       {[id |-> id, days |-> days, age |-> 0, running |-> TRUE, worked |-> FALSE]}
  /\ UNCHANGED <<leads, contracts, scheme, members, profiles, closes>>

Attributed(campaign, age) ==
  age >= AttributionLag /\ age - AttributionLag < campaign.days

\* The age grows by the whole month, whatever the day the campaign began.
CampaignMonth(campaign) ==
  LET age == campaign.age + DaysAMonth
  IN  IF campaign.running
      THEN [campaign EXCEPT !.age = age, !.worked = @ \/ Attributed(campaign, age),
                            !.running = age < campaign.days + AttributionLag]
      ELSE campaign

RunCommercialMonth ==
  /\ closes < MaxCloses /\ closes' = closes + 1
  /\ members' = AfterBreakage
  /\ scheme' = [scheme EXCEPT !.liability = @ - WrittenOff * PointValue]
  /\ campaigns' = {CampaignMonth(c) : c \in campaigns}
  /\ UNCHANGED <<leads, contracts, profiles, dealt>>

CommercialNext ==
  \/ \E lead \in Leads :
       \/ AddLead(lead)
       \/ \E stage \in Stages \ {"lead"} : AdvanceLead(lead, stage)
       \/ \E from, to \in Dates : SignAccount(lead, from, to)
  \/ \E contract \in contracts, intent \in {"renewing", "leaving"} :
       SetRenewalIntent(contract, intent)
  \/ \E active \in BOOLEAN : ConfigureLoyalty(active)
  \/ \E guest \in Guests, stay \in Stays : RecordCommercialStay(guest, stay)
  \/ \E days \in Durations : LaunchCampaign(dealt, days)
  \/ RunCommercialMonth

CommercialSpec == CommercialInit /\ [][CommercialNext]_commercialVars
-----------------------------------------------------------------------------
(* Properties.                                                             *)

\* The scheme owes exactly what its members' points would cost to honour, through
\* nights, benefits, a scheme stopped and resumed and the monthly write-off whose
\* rounding is per member (loyalty.ts earnPoints, burnPoints, releaseBreakageMinor).
SchemeReconciles ==
  scheme.liability = PointValue * SumFunction([g \in DOMAIN members |-> members[g].points])

\* Every account is signed from a lead that was won by it, and no account has two
\* rates on one date (salesPipeline.ts signContract, commercialCommands.ts).
AccountsAreWonOnce ==
  \A c \in contracts :
    /\ leads[c.lead] = "won"
    /\ \A d \in contracts : c # d => ~(SameAccount(c, d) /\ Overlap(c, d))

\* The two books of the commercial side.
CommercialAgrees == SchemeReconciles /\ AccountsAreWonOnce

\* A campaign that is over was credited with something.
CampaignsWork == \A c \in campaigns : ~c.running => c.worked
=============================================================================
