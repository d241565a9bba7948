-------------------------------- MODULE Selling --------------------------------
(***************************************************************************)
(* What a room is sold for, to whom and through which channel: the rate    *)
(* the player sets, the revenue manager's change within an authority, the  *)
(* policy's bounds, the rate plan with its restrictions, an account's      *)
(* discount and what a guest is willing to pay; and the conferences, which *)
(* run and are billed.                                                     *)
(*                                                                         *)
(* Money is in units, shares in parts of BasisPoints.  Which rooms are free*)
(* on a night is the subject of HotelRooms: what the demand of a day finds *)
(* there - how full the house is, a room clean at the desk, every night of *)
(* the stay free - is an input here.                                       *)
(***************************************************************************)
EXTENDS Integers, Sequences, FiniteSets, FiniteSetsExt, Functions

CONSTANTS
  Channels,           \* channel ids, "walkIn" among them
  Commission,         \* [channel -> commission]
  Technical,          \* channels that need technology in the city and in the house
  BasisPoints,        \* 10 000 basis points
  Rates,              \* what the player may ask for a night
  RatePlans,          \* rate plans the player may set; a maximum of 0 is none
  SellingPolicies,    \* policies the player may set, their rules in the order of priority
  PlainStrategy,      \* PricingStrategy of a manager whose authority is as it is set: 50
  Measures,           \* [occupancy, forecast] an enquiry may find
  Segments,           \* [willing, nights]: kinds of guest
  LeadDays,           \* days ahead a guest books; 0 is a walk-in
  Corporate,          \* segments an account holds a contract for: subset of Segments
  AccountRate,
  Values,             \* what a conference is worth
  MaxEnquiries, MaxSetting, MaxSaleDays

RevenueRules == [metric : {"occupancy", "leadTime", "forecast"}, from : Int, change : Int]

ASSUME SellingAssumption ==
  /\ "walkIn" \in Channels /\ Technical \subseteq Channels \ {"walkIn"}
  /\ Commission \in [Channels -> 0 .. BasisPoints] /\ Commission["walkIn"] = 0
  /\ Rates \cup Values \cup {AccountRate, BasisPoints, PlainStrategy} \subseteq Nat \ {0}
  /\ Rates # {} /\ IsFiniteSet(Rates)
  /\ RatePlans \subseteq [modifier : 0 .. BasisPoints, closed : BOOLEAN, minimum : Nat, maximum : Nat,
                          advance : Nat, floor : Nat, ceiling : Nat, closedTo : SUBSET Channels]
  /\ SellingPolicies \subseteq [authority : 0 .. BasisPoints, strategy : 0 .. 2 * PlainStrategy,
                                rules : Seq(RevenueRules), floor : Nat, ceiling : Nat, costLimit : Nat]
  /\ Measures \subseteq [occupancy : Int, forecast : Int]
  /\ Segments \subseteq [willing : Nat, nights : Nat \ {0}]
  /\ LeadDays \subseteq Nat
  /\ Corporate \subseteq Segments
  /\ {MaxEnquiries, MaxSetting, MaxSaleDays} \subseteq Nat

VARIABLES
  saleDay,       \* the day
  price,         \* rates: the player's rate
  policy,        \* revenuePolicy without its plan
  plan,          \* the plan sold: "flexible"
  shut,          \* channels the player's inventory rules keep from selling
  online,        \* the technology has come, to the city and the house
  sales,         \* bookings and conferences
  halted,        \* the simulation stopped on an exception
  billed,        \* ghost: [conference -> times it was billed]
  settings, enquiries

sellingVars == <<saleDay, price, policy, plan, shut, online, sales, halted, billed, settings,
                 enquiries>>

Lesser(a, b) == IF a < b THEN a ELSE b
Larger(a, b) == IF a > b THEN a ELSE b
Between(low, high, n) == Larger(low, Lesser(high, n))

\* availableChannels, then what the policy and the inventory rules leave of them.
Offering ==
  {c \in Channels : /\ c \in Technical => online
                    /\ Commission[c] <= policy.costLimit
                    /\ c \notin shut}

\* The change of the first rule whose metric is reached.
ChangeAsked(measure, lead) ==
  LET metrics == [occupancy |-> measure.occupancy, leadTime |-> lead, forecast |-> measure.forecast]
      reached == {i \in DOMAIN policy.rules :
                    metrics[policy.rules[i].metric] >= policy.rules[i].from}
  IN  {policy.rules[i].change : i \in {j \in reached : \A k \in reached : j <= k}}

\* The manager's strategy stretches the authority or takes it away.
Authority == Lesser(BasisPoints, (policy.authority * policy.strategy) \div PlainStrategy)

Changed(base, change) == Larger(1, (base * (BasisPoints + change)) \div BasisPoints)

\* Slip: the manager's change is not held to the authority.
AutomaticUnbounded(base, asked) ==
  IF asked = {} \/ policy.authority = 0 THEN base ELSE Changed(base, Max(asked))

\* automaticRate: the change asked for, if any, within the authority.
Automatic(base, asked) ==
  IF asked = {} \/ policy.authority = 0 THEN base
  ELSE Changed(base, Between(-Authority, Authority, Max(asked)))

\* applyRatePlan: its restrictions, then the rate, rounded, within the plan's bounds.
PlanAdmits(nights, lead, channel) ==
  /\ ~plan.closed
  /\ plan.minimum <= nights
  /\ plan.maximum # 0 => nights <= plan.maximum
  /\ plan.advance <= lead
  /\ channel \notin plan.closedTo

\* A part of a rate, rounded to the nearest.
PartOf(rate, part) == (rate * part + BasisPoints \div 2) \div BasisPoints

PlanRate(rate) == Between(plan.floor, plan.ceiling, PartOf(rate, plan.modifier))

\* negotiatedDiscountBasisPoints, then corporateRateMinor.
AccountPays(rate) ==
  IF rate = 0 THEN 0
  ELSE PartOf(rate, BasisPoints - Larger(0, ((rate - AccountRate) * BasisPoints) \div rate))

\* What a guest is asked for, through the chain.
Quote(segment, lead, measure) ==
  LET decided == Automatic(price, ChangeAsked(measure, lead))
      listed == PlanRate(Between(policy.floor, policy.ceiling, decided))
  IN  IF segment \in Corporate THEN AccountPays(listed) ELSE listed
-----------------------------------------------------------------------------
FlexiblePlan ==
  [modifier |-> BasisPoints, closed |-> FALSE, minimum |-> 1, maximum |-> 0,
   advance |-> 0, floor |-> 0, ceiling |-> Max(Rates) * 2, closedTo |-> {}]

OpenPolicy ==
  [authority |-> 0, strategy |-> PlainStrategy, rules |-> <<>>, floor |-> 0,
   ceiling |-> Max(Rates) * 2, costLimit |-> BasisPoints]

SellingInit ==
  /\ saleDay = 0 /\ price = Max(Rates) /\ policy = OpenPolicy /\ plan = FlexiblePlan
  /\ shut = {} /\ online = FALSE /\ sales = {} /\ halted = FALSE
  /\ billed = [n \in 1 .. MaxEnquiries |-> 0]
  /\ settings = 0 /\ enquiries = 0

Setting ==
  /\ ~halted /\ settings < MaxSetting
  /\ settings' = settings + 1
  /\ UNCHANGED <<saleDay, sales, halted, billed, enquiries>>

\* SET_RATE, for all nights alike.
SetRate(rate) == Setting /\ price' = rate /\ UNCHANGED <<policy, plan, shut, online>>

\* SET_REVENUE_POLICY: a floor above the ceiling is refused, of policy and plan alike,
\* and a longest stay below the shortest.
SetRevenuePolicy(p, q) ==
  /\ Setting
  /\ p.floor <= p.ceiling /\ q.floor <= q.ceiling
  /\ q.minimum > 0 /\ (q.maximum # 0 => q.minimum <= q.maximum)
  /\ policy' = p /\ plan' = q
  /\ UNCHANGED <<price, shut, online>>

\* SET_CHANNEL_INVENTORY: any channel may be closed, the walk-in's too.
SetChannelInventory(c, isShut) ==
  /\ Setting
  /\ shut' = IF isShut THEN shut \cup {c} ELSE shut \ {c}
  /\ UNCHANGED <<price, policy, plan, online>>

\* The technology is adopted and put in.
Adopt == Setting /\ online' = TRUE /\ UNCHANGED <<price, policy, plan, shut>>

Enquiring ==
  /\ ~halted /\ enquiries < MaxEnquiries
  /\ enquiries' = enquiries + 1
  /\ UNCHANGED <<saleDay, price, policy, plan, shut, online, billed, settings>>

Booked(segment, lead, channel, rate) ==
  [id |-> enquiries + 1, kind |-> "guest", from |-> saleDay + lead, nights |-> segment.nights,
   rate |-> rate, channel |-> channel, willing |-> segment.willing,
   base |-> price, bound |-> Authority, least |-> Larger(policy.floor, plan.floor)]

\* One guest of the day's demand.  A walk-in finds no clean room at the desk (canWalkIn),
\* or nobody sells: the guest goes.  The channel drawn does not exist - the walk-in's is
\* shut, or there is none to book ahead with: an exception stops the simulation.  The plan
\* refuses, the price is refused, a night is full: an alert.  Else a booking.
Enquire(segment, lead, drawn, measure, vacant, fits) ==
  LET offering == Offering
      ahead == offering \ {"walkIn"}
      rate == Quote(segment, lead, measure)
      walksIn == lead = 0
  IN  /\ Enquiring
      /\ IF walksIn THEN drawn = "walkIn" ELSE IF ahead = {} THEN drawn = "none" ELSE drawn \in ahead
      /\ IF offering = {} \/ (walksIn /\ ~vacant) THEN UNCHANGED <<sales, halted>>
         ELSE IF (walksIn /\ "walkIn" \notin offering) \/ (~walksIn /\ ahead = {})
         THEN halted' = TRUE /\ UNCHANGED sales
         ELSE /\ UNCHANGED halted
              /\ sales' = IF PlanAdmits(segment.nights, lead, drawn) /\ rate <= segment.willing /\ fits
                          THEN sales \cup {Booked(segment, lead, drawn, rate)} ELSE sales

\* generateContractDemand: an account's nights for tomorrow where there is room, at its
\* own rate and once a date.
AccountSends(segment) ==
  /\ Enquiring
  /\ UNCHANGED halted
  /\ ~\E s \in sales : s.kind = "account" /\ s.from = saleDay + 1
  /\ sales' = sales \cup
       {[Booked(segment, 1, "corporate", AccountRate)
           EXCEPT !.kind = "account", !.nights = 1, !.willing = AccountRate]}

\* generateEventLeads.
BookConference(value, lead, nights) ==
  /\ Enquiring
  /\ UNCHANGED halted
  /\ sales' = sales \cup
       {[id |-> enquiries + 1, kind |-> "conference", from |-> saleDay + lead, nights |-> nights,
         rate |-> value, channel |-> "conference", willing |-> value,
         base |-> value, bound |-> 0, least |-> 0]}

\* runEventCalendar at the next day's arrivals: a conference that has had its nights
\* is billed on terms and leaves the house.
NextSaleDay ==
  LET over == {s \in sales : s.kind = "conference" /\ s.from + s.nights <= saleDay + 1}
  IN  /\ ~halted /\ saleDay < MaxSaleDays
      /\ saleDay' = saleDay + 1
      /\ sales' = sales \ over
      /\ billed' = [n \in DOMAIN billed |->
                      billed[n] + IF \E s \in over : s.id = n THEN 1 ELSE 0]
      /\ UNCHANGED <<price, policy, plan, shut, online, halted, settings, enquiries>>

SellingNext ==
  \/ \E rate \in Rates : SetRate(rate)
  \/ \E p \in SellingPolicies, q \in RatePlans : SetRevenuePolicy(p, q)
  \/ \E c \in Channels, isShut \in BOOLEAN : SetChannelInventory(c, isShut)
  \/ Adopt
  \/ \E segment \in Segments, lead \in LeadDays, drawn \in Channels \cup {"none"},
       measure \in Measures, vacant, fits \in BOOLEAN :
       Enquire(segment, lead, drawn, measure, vacant, fits)
  \/ \E segment \in Corporate : AccountSends(segment)
  \/ \E value \in Values, lead \in LeadDays \ {0}, nights \in 1 .. 2 : BookConference(value, lead, nights)
  \/ NextSaleDay

SellingSpec == SellingInit /\ [][SellingNext]_sellingVars
-----------------------------------------------------------------------------
(* Properties.                                                             *)

\* Whatever rates, rules and plans the player goes through, a guest pays no more than the
\* stay is worth to them, and no more than the player's own rate and what the revenue
\* manager may add to it - the authority the player gave, as the manager's strategy scales
\* it (revenuePolicy.ts:201) - unless a floor the player set is dearer still.
ManagerKeepsToAuthority ==
  \A s \in sales : s.kind = "guest" =>
    /\ s.rate <= s.willing
    /\ s.rate * BasisPoints <= Larger(s.base * (BasisPoints + s.bound), s.least * BasisPoints)

\* A conference is billed once, when it is over, and holds its rooms until then.
ConferenceBilledOnce ==
  \A n \in 1 .. enquiries :
    /\ billed[n] <= 1
    /\ billed[n] = 1 => ~\E s \in sales : s.id = n
    /\ \A s \in sales : s.id = n /\ s.kind = "conference" => saleDay < s.from + s.nights

\* The simulation stops only where the player has shut the walk-in channel, or left
\* no channel a guest could book ahead with.
HaltsOnlyWithoutAChannel ==
  halted => "walkIn" \in shut \/ Offering \subseteq {"walkIn"}

SellingHolds ==
  /\ ManagerKeepsToAuthority
  /\ ConferenceBilledOnce
  /\ HaltsOnlyWithoutAChannel

\* Selling never stops the simulation: it does once the walk-in channel is shut and
\* somebody walks in.
SellingNeverStops == ~halted
=============================================================================
