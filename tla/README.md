# Hotel Manager, verified

TLA+ specifications of the hotel-management simulation in this repository, the
TLC configurations that check them on small instances, and proofs, checked by
TLAPS, of what matters most for every value of the constants. Paths below are
relative to the repository's own `src/`; lines are those of the commit beside
which this directory is kept. `PROJECT.json` maps every definition to the lines
it models, lists the runs, the hazards and, for every property, a plausible bug
of the code that breaks it. In the modules these bugs stand beside the
definition they would change, under a comment that starts with "Slip"; they take
no part in any specification.

## 1. The system

One page runs a React shell, a store and a client object; one Web Worker runs the
game; one IndexedDB database keeps saves. The worker owns the game: the page
sends typed requests and shows what the worker publishes. Inside the worker,
time advances in quanta of five simulated minutes, and a quantum runs thirteen
phases in a fixed order.

| Component | State it keeps | Operations | Talks to |
| --- | --- | --- | --- |
| Command boundary (`game/commands/commandHandler.ts`, `GameSimulation.apply`, `queueEnvelope`, `submitCommands`; `game/domain/eventBuffer.ts`) | queue, command log, state version, command sequence, event journal, live RNG streams and the cursor in the state | queue, submit, decide (refuse, commit, roll back), emit, drain, snapshot, restore | called by the worker; calls the rules |
| Quantum (`GameSimulation.advanceQuantum`) | the `GameState` | thirteen phases | called by the worker's timer |
| Simulation worker (`game/simulation/simulation.worker.ts`) | simulation, speed, tick failure, correlation of command ids to requests, last publication | eight requests, the timer's tick | messages to and from the client |
| Game client (`app/GameClient.ts`, `game/domain/stateDelta.ts`) | the copy of the game, its publication number, the resynchronisation flag | send, receive, apply a delta, resynchronise | worker and store |
| Page store (`app/gameStore.ts`, `game/persistence/savePolicy.ts`) | speed and statuses shown, the pause or resume in flight, slots of saves in flight, the load in flight, the last calendar point | play, pause, send, save, autosave, load, restart, replace a stopped worker | client and repository |
| Save repository and recovery ladder (`game/persistence/indexedDbSaveRepository.ts`, `recovery.ts`) | one entry per slot, three generations, a chain of rotations | save, rotate, load with fall-back | called by the store |
| Rooms, bookings, reception (`bookings/`, `rooms/`, `guests/guestJourney.ts`, phases of `GameSimulation.ts`) | room states, reservations, the queue at the desk, stays, capacity of desk and housekeeping | demand, cancellation, arrival, check-in, walk, no-show, check-out, housekeeping | blocks, outages, conversion write the same rooms |
| Blocks, allotments, conferences (`distribution/`, `eventsales/`) | rooms held out of sale | accept, release, pick up, end | bookings |
| Renovation and outages (`renovation/projects.ts`, `utilities/`) | the project, the outage and the rooms it closed | start, advance, finish; fail, restore | rooms |
| Money (`finance/`, `history/historyCompaction.ts`, `simulation/invariants.ts`) | ledger, cash, payables, receivables, the month and its report | earn, spend, settle, close the month, compact | every domain phase; `assertInvariants` after each quantum |
| Credit (`finance/creditStanding.ts`, loan commands, `campaign/recovery.ts`) | standing, loans, pledges | borrow, repay, refinance, extend, dispose, the instalments of a month | money |
| Purchasing, stock, linen (`purchasing/`, `housekeeping/`) | stock, linen, orders on their way, standing orders | order, deliver, consume, reorder, launder | money, kitchen, housekeeping |
| Serviced areas (`fnb/`, `wellness/`, `commercialSpaces/`, `facilities/`) | outlets, spa, spaces, the facility board | the services of a day, closures by law | stock, meters, alerts |
| Utilities (`utilities/`) | contracts, efficiency, standby power, meters | sign, invest, bill, close | money, outages |
| Staff and employment (`staff/`, `labor/`) | employees, rota, absences, training | hire, dismiss, train, leave, the employment day | capacity of desk, housekeeping, maintenance |
| Authority (`delegation/`, `company/escalation.ts`) | limits of heads and managers, the register of questions | check, ask, answer, set | staff, company |
| Company, treasury, acquisitions, development (`company/`, `treasury/`, `ma/`, `development/`) | hotels of the group in eleven registers, internal accounts, studies, diligence, contracts | transfer, fund, inspect, buy, open, sell, the month of managed houses | money |
| Sales, loyalty (`commercial/`, `distribution/`, `revenue/`) | leads, contracts, points, campaigns, rates, policy, channels | monthly and nightly steps, commands, demand | bookings, money |
| Guest relations, insurance, compliance, engineering (`guests/`, `risk/`, `maintenance/`, `compliance/`) | complaints, policies and claims, rules, condition of plant | reception's waits, midnight, commands | bookings, money, alerts |
| City, competitors, world, campaign terms (`city/`, `competitors/`, `world/`, `campaign/`) | demand, rivals, technology, difficulty and sandbox, lobby, stars | daily and monthly steps, commands before the first quantum | demand, money |
| Story (`narrative/`, `people/`, `milestones/`, `chronicle/`) | stories, bets, people, the career | monthly steps, choices | money, alerts |
| Save format (`saveSchema.ts`, `migrateToCurrent.ts`, `saveTransfer.ts`, `storageBudget.ts`) | none | parse, migrate, validate, export, import | repository |
| The house described (`building/`, `GameSimulation.refreshDescriptors`) | floor plan, where everybody is, lift, rounds | made anew after each quantum | page |
| Interface (`ui/HotelView.tsx`, `render/`, `app/App.tsx`) | camera, scene, what is selected or followed | effects, moves of the camera, drawing | store, description |
| Content, translation (`content/`, `i18n/`) | none the rules read | look up | everything |

What is hard in it:

- **Two event loops.** Requests and responses cross in flight; a response may be
  unreadable, the worker may stop, a tick may throw, a load or a restart replaces
  the simulation other requests are waiting on.
- **A draft inside a live object.** A rule writes through `this.state` and
  `this.streams` while both point into a draft, and may throw after any write.
- **Asynchronous storage.** A rotation of the recovery ladder is a chain of
  transactions; others, a load, an aborted transaction or the end of the page
  fall between them.
- **Thirteen phases over one state.** Check-in, check-out, housekeeping, outage and
  conversion write a room in one quantum; bookings of all lengths begin, end
  and are cancelled while blocks come and go.
- **Nothing is rolled back outside commands.** A phase that throws, or
  `assertInvariants`, leaves a state half done. In the timer this halts the game, which is
  then neither run nor saved; after the commands of a paused game nothing catches it.
- **Second copies.** The rota beside the employments, eleven registers of one
  group, a liability beside the points, an index into a ledger that is merged,
  a floor plan beside the rooms: each kept by hand by several paths.
- **Lists with a limit**, and what they forget: verdicts, events, complaints,
  questions, postings.
- **Long delays.** A claim waits for its assessor, a bet for its year, a project
  for its months, while what they refer to is changed or sold.

What makes each part correct:

- *Boundary*: a command happens entirely or not at all, is accepted once while its id is
  remembered, and once per version it was issued against; events are told
  once, in order; the RNG of the state is the RNG that runs.
- *Worker and client*: the copy is always a publication, no caller is answered twice or
  for another, whoever waits is answered, nothing a failed tick left half done is saved.
- *Store*: a save lands in the slot it was asked for, a major action is saved before
  it happens, waits end, statuses are the worker's.
- *Ladder*: newest first, at most one save lost, damage does not spread, a load
  falls back to the newest that can be trusted.
- *Rooms*: one party to a room, a room to each party, no night sold twice, rooms come
  back from an outage, late fees once, nobody walked from a clean room.
- *Money*: the balance sheet balances, cash is the ledger's after every quantum,
  a loan that was paid is over in its term, merging old postings loses nothing,
  and a statement reads each posting once.
- *House*: no portion, piece of linen, treatment or unit of energy is used twice; one
  standing order per ware; an outlet serves no more than it can.
- *People*: the rota is the shadow of the employments; a question is answered, and
  money is given once for what was asked.
- *Company*: a house stands in all its registers or in none and came in once; what
  was paid is what was promised.
- *Guests and sales*: a wait is compensated once; the loyalty liability is the
  points'; nobody pays more than the stay is worth to them; a conference is billed once.
- *Risk*: a claim finds its policy; a facility is closed exactly while a rule is broken.
- *World and career*: nights are split without loss, nobody trades with no money, terms
  land as disclosed whatever was bought in between, a story is told and a bet answered once.
- *Saves*: what the game writes the game reads; what was changed is noticed.
- *Picture*: everybody is somewhere that exists; what is drawn is the newest
  description, by one scene; what is followed is in view.

## 2. The modules

| Module | Models | Abstracts to |
| --- | --- | --- |
| `CommandBoundary` | one game's queue, decisions, draft, journal, streams, save and load | the hotel is a value of `Hotels`, a stream is how far it was drawn |
| `AtomicCommands` | what the boundary promises: a decision is one step | the same, with no queue, draft or streams |
| `CommandBoundaryProofs` | theorems about `CommandBoundary`: types, log, streams; order, versions, events, and that it implements `AtomicCommands` | |
| `WorkerProtocol` | worker, client and the two channels between them | the game is its published sections, its queue and its log |
| `WorkerProtocolProofs` | theorems about `WorkerProtocol` | |
| `SaveRecovery` | slot writes, rotations, loads, faults of the store | a save is its number, an entry readable or not |
| `SaveRecoveryProofs` | theorems about `SaveRecovery` | |
| `GameStore` | the store and its client, with the worker reduced to month and applied commands | a slot write is one step |
| `GameStoreProofs` | theorems about `GameStore` | |
| `DataInduction` | every set of natural numbers has a least; induction over numbers, finite sets and recursive functions from it; what sifting a list keeps and what sums over finite sets do; for `WorkerProtocolProofs`, `DomainProofs` and `TradeProofs` | |
| `HotelRooms` | the phases of a quantum that move rooms, bookings, queue and blocks | money, prices and opinions left out |
| `HotelRoomsProofs` | theorems about `HotelRooms` | |
| `FinanceBooks` | earn, spend, the finance phase, the month's close, loans, deposits, stakes | an amount is a small number, postings a sum |
| `LedgerHistory` | the ledger over years, its merging, the statement of cash flows | a date is a number of days |
| `Lending` | the bank's view and the sums of every loan | rates in twelfths |
| `MonthClose` | the month's totals, report, briefing, reputation | satisfaction is one of three |
| `Group` | which registers a house stands in | a house is a number |
| `Ventures` | studies, diligence, purchase, the months of managed houses | basis points scaled |
| `Delegation` | limits, questions, answers | what a department does is one figure |
| `Supply` | wares, orders, linen | one quantum an action, phases in order |
| `Facilities` | outlets, spa, spaces, meters, board | a day is its moments |
| `Utilities` | contracts, efficiency, meters | days |
| `Workforce` | employments, rota | scores in few steps |
| `Commercial` | leads, accounts, loyalty, campaigns | dates are numbers |
| `Selling` | rate, policy, plan, channel, conference | one category of room |
| `GuestCare` | waits, complaints, gestures | one quantum an action |
| `Risk` | plant, policies, claims, rules | one midnight an action |
| `City` | the day and month of the city | small sums |
| `Campaign` | difficulty, sandbox, research, lobby, stars | levers as in the code |
| `Story` | stories, bets, people, milestones | conditions are choices |
| `SaveFormat` | envelopes, files, validation | a section is sound, missing or malformed |
| `Scene` | what the worker describes | places are nodes |
| `HotelPicture` | what the page draws | one co-ordinate and a floor |
| `Lists` | filtering and searching a list, for the modules below | |
| `Focus` | which part of the company a behaviour of `House` or `Trade` follows | |
| `House` | `Supply`, `Utilities` and `Facilities` side by side | |
| `Trade` | `Commercial`, `Selling`, `City` and `Campaign`, and `Group`, `Ventures` and `Delegation`, side by side | |
| `DomainProofs` | theorems about `Workforce`, `GuestCare`, `Risk`, `Story`, `SaveFormat`, `HotelPicture`, and about `House` and its parts | |
| `TradeProofs` | theorems about `FinanceBooks`, and about `Trade` and its parts | |
| `MC_*` | the instances TLC checks; `MC_Domain` has twenty-one of the parts above side by side | |

How they fit together: `CommandBoundary` is the detail of one decision in
`WorkerProtocol`, where a batch is decided in one step (JavaScript does not
interleave it, and `ImplementsAtomicCommands` says a decision looks atomic from
outside). `GameStore` composes the store with a worker that keeps only what the
store tells apart. `SaveRecovery` is the detail of the slot write and of the
load's choice in `GameStore`, `SaveFormat` that of whether an entry can be
trusted. `HotelRooms` and the domain modules are the detail of the step `RunWorld`
of `CommandBoundary` and of the rules it applies. Whatever costs or brings money in them is a
posting of `FinanceBooks` (`Take`, `Pay`, `RunFinance`); where a guard looks at the cash, the
module has a purse of its own, with the same rule for what it cannot cover. `Scene` makes
what `HotelPicture` draws.

The domain modules are beside one another and not over one state: each has
the part of `GameState` it is about, and what it reads of others (takings, wages,
who is on duty, the weather) is a choice of the environment. What that costs is
said in section 7.

### CommandBoundary

`state` and `streams` are the two fields the rules write; `live` is what `apply`
puts aside while they point into the draft. `QueueEnvelope`, `BeginSubmit` and
`BeginCommands` are the three ways envelopes reach the handler;
`Refuse`, `BeginApply`, `ApplyWrite`, `Commit`, `Abort` are `runOne` in the order
of the code: duplicate, stale, invalid, applied, failed. `RunWorld` is the rest of
a quantum in one step, and may throw; only `Load` follows then, as in the worker.
`QueueStandingOrder` is the one place a phase queues a command, with the id the
code makes of the sequence and the length of the queue. `history`, `owed` and
`delivered` are ghosts: all verdicts, all envelopes in the order they should
be decided, all events handed out. A load puts them back with the career.

### WorkerProtocol

One action per request handler, split where the handler splits (malformed or not,
running or paused, halted or not, and a paused command whose outcome the invariants
refuse). That last one, `HandleCommandPausedThrows`, leaves the handler by an error nothing
catches (`simulation.worker.ts:343`): the queue is decided, its `results` stay in the simulation
until the next command or tick takes them, whose callers are answered then; the game is not halted, and the
page hears a `WORKER_ERROR`. `torn` says whether a state came of a quantum or of a paused command that threw. `inbox` and `outbox` are FIFO, as
`postMessage` is. `Tick` is the interval timer: it decides, publishes and
answers. The client's `Receives` handles one response; `LoseResponse` is one
that fails validation. `INIT_GAME` may come again, which is what a restart of the
career is (`gameStore.ts:334`); it clears neither the correlation nor the answers in
flight, so `VerdictReachesItsCaller` says "its own" only until then (`Restarted`), and
"at most one" always. Every publication carries, as a ghost, the whole content
it stands for; `truth` is that of the last one the client took, so `HeldIsPublished`
compares what was rebuilt from deltas with what the worker had.

### SaveRecovery

`rotateNow` is three steps to a generation: read the newer one, write it one down,
and at the end write generation 0; every step may fail. A read that fails is taken
for an empty generation, as in `recovery.ts:62`. `reader` is a load: one
candidate at a time, with the set of entries that did not change during the load as
ghost (`steady`). `Damage` and `Crash` are the environment: an entry spoilt, the
page gone with its queues and the database kept.

### GameStore

The player's inputs (`SetSpeed`, `RequestControl`, `Save`, `SendMinor`, `SendMajor`,
`AcknowledgeAlert`, `Load`, `Restart`, `RecoverFromWorkerFailure`), the worker's
steps, and the store's handler for each kind of response. `control`, `current`,
`pendingSlots`, `loading`, `loadCompletion` and `lastPoint` are the store's refs of the
same names. A stored save keeps, as a ghost, the purpose it was asked for; a
verdict shown keeps the ticket it was given to. `queue` and `owed` together are the worker's
correlation: whoever waits on a game that a tick halted, or that a restart replaced, is owed an answer
and refused by the next load. A worker the page takes for stopped may go on with the requests it has.

### HotelRooms

A quantum is a sequence of actions, one per phase that touches rooms: `AdvanceTime`,
then `CheckOut`, `ArrivalWave` or `Midnight` at their hours, `RunHousekeeping` (with
the conversion), `OpenDesk` and one `RunReception` per party called, `EndOutage`,
`StartOutage` or `NothingFails`, and once a day `RunContractCalendar`,
`RunCancellations`, `GenerateEventLeads`, `GenerateContractDemand`, `GroupArrives` and
`GenerateDemand`, one booking per action. A phase that returns at once is
passed over. Chance (who cancels, who comes, what fails, how many rooms the
supplies allow) is a choice. How many rooms are taken on a night is the number of
members of a set (`RoomsOf`, `RoomsBlocked`: every booking or block beside each of
its rooms), which is the code's sum said so that it can be proved about. `NewId` gives
a block an id of its own: in the code the id comes with the command, and nothing
looks whether it is taken (`distributionCommands.ts:148`, `189`); no page of the
repository issues two alike.

### The domain modules

Each module's header says what its state stands for, and its `...Next` lists the
operations it has. In all of them a guard is the code's early return, an action is
the whole handler or phase, and chance is a choice. Ghosts are commented so.

- **FinanceBooks.** A posting is an operator from books to books; `RunFinance` composes
  a midnight's postings in the order of `runFinance`, with tax, depreciation, instalments and
  the month's close at their dates. Dealings of the day (`TakeLoan`, `Refinance`,
  `AcceptGroupContract`, `SellHotelInDistress`, `AdmitInvestor`, `SetCampaignDifficulty`) fall
  between. `unbooked` adds up the three entries the code leaves out.
- **LedgerHistory.** Postings keep day, account and amount; a close reads those since the opening
  index, merges (`historyCompaction.ts`), moves the index, and the story's own
  postings fall between reading and opening, as at 5114-5224.
- **Lending.** `TradeMonth` and `NextLendMonth` are the month and its instalments for
  each profile and rate; `BorrowFromBank`, `RepayBank`, `RefinanceLoans`, `Turnaround`,
  `DisposeAsset` the ways a loan changes in between.
- **MonthClose.** `EndDay` counts the night's bookings as `runFinance` does, and on the last
  day draws report, briefing and reputation.
- **Group, Ventures, Delegation.** The same company seen three times: in which registers a
  house stands, what it cost and earns, and who may decide what. `Ventures` has the months as long as
  they are, the transfers between a house and the head office, and what distress sells, leases back or leaves.
- **Supply, Facilities, Utilities.** `AdvanceQuantum`, the moments of a day, `UtilityDay`: the
  phases in code order, with what may be ordered, cooked, treated, metered.
- **Workforce.** Seven commands and `RunEmploymentDay`, which ends leave, illness,
  courses, and lets people resign in the order the code walks them.
- **Commercial, Selling.** Leads and points; and one enquiry from segment through
  channel, rate, plan and policy to a booking or a refusal, or to the throw at 3571. Whether a room
  is free for it is an input: nights and rooms are counted in `HotelRooms`.
- **GuestCare, Risk.** One quantum of reception and satisfaction; one midnight of
  wear, services, claims, rules and alerts, with the commands between.
- **City, Campaign, Story.** A day's split and a month of rivals; the terms before the
  first quantum and everything they reach; the month's stories in the order of the close.
- **SaveFormat.** The game plays, is saved, exported, the file edited, imported,
  loaded. Each section's test in the reader is one fact, with the figures that
  must agree between sections kept as figures.
- **Scene, HotelPicture.** The house changes, then is described; the view opens, imports its
  renderer in the background, runs its effects after each render.

## 3. The runs

Seven runs pass and five end in a violation that the repository's own words
forbid. Between them the passing runs fire every action. Deadlock is not checked:
every model has bounded inputs and stops when they are used up, and a player
may stop playing.

| Run | Instance | What it shows |
| --- | --- | --- |
| `boundary` | one player id, log of two, journal of one, one draw, two events, four decisions, queue of two, save and load | no id accepted twice inside the window, one winner per version, decisions in order, standing orders never duplicates; nothing of an aborted rule survives; events in order and once; streams equal the saved cursor; the refinement `ImplementsAtomicCommands` |
| `protocol_publications` | two starts, a load, one unreadable response, one tick or paused command that throws | the copy is a publication; no save has what a failed tick left |
| `protocol_answers` | two requests, under one id or one malformed; two starts, pauses, two ticks or paused commands that throw, a load | answered once, for the right request, and eventually |
| `recovery_ladder` | four saves, three generations, one fault of each kind, one load | what the ladder keeps, what a load falls back to, every rotation done |
| `recovery_unread` | five saves, one failed read, nothing else that fails | violation: one failure costs two saves |
| `store` | three requests, autosaves, a major action, two commands, controls, a load, a restart, a failed tick, a stopped worker | saves land in their slots; a major action is saved first; the status is the newest command's; what was asked for settles |
| `store_autosave` | one load with a delta on its way | violation: the restored game is autosaved as a month gone by |
| `store_replaced` | a pause in flight when the worker stops | violation: a command's verdict is shown as the pause's |
| `rooms_stays` | two days of five quanta, two rooms and a third, bookings of one and two nights, an outage, a block or a conference | all properties of rooms and bookings |
| `rooms_desk` | three parties, one receptionist who takes two quanta for each | violation: more parties checked in than the hours worked allow |
| `domain` | the twenty-one domain parts, each on its own small instance | the fourteen invariants below |
| `books_sale` | a hotel sold in distress, no deposits | violation: the balance sheet does not balance |

`boundary` follows a history beyond two commands only while nothing drew, emitted or
changed the hotel (`LongHistoriesAreQuiet`): log, versions and order need the length, journal
and streams do not. `store` follows saves of every kind with a load, or with a worker that
stops, or two commands with a load, a restart and a failed tick within a month
(`SavesOrVerdicts`). What leaves that bound is an input, a tick or a failure, never a step
fairness asks for, so what the bound cuts off cannot be what a wait waits for.

**How `domain` works.** A behaviour chooses one part at its start and follows it
through all it can do; the others rest, except that the books are kept. No part writes what
another reads here, so interleaving them would add nothing but states. An
invariant that joins several parts speaks of each under that part's own `focus`; those of one
part are checked as its module states and `DomainProofs` proves them, and that part rests in its
first state (or with nobody employed). `House` and `Trade` state the invariants that join their parts
over a specification of their own, in which nothing is said of a part that is not followed, so the
theorems there are about the very definitions TLC checks here. The invariants, by department:

| Invariant | Of | Says |
| --- | --- | --- |
| `BooksBalance`, `LedgerAgrees`, `LateOnlyIfMissed` | FinanceBooks | the sheet is out by exactly the entries known to be missing; cash is the ledger's and receivables the list's; a loan outlives its term only after a missed instalment |
| `MoneyIsAccountedFor` | LedgerHistory, MonthClose, Lending | merging loses nothing, the index is where reading stopped, statements tell the cash; sold is within available, records and briefing are true; lent is owed or returned, over in time, pledged once |
| `CompanyAgrees` | Group, Ventures, Delegation | all registers or none, one origin a house; schemes paid once, prices floored, accounts hold what was earned and moved; nobody waits for nothing, money given once |
| `HouseRuns` | Supply, Utilities, Facilities | linen not multiplied, one standing order; efficiency paid for and kept, prices follow the index; the larder shared, waits told, treatments metered once |
| `RotaIsTheShadow` | Workforce | the rota is the shadow of the employments |
| `CaredForOnce` | GuestCare | one wait, one complaint, one gesture |
| `SalesAreKept` | Commercial, Selling | the liability is the points'; accounts won once; the manager keeps to the authority, a conference is billed once, a halt only without a channel |
| `RisksAreAnswered` | Risk | claims find their policy, restrictions are breaches, breaches shown are real |
| `WorldIsFair` | City, Campaign | nights add up, nobody trades with no money; capital is the terms', harder is harder, forecasts honest, stars earned |
| `StoryHolds` | Story | told once, bets answered once, endless only after the review |
| `FormatHolds` | SaveFormat | the slot loads, exports come back, changes are noticed, a running game can be saved |
| `PageShowsTheHouse` | Scene, HotelPicture | everybody somewhere, cars in the shaft, situations so; one scene, the newest picture, what is followed in view |

An invariant here names the conjuncts of its modules; `PROJECT.json` has one slip for
each.

Why the bounds are enough. *Log window*: the smallest window in which a retry can be
inside or outside and in which a refusal can push an acceptance out is two, and
four decisions cross it. *Journal*: with a limit of one, the second event
overflows. *Deltas*: a wrong base needs one delta lost and one after it; a section
that disappears needs one section that may be absent. *Correlation*: a position
in a list per id is wrong for the first time with two requests for one id and one
refused in front. *Throws*: a caller decided but not answered, and one after it, need a paused command that
throws before a second; the responses not yet read when the page sends one more are three, or one where two requests
are followed (`MaxUnread`), which keeps apart what the channel's order makes alike. *Ladder*: three generations as in the code; the fourth save is
the first to push one out. *Store*: a response in flight for each of two requests, and one
replacement of the worker or of the game. *Rooms*: two rooms are what a party of two needs and
what two parties of one compete for; two nights are the shortest stay whose
second night differs; a day has its midnight, demand, check-out and arrival hour
and one quantum more, and two midnights are crossed. One category is used in
the instance: categories meet only in `CanWalkIn`, which counts clean rooms of any.
A group block and an allotment hold one date, as the arrival of a block that
sells by the night does.

*Domain parts*: every limit is crossed and every date reached. *Books*: four days of
two-day months hold a payable that falls due, two closes, a tax date, a loan of
two months taken, served and outlived, and two dealings to interleave with them. *Ledger*: eight days
cross two years, so postings are merged by month, then by year, with the index beside them.
*Group*: one house built and one bought, with the flagship, are all ways in; three orders let
one be sold and come back. *Ventures*: months of four and of three nights follow one another, so a house
that ripens meets a shorter month; one sum moves up or down. *Register of questions*: one answered question is kept, so the
second pushes it out. *Complaints*: one handled is remembered, with three parties to forget
it. *Linen*: two beds and one pile more is the least that may be in two places. *Policies*:
four days of two-day months and two changes are a claim filed, a policy taken and
cancelled meanwhile, and the assessor. *City*: two rivals, one entrant, two months are a failure, a
number free, and an entrant who might get it. *Loans*: four months outlive the two-month loan
with an extension. *Facilities*: two days, so a treatment and a shortage can outlast the day.
*Scene*: the house grows by a room while a car stands. *Picture*: two views opened, so that
the first one's scene may come late. What is not in the domain instances is several of a
kind beyond two, which the loops of the code treat alike.

## 4. Fairness

Safety is checked without fairness. Liveness assumes:

- `WorkerProtocol`: weak fairness of the worker's loop (a message posted is
  delivered and its handler runs), of the interval timer
  (`setInterval` goes on firing while the speed is not 0), and of the page's loop.
  Nothing is assumed of the player, of losses or of failures, and
  `AnsweredWhileRunning` is claimed only where the game is eventually left running: a tick
  that failed or a player who pauses for ever answers nobody, and says so.
- `SaveRecovery`: weak fairness of slot writes, of the rotation's next transaction
  and of a load's next read: IndexedDB settles every request, one way or the other.
  A transaction may still abort and the page may still end.
- `GameStore`: weak fairness of the worker's loop and of the store's listeners;
  no fairness for the timer, which `RequestsSettle` does not need. It is claimed
  while the worker does not stop: a stopped one is replaced by the player.
- The other modules have no liveness: what must happen in them happens at a date, in a
  step that is modelled whole, and is stated as safety at that date.

## 5. What is proved

With TLAPS, for every value of the constants that satisfies the modules'
assumptions, all bounds included as parameters. Every safety property the runs
check of the core modules is a theorem: of `CommandBoundary` (with the refinement),
`WorkerProtocol`, `SaveRecovery`, `GameStore`, `HotelRooms` and `FinanceBooks`; and of the
fourteen invariants of `domain`, twelve: those of `FinanceBooks`, `Workforce`, `GuestCare`, `Risk`,
`Story` and `SaveFormat`, and `HouseRuns`, `SalesAreKept`, `WorldIsFair` and `CompanyAgrees`
of the compositions.
Of `PageShowsTheHouse` the half that is `HotelPicture`'s is proved.

**Assumptions.** `ConstantsAssumption`, `ProtocolAssumption`, `RecoveryAssumption`,
`StoreAssumption`, `RoomsAssumption`, `BooksAssumption` give the constants their
types, and the little order the code's own constants have (an hour of demand
before the hour of check-out before the hour of arrival, the id of an order that
is not a player's id, rules numbered in the order they are read in, a format's version that is none
of the old ones, a bet that does not fall due in the month it is made). `SupplyAssumption`,
`UtilitiesAssumption`, `FacilitiesAssumption`, `CommercialAssumption`, `SellingAssumption`,
`CityAssumption`, `CampaignAssumption`, `GroupAssumption`, `VenturesAssumption`, `DelegationAssumption`
and `PictureAssumption` do the same for those parts: sets of beds, wares, rivals and houses are
finite, amounts are whole numbers, a period and a scale are not 0, and ids are different.
`NoneAssumption` of each module says that the value that stands for
"nothing there" is none of the values that may be there. TLC evaluates all of them in the
runs.

**The boundary.**

- `TypeCorrect`: `TypeOK` alone is not inductive: that a step takes the head of the
  batch needs a batch while a rule writes (`Applies`), and that `BeginSubmit` puts its
  envelope at the right place of `owed` needs the verdicts, the batch and the queue to
  be as many as are owed (`Counts`).
- `LogIsRecent` and `AcceptedOnce`: the log is the newest `LogLimit` verdicts of the
  career and no id is accepted twice in any `LogLimit` consecutive verdicts. The
  invariant says the same of the game put aside while a draft is written and of the
  save (so that a load keeps it), and that a draft has the log of the game it was
  cloned from. The heart is `NewestAppend`: trimming after every append is trimming
  once at the end.
- `StreamsMatch`: outside a decision the live streams are those of the state, so a
  refused or failed command leaves no draw behind.
- `InOrder`, `OneWinner`, `OrdersAreFresh` (`CourseInv`): every verdict is tied to the envelope it
  is owed to, every envelope that waits to its place among the owed ones, the
  draft to the head of the batch, and the version an accepted command made is above all before
  it. All of it holds of the saved career as well.
- `EventsInOrder`, `EventsHaveAcceptedCauses` (`EventsInv`): what was handed out and what is
  pending are one sequence (`Told`), whose numbers rise and miss exactly what is counted as
  dropped, and whose causes are accepted, except those of the draft, whose cause is
  the command at hand.
- `BoundaryIsAtomic`: the refinement, step by step. While a draft is open the abstract state
  is the one put aside, so writing a draft is a stutter, and committing it or throwing it away is the
  abstract decision; `DraftGrows` says that what the draft drew and emitted is more
  than what was there.

**The ladder.**

- `NewestIsFirst` (`OrderInv`): everything on its way to the store is in the order it was made and
  newer than the ladder; the generation about to be overwritten is held by the
  older rung already, or unreadable.
- `CostsOneSave`: half-way through a rotation the saves of before are each where they
  were, or one rung down, or in hand, but for the oldest one. It is claimed while reads of sound
  entries succeed (`LosesAtMostOneIfReadable`): without that it is false (section 6).
- `FallsBackToNewest`: every entry a load could have used, and that nobody changed since it
  started, is either what it found or still ahead among its candidates (`Ahead`), also while a
  rotation moves saves towards the ones already tried; how many unreadable entries there may be is
  counted against the faults spent (`Filled`).

**Worker and client.** None of the three properties is inductive, because each speaks of the two ends
of a channel; the invariants say what holds of the messages between.

- `HeldWasPublished` (`ChainInv`): the publications on their way rise, each delta is
  the difference to the publication it names as its base, and the one the client
  has is a link of the chain; so a delta that fits the client's number gives
  exactly the next content, whatever was lost in between.
- `SavedIsWhole` (`SaveInv`): what a failed tick left stands still until it is
  replaced, and neither a save on its way nor a game to be loaded has it. Of a state refused while
  the game is paused the theorem says nothing, because the code saves it (section 6).
- `VerdictReachesCaller` (`OnePlace`, `Answered`): a request is in one place, its order, the
  correlation or its answer, and once there; until a restart the list of those who wait is
  position by position the simulation's results and then its queue. What `AnswersTo` computes of a list of
  verdicts, and whom it leaves waiting, is proved by induction over the length of the list.

**The store.** Each theorem follows a request to the worker, where it may wait in the queue, and its
answer back.

- `SavesLand` (`SlotsInv`): requests for saves are numbered upwards all along their way, so an
  answer belongs to the request whose number it has, and its slot is awaited until it comes.
- `MajorIsSavedFirst` (`MajorInv`): a major command is not sent before its save is answered, and no
  save on its way or in a slot, nor any game made of one, has a command applied that still waits for its
  save (`SavedFirst`, `Played`).
- `StatusOfNewest` (`NewestInv`): whatever carries the newest command's request number
  is about that command. It is claimed until the worker stops: the new client counts from
  1 again (section 6, finding 3).

**Rooms and bookings.**

- `OccupiedStays` and `RoomsComeBack`: inductive with `FaultyAreClosed` (the rooms an outage will
  reopen are out of order, so its end never makes an occupied room dirty), and with the clock: before
  maintenance the outage has not been over for longer than this quantum.
- `TypeCorrect` includes the lists of the desk and the sums over bookings and blocks.
- `ChargedOnce` (`ChargedInv`): the late fee is taken when a booking leaves "confirmed", and
  none returns to it.
- `PartiesHaveTheirRooms` (`DeskInv`, `BedsInv`): who waits at the desk waits once, for a confirmed
  booking that is due, and who is confirmed and due waits, but for those
  the midnight has still to call no-shows; a party checked in sleeps in as many rooms as it
  booked.
- `NightsNotOversold`: a booking is taken when it fits beside all that holds rooms on each of
  its nights, so what was sold and the new booking together are within what there is (`SoldOn`, `FitsBesideSold`);
  every other step keeps, ends or cancels bookings, and the house only grows. Of conferences and blocks
  on top it says nothing (section 6).
- `WalkedWhenShort`: only the desk walks a party, and only when the clean rooms do not suffice.

**The books.**

- `BalanceKept` and `LedgerExplainsCash`: whatever is earned, spent, owed, borrowed,
  repaid and closed, and wherever cash runs out, the balance sheet is out by exactly what
  the three missing entries amount to, cash is the sum of the ledger's entries, and what is
  carried as receivable is what the list says is owed. A book is `Sound` when the three
  hold of it and every column is an integer. Every posting makes a sound book of a
  sound one (one lemma each), and `RunFinance` is a composition of postings, so it does too; what is
  special to an action is only what it adds to `unbooked`.
- `LoansEndInTime` (`LateInv`): while no instalment was missed, what is still owed has a month of its
  term to come. A posting leaves the list of loans alone; an instalment is the rest divided by
  the months left, rounded up, so the last one leaves nothing.

**Parts of the company.** One invariant each, in `DomainProofs` or `TradeProofs`.

- `RotaShadows` (`WorkforceInv`): beside the property, nobody takes a course that is behind them, so
  that ending one changes record and row alike. A day is proved record by record
  (`DayOfARecord`), whoever leaves or falls ill in it.
- `GuestsAreAnsweredOnce` (`CareInv`): a party waits once; whoever complains is on record as having
  done so and *remembered as handled while they wait*, which is what forgetting must not
  break (`PruneKeepsActive`). A round down the queue is followed by induction over its length
  (`RoundAnswers`): who was passed and complains is on record, nobody else is touched.
- `RisksAreAnsweredFor` (`RiskInv`): a policy with a claim in hand is not given up; what is held back
  is held by a rule that was looked at, rule after rule by induction over their number
  (`RuleUpheld`, `EvaluationRestricts`); a breach on the board is still one, or was met since the last
  evaluation and goes at midnight.
- `StoriesAndBetsAreAnswered` (`StoryInv`): an open story is the last of its kind, so the cooldown and the
  open one suffice; a bet belongs to a story with a choice made, and the bets due are answered in their
  month, so what is returned counts those resolved (`DueBetsAnswered`).
- `SupplyIsCountedOnce` (`SupplyInv`): that a ware has one order of the house needs the two lists together,
  on the way and waiting to be decided (`OneOrder`), since a decision moves an order from one to the
  other. Linen is followed through the phases of one quantum: what check-out, housekeeping, check-in,
  laundry and outage each make of beds and piles is `Linened` if what they were given was
  (`LeavingStripsBeds`, `TurningMakesBeds`, `RestOfTheQuantum`).
- `EfficiencyStaysInTheHouse` (`UtilitiesInv`): what was bought of a kind is what is installed and what is
  still being built, and there is one project of a kind at a time, so that finishing moves
  its saving from the sum to the efficiency.
- `FacilitiesAreShared` (`FacilitiesInv`): an outlet's service is the demand, the seats, the kitchen and
  the larder whichever is least, so what it takes from the larder is there, and what is told is what
  its result says; what is booked is unmetered until the next wash, moment by moment of the day.
- `PictureIsOfTheHouse` (`PictureInv`): what was last drawn for is what is painted once there is a scene
  (`PaintKept`); a scene made for a view that is closed is destroyed and draws nothing (`ScenesKept`), which
  is what an import that comes late must not break.
- `CommercialBooksAgree` (`CommercialInv`): the liability is a sum over members, changed by every night, voucher and
  breakage by what it costs; accounts are of different leads, so an account won twice
  would need one lead twice.
- `SellingIsHonest` (`SellingInv`): the terms a quote is made of are the manager's within the authority the
  owner left, as the manager's strategy scales it, link by link of the chain from the list to the channel (`DecidedWithin`,
  `ListedWithin`, `QuoteWithin`). A sale keeps, as ghosts, the rate, authority and floors it was made under.
- `CityIsShared` (`CityInv`): what the houses have sold, summed over them, grows by what the day
  shared out among them, summed likewise (`DaysSale`); a rival that settles keeps money or stops trading (`SettledIs`), and a
  number was never given before (`NumbersAreNew`).
- `TermsAreKept` (`CampaignInv`): a harder difficulty is in no term kinder because every term is made of
  products and quotients that rise with each of their factors (`HarderIs` and the lemmas on `Scaled`,
  `Bounded`, `Rounded`, a band); funds follow the terms until the first quantum (`FundsFollow`); a lobby
  that helps itself needs the desk no more than one that does not (`LeftIs`, `LeftUnaided`).
- `RegistersAreOneGroup` (`GroupInv`): every register is read off the portfolio but two that outlive it, the
  schemes and the targets bought; so a house has one origin because the portfolio's houses with a
  scheme stand in the scheme's city, opened, and those that were for sale have been bought, once. The audits
  of a month are a recursion over the houses (`AuditsStay`), of which only houses still held are left.
- `VenturesPayTheirWay` (`VenturesInv`): the property compares months of different ages, so the invariant
  says what a month *is*: the i-th of a house's history is `Month` of that house at that date
  (`HouseIsKept`), and a later month that is no shorter sells no less, factor by factor of the nights, the ramp
  and the capture (`MonthsRipen`). An account is the sum of its history and of what was moved into it, less what was moved
  out (`allotted`); it grows by the month that is added (`SumFunctionOnSet`), and a transfer needs what it takes.
  A house given up takes its account and its history along.
- `NobodyWaitsForNothing` (`DelegationInv`): those that wait are the open questions of the register, and an id
  names one question (`IdsNameQuestions`). Sorting by id is by rank: the questions before one of them
  number as many as its place, so a finite set with ids of its own is sorted into a list without
  loss or repetition (`SortingOrders`). A house's month that still waits for an answer was given nothing yet, and a
  month that is over is not asked about again, so no answer gives twice (`GrantsKeep`). A day's questions are a recursion over desks and matters (`AfterAskingKeeps`).
- `HouseKeeps`, `SalesKeep`, `WorldKeeps`, `CompanyKeeps`: the part that is followed stays followed (`FocusStays`), so each
  part's theorem is one of the composition.
- `SavesAreBelieved` (`FormatInv`): the figures of a game agree between its sections whatever is played
  (`PlayKeepsWhole`), what is normalized is left as it is by normalizing again, and a
  save that passes validation is not migrated.

**Induction over data.** The library's induction theorems take an operator as a parameter, which no
prover here can instantiate. `DataInduction` says the same over sets: a set of numbers that has 0, and
n + 1 with every n, is all of them, from the fact that every set of natural numbers has
a least; and a set of subsets that has the empty one, and every one of its members with one
element more, has them all (`SubsetInduction`). What a recursive *function* computes can be proved with
it (`BoundedRecursion`, `SiftedIs`), one set per statement, and so can what the community
modules' sum over a finite set does, whatever order it takes the elements in (`SumTakesOut`,
`SumPutsIn`, `SumsCompare`, `SumsAddUp`). Recursive operators, and folds whose step is a
parameter, stay with TLC.

**Checked with TLC only.** Liveness (`AnsweredWhileRunning`, `QueuedIsRotated`,
`RequestsSettle`), because the prover has neither fairness nor ENABLED. `MoneyIsAccountedFor` and the half of `PageShowsTheHouse` that is `Scene`'s: their modules fold lists
and sort them with an operator as a parameter, so that nothing can be proved of them before they are
said over recursive functions and sums, as was done for the parts above.

## 6. What the checks found

Five of the repository's own statements do not hold of the code:

1. `recovery.ts:24` says a rotation that fails half-way loses at most one generation.
   A read that rejects is taken for an empty generation and the rotation goes on
   (`recovery.ts:62`): 3, 2, 1 becomes 4, 2, 2, and saves 3 and 1 are gone
   (`recovery_unread`). With reads that succeed the statement holds, whatever
   else fails (`LosesAtMostOneIfReadable`).
2. `gameStore.ts:175` says a load is not read as time passing. `loadingRef` is cleared by
   whatever snapshot comes next, so with a delta on its way the load's own snapshot
   writes an autosave (`store_autosave`).
3. The README says the interface never fakes an outcome. After a worker is
   replaced, `controlRequestRef` still holds a request id of the old client, and the new
   client counts from 1 again: pause and resume are refused until a command
   happens to have that id, whose verdict is then shown as the pause's
   (`store_replaced`).
4. `GameSimulation.ts:458` says a receptionist checks in six parties an hour. The capacity
   is added to (1670) and read (1673), never used up (`rooms_desk`).
5. `invariants.ts:120` refuses a state whose balance sheet does not balance, and
   `recovery.ts:268` calls every recovery path an ordinary transaction. Selling
   a hotel in distress books its proceeds as cash and moves neither assets nor retained
   earnings (`recovery.ts:339`): `assertInvariants` stops the quantum (`books_sale`).
   Refinancing where there is no loan (307) and releasing a group's deposit that was
   paid away (`GameSimulation.ts:5489`) leave out an entry in the same way; `BooksBalance`
   says that nothing else does.

Met on the way, and not a run of their own:

- A standing order waits in `queued`, which is no part of the state
  (`GameSimulation.ts:2457`), so a game saved between two quanta and restored decides one
  command fewer than the game that went on. Restoring "bit for bit" holds of state and streams.
- A second `INIT_GAME` (`simulation.worker.ts:242`) replaces the simulation as a load
  does, but answers none of the callers who wait, and what they asked under an id may be
  answered by the verdict on the same id in the next career. `protocol_answers` has two.
- Replacing a stopped worker asks for the quick save first, however many newer saves
  the ladder has (`gameStore.ts:324`; its comment at 56 speaks of the newest).
- `setSpeed` shows a speed before the worker has it (`gameStore.ts:298`); an older
  answer may set it back. `GameStore` has both (`speed`, `workerSpeed`).
- Two loads in flight: the second replaces the promise of the first, which never
  settles (`gameStore.ts:359`). `GameStore` starts one at a time.
- Rooms added by the conversion during an outage can be sold (`GameSimulation.ts:4967`).
- A block may hold rooms that are booked already, so groups and conferences on top of
  single parties may exceed the house; `NightsAreNotOversold` speaks of the parties whose
  booking looks at what is left.
- `simulation.worker.ts:343` decides a command of a paused game, which ends in `assertInvariants`, outside any
  `try`. Selling a hotel in distress while paused makes it throw (finding 5): no verdict is posted until the next command
  or tick, `tickFailure` stays empty, and the refused state is saved when asked, although `invariants.ts:7-10` wants a
  break to surface "where it happened instead of many days later in a save file". `HalfRunIsDropped` therefore speaks of ticks.
- The cause a changed rate is given quotes `managerAuthorityBp` as the bound of the change (`revenuePolicy.ts:219`); the
  change is held to that times the manager's strategy over 50 (201-204), which may be twice as much.

Statements one would expect to hold, written down in their modules, and false of the
code; each falls within ten steps when it is added to `domain.cfg` for its part:

| Module | Statement | Why not |
| --- | --- | --- |
| `Group` | `SoldOnce` | a house sold and leased back stays saleable and is sold again |
| `Ventures` | `EarnsItsStudy` | the opening rate counts empty nights, the month counts them again |
| `Delegation` | `AskedOnceAMonth` | an answered question may be trimmed and is asked anew |
| `Supply` | `LinenIsKept` | a room made up when an outage closes it is dirty afterwards and made up again, its linen gone |
| `Facilities` | `OutletsLoad` | a closure by law names a cause that `isFnbState` refuses: such a game can be neither saved nor loaded |
| `Workforce` | `LeaveEnds`, `HiringIsOpen` | on the last day of a leave the return is overwritten by the counter; the next number is one above the rota's, and records outlive the rota |
| `Commercial` | `CampaignsWork` | one shorter than a month is over at the first close, before anything is credited to it |
| `GuestCare` | `GesturesHelp` | the gesture wins back less than the complaint it answers costs (2880-2889, 2771) |
| `Selling` | `SellingNeverStops` | no channel for today's demand throws (3571), also where only the walk-in is left |
| `LedgerHistory` | `MonthsMeet` | the story earns and spends between a month's closing and the next one's opening |
| `MonthClose` | `EveryRoomIsPaid` | of a booking on terms one room's night is entered and all its rooms are counted (3366-3377; the comment at 3384 says otherwise) |
| `SaveFormat` | `StoredIsExportable` | at the edge of the size, the file around a save no longer fits |
| `Campaign` | `TakenAtItsRate` | difficulty writes its rate over whatever loan stands first (1259) |
| `Campaign` | `CashIsNotOwed` | a smaller opening after money was spent leaves less than nothing |
| `Campaign` | `IntolerantMindsMore` | a change of -4 scaled up and truncated is -4 (`difficultyEffects.ts:57`) |
| `Scene` | `OneIdOneMark` | a party with several rooms is drawn once for each |
| `Scene` | `FailedLiftIsEmpty` | a housekeeper's round goes through it |
| `HotelPicture` | `PeopleAreCut` | people are drawn on floors that are cut away |
| `HotelPicture` | `NoRendererIsLeft` | a view closed while its renderer is imported leaves it behind |
| `HotelPicture` | `FocusIsInTheMiddle` | the middle of the house is added to where the focus is |

`Scene!NobodyWaitsForTheLift` holds in its instance, where one would rather it did not: the
way is two minutes a node and is looked at every five.

Smaller things, by part (lines of `GameSimulation.ts` unless another file is named):

- *Money.* December's tax base omits December. A loan of n months is paid in n - 1
  instalments. The headroom of a refinancing is a constant, not the borrowing limit.
- *Company.* The rate of a bought house ignores its margin; its debt lowers the price and
  is never taken on; a finding nobody looked for costs nothing, and a newer report replaces
  an older. In its opening month a house is credited with a whole month. Gross profit of a
  managed house is never negative. The management model earns revenue and fee. Budgets for
  investment are consulted by nothing. A stale approval may lower a limit set since. Nobody the
  company remembers is ever promoted.
- *Guests.* `guestRelations.parties` is never pruned. A party whose nights are over may still
  stand at the desk (1752). Group blocks are counted twice as demand (5438).
- *Risk.* The ids in `ASSET_INSURANCE_PERIL` (374-378) are not the assets'. A storm's deductible is
  taken twice. A policy may be varied after the loss. `checkComplianceAlerts` does not read
  whether an alert was acknowledged (4479-4490), and twenty critical alerts leave room for no other.
- *House.* Closing the wellness area does not stop treatments. The bar's row of the board leaves
  out covers from the city. Water at 8:00 is metered by yesterday's bookings (1957).
  Savings outlive the contract they were installed under.
- *Credit.* Borrowed cash raises the limit it is borrowed under (`creditStanding.ts:99`).
- *Selling.* Plan and account discount may go below the hotel's own floor.
- *Career.* `ended` stops nothing. The stars follow the queue at the desk up and down. The lobby
  counts an arrival four times as demand. A forecast bought before the first quantum is not
  redrawn when the difficulty changes. Wages are unscaled until the first month.
- *Saves.* Of the migrations only 12 to 13 is wired.
- *Picture.* Descriptions are stale after a command until the next quantum. The reason shown for a
  fault names any failed asset. A pan while following lasts until the next
  snapshot; somebody followed who has left stays followed; below a zoom of 1.5 nobody
  can be followed by keyboard.
- *No caller:* `eventsales/negotiation.ts`, `advanceContract`, `signSupplierContract`,
  `staffingAfterAutomation`, `findPath`, `speedScaledProgressMonths`; `closedNavigationIds` is
  never other than empty.

## 7. What is not modelled, and why

- *One state.* No module runs all thirteen phases over one `GameState`. Each domain module
  takes from the others any value they could give it, which covers more than they
  do; what is lost is a property that needs a particular one (this wage on that day).
  Where two modules hold one thing (a loan in `FinanceBooks` and `Lending`, rooms in `HotelRooms`
  and `Selling`), each has the part its questions need.
- *Numbers.* Seasons, the drift of the macro economy, weather, media, prestige and opinions by segment
  are choices or left out: their properties are ranges over long runs, which the repository's own
  sweeps test. The generator's arithmetic, dates and basis points are scaled down; where rounding
  matters (breakage, levers, interest, tax) it is done as the code does it.
- *Staff.* Shifts and the roster by hour, the effect of a headquarters role, integration after a
  purchase.
- *Renovation.* Quotes, permits and phases of a project: one countdown here.
- *Conferences.* Their trips in the lift and their load on housekeeping.
- *Store.* The list of slots, tutorial, error log; a second load before the first has settled
  (the second replaces the promise of the first, `gameStore.ts:359`).
- *Interface.* Hovering, lists, forms and charts of the departments, arithmetic of dragging: they keep
  no state the rules or the scene read.
- *Content, translation, tools.* Static data and its validation at start-up.
- In `HotelRooms`: price and channel of a booking (in `Selling`), the money it earns (in `FinanceBooks`
  and `MonthClose`), rooms sold to managed hotels; supplies and conferences only through
  how many rooms can be cleaned.

## 8. Plan

Done in this order: the boundary every change goes through; the two loops around it;
what survives the page; the store that ties them; rooms; the books with their
proofs; then the other parts of the company, and the house as it is described and drawn.

Proved in this order: types and log of the boundary, rooms and outages, the books; then the
rest of the boundary with its refinement, the ladder, the protocol, the store, bookings and the
desk, loans; then staff, complaints, risks, the story and the save's format; then stock, draw and
service areas, sales, the city, the terms of a career and the picture, with their compositions; last the registers,
the ventures and the delegation of the company, with theirs.

Next:

1. The two invariants section 5 leaves to TLC, part by part: `LentIsOwedOrReturned`, then the month's
   report, what is merged in the ledger, and the scene.
2. Parts over one book: a midnight with `Supply`, `Workforce` and `Risk` posting into the same
   cash, so that one part's shortfall is another's.
3. Two loads in flight in `GameStore`; slots deleted while a rotation runs in `SaveRecovery`.

## 9. Running it

    tlc -config boundary.cfg MC_CommandBoundary
    tlc -config domain.cfg MC_Domain
    tlapm TradeProofs.tla

Each configuration names its specification and properties; the table of runs
in `PROJECT.json` says which module it belongs to. `boundary`, `domain`, `store`,
`rooms_stays` (3,514,917 distinct states) and `protocol_publications` (2,618,834)
take one to four minutes each, `protocol_answers` (135,798, with liveness) as long,
every other run less. Of the proofs, `WorkerProtocolProofs`, `GameStoreProofs`, `HotelRoomsProofs`,
`CommandBoundaryProofs` take some minutes, `DomainProofs` about ten and `TradeProofs` about fifteen, the others
one or two.
