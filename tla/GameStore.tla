------------------------------ MODULE GameStore ------------------------------
(***************************************************************************)
(* The page's store (useGameStore): it forwards the player's intent to a   *)
(* worker, mirrors what comes back, and owns the save policy - the slot of *)
(* each save, the calendar autosaves, the save before a major action, the  *)
(* load and the replacement of a stopped worker.                           *)
(*                                                                         *)
(* The worker is the one of WorkerProtocol, reduced to what the store can  *)
(* tell apart: the month and the commands its game has applied.  The store *)
(* keeps saves as SaveRecovery does; here a slot write is one step.        *)
(* Not modelled: the snapshot drawn, the list of slots, the tutorial and   *)
(* the log of errors.                                                      *)
(***************************************************************************)
EXTENDS Integers, Sequences, FiniteSets

CONSTANTS
  None,
  MonthsPerYear,   \* 12
  MaxMonth,        \* bound: the last month played
  MaxRequests,     \* bound: request ids one client mints for the player
  MaxAutosaves,    \* bound: and, on top of those, for autosaves
  MaxCommands,     \* bound: commands sent
  MaxTicks,        \* bound: ticks that publish with nothing to decide
  MaxInputs,       \* bound: speeds set, pauses, resumes, saves, acknowledgements
  MaxLoads, MaxRestarts, MaxThrows, MaxStops,   \* bounds: of each event
  MaxInbox         \* bound: requests in flight when the page adds one

ASSUME StoreAssumption ==
  /\ MonthsPerYear \in Nat \ {0}
  /\ {MaxMonth, MaxRequests, MaxAutosaves, MaxCommands, MaxTicks, MaxInputs, MaxLoads,
      MaxRestarts, MaxThrows, MaxStops, MaxInbox} \subseteq Nat

VARIABLES
  \* the worker
  game,           \* what its simulation has become, or None
  workerSpeed,
  halted,         \* tickFailure
  queue,          \* commands to be decided at the next tick
  owed,           \* commands whose simulation is gone or halted: the rest of correlation
  inbox, outbox,
  \* the client and the store
  counter,        \* the client's requestCounter
  pendingSlots,   \* the slot each save in flight asked for, by request
  lastPoint,      \* the month of the last snapshot
  loading, loadCompletion,
  control,        \* the pause or resume that waits for its verdict
  speed,          \* the speed shown
  pauseStatus,
  current,        \* the request of the last command sent
  commandStatus,
  workerFailure,
  slots,          \* the saves stored, by slot
  newest,         \* the last save stored: recovery:0
  \* bounds and ghosts
  tickets,        \* commands sent so far; each is known by its number
  spent,
  line,           \* ghost: counts the games started or loaded
  lastLine,       \* ghost: the line of the last snapshot
  unsaved,        \* ghost: major actions whose save is not answered yet
  answered        \* ghost: what the verdicts shown were given to

worker == <<game, workerSpeed, halted, queue, owed, line, unsaved>>
storage == <<slots, newest>>
ui == <<speed, pauseStatus, control, current, commandStatus, answered>>
refs == <<pendingSlots, lastPoint, lastLine, loading, loadCompletion>>
vars == <<worker, inbox, outbox, counter, refs, ui, workerFailure, storage,
          tickets, spent>>

Requests == 1 .. MaxRequests + MaxAutosaves
Tickets == 1 .. MaxCommands
SlotNames == {"manual", "year", "month", "major-action"}
Games == [month : 0 .. MaxMonth, applied : SUBSET Tickets]

\* No slot, request or ticket is mistaken for none.
ASSUME NoneAssumption == None \notin SlotNames /\ None \notin Requests

\* Events come from the budget of their kind.
Spend(what, bound) ==
  /\ spent[what] < bound
  /\ spent' = [spent EXCEPT ![what] = @ + 1]

(***************************************************************************)
(* autosaveReason                                                          *)
(***************************************************************************)
AutosaveReason(prev, next) ==
  IF prev = next THEN None
  ELSE IF prev \div MonthsPerYear # next \div MonthsPerYear THEN "year" ELSE "month"
-----------------------------------------------------------------------------
Init ==
  /\ game = None
  /\ workerSpeed = 0
  /\ halted = FALSE
  /\ queue = <<>>
  /\ owed = <<>>
  /\ inbox = <<[type |-> "INIT_GAME"]>>
  /\ outbox = <<>>
  /\ counter = 0
  /\ pendingSlots = [r \in Requests |-> None]
  /\ lastPoint = None
  /\ loading = FALSE
  /\ loadCompletion = FALSE
  /\ control = None
  /\ speed = 0
  /\ pauseStatus = "idle"
  /\ current = None
  /\ commandStatus = "idle"
  /\ workerFailure = FALSE
  /\ slots = [s \in SlotNames |-> None]
  /\ newest = None
  /\ tickets = 0
  /\ spent = [k \in {"ticks", "inputs", "loads", "restarts", "throws", "stops"} |-> 0]
  /\ line = 0
  /\ lastLine = 0
  /\ unsaved = {}
  /\ answered = [control |-> None, command |-> None]

(***************************************************************************)
(* The player                                                              *)
(***************************************************************************)
Alive == ~workerFailure
NextRequest == counter + 1

\* The page posts requests; each mint uses the client's counter.
Posts(messages, minted) ==
  /\ Alive
  /\ Len(inbox) < MaxInbox
  /\ counter + minted <= MaxRequests
  /\ counter' = counter + minted
  /\ inbox' = inbox \o messages
  /\ UNCHANGED <<game, workerSpeed, halted, queue, owed, line, outbox, workerFailure,
                 storage>>

SetSpeed(s) ==
  /\ Posts(<<[type |-> "SET_SPEED", speed |-> s]>>, 0)
  /\ Spend("inputs", MaxInputs)
  /\ speed' = s
  /\ UNCHANGED <<refs, pauseStatus, control, current, commandStatus, answered, tickets,
                 unsaved>>

\* One control at a time: a request made while another waits is dropped.
RequestControl(type) ==
  /\ control = None
  /\ Posts(<<[type |-> type, request |-> NextRequest]>>, 1)
  /\ Spend("inputs", MaxInputs)
  /\ control' = [request |-> NextRequest, type |-> type]
  /\ pauseStatus' = "pending"
  /\ UNCHANGED <<refs, speed, current, commandStatus, answered, tickets, unsaved>>

\* A request for a save carries, as a ghost, what the save is for: its slot,
\* the major action it precedes and, for an autosave, whether time had passed.
Purpose(slot, ticket, timely) == [slot |-> slot, ticket |-> ticket, timely |-> timely]

SaveRequest(r, purpose) == [type |-> "REQUEST_SAVE", request |-> r, purpose |-> purpose]

Save(slot) ==
  /\ Posts(<<SaveRequest(NextRequest, Purpose(slot, 0, TRUE))>>, 1)
  /\ Spend("inputs", MaxInputs)
  /\ pendingSlots' = [pendingSlots EXCEPT ![NextRequest] = slot]
  /\ UNCHANGED <<lastPoint, lastLine, loading, loadCompletion, ui, tickets, unsaved>>

Command(r, ticket) == [type |-> "COMMAND", request |-> r, ticket |-> ticket]

SendMinor ==
  /\ tickets < MaxCommands
  /\ tickets' = tickets + 1
  /\ Posts(<<Command(NextRequest, tickets + 1)>>, 1)
  /\ current' = NextRequest
  /\ commandStatus' = "pending"
  /\ UNCHANGED <<refs, speed, pauseStatus, control, answered, unsaved, spent>>

PreSave(r) == SaveRequest(r, Purpose("major-action", tickets + 1, TRUE))

\* Slip: the command goes out before the save that should precede it.
SendMajorSaveLast ==
  /\ tickets < MaxCommands
  /\ tickets' = tickets + 1
  /\ Posts(<<Command(NextRequest, tickets + 1), PreSave(NextRequest + 1)>>, 2)
  /\ pendingSlots' = [pendingSlots EXCEPT ![NextRequest + 1] = "major-action"]
  /\ unsaved' = unsaved \cup {tickets + 1}
  /\ current' = NextRequest
  /\ commandStatus' = "pending"
  /\ UNCHANGED <<lastPoint, lastLine, loading, loadCompletion, speed, pauseStatus,
                 control, answered, spent>>

\* A major action gets a save of its own first.
SendMajor ==
  /\ tickets < MaxCommands
  /\ tickets' = tickets + 1
  /\ Posts(<<PreSave(NextRequest), Command(NextRequest + 1, tickets + 1)>>, 2)
  /\ pendingSlots' = [pendingSlots EXCEPT ![NextRequest] = "major-action"]
  /\ unsaved' = unsaved \cup {tickets + 1}
  /\ current' = NextRequest + 1
  /\ commandStatus' = "pending"
  /\ UNCHANGED <<lastPoint, lastLine, loading, loadCompletion, speed, pauseStatus,
                 control, answered, spent>>

\* A command too, but one whose verdict nobody shows.
AcknowledgeAlert ==
  /\ Posts(<<Command(NextRequest, 0)>>, 1)
  /\ Spend("inputs", MaxInputs)
  /\ UNCHANGED <<refs, ui, tickets, unsaved>>

\* loadWithRecovery offers the slot, else the newest save there is.
Offered(slot) == IF slots[slot] # None THEN slots[slot] ELSE newest

\* The step after loadWithRecovery has answered.
Load(slot) ==
  /\ Offered(slot) # None
  /\ Posts(<<[type |-> "LOAD_GAME", save |-> Offered(slot).save]>>, 0)
  /\ Spend("loads", MaxLoads)
  /\ loading' = TRUE
  /\ loadCompletion' = TRUE
  /\ UNCHANGED <<pendingSlots, lastPoint, lastLine, ui, tickets, unsaved>>

Restart ==
  /\ Posts(<<[type |-> "INIT_GAME"]>>, 0)
  /\ Spend("restarts", MaxRestarts)
  /\ speed' = 0
  /\ UNCHANGED <<refs, pauseStatus, control, current, commandStatus, answered, tickets,
                 unsaved>>

(***************************************************************************)
(* The page replaces a stopped worker: the old client is disposed with     *)
(* everything in flight, a new one counts from 1, and the worker starts a  *)
(* game and loads the save.  The refs other than lastPoint are kept.       *)
(***************************************************************************)
RecoverFromWorkerFailure ==
  /\ workerFailure
  /\ Offered("manual") # None
  /\ workerFailure' = FALSE
  /\ game' = None
  /\ workerSpeed' = 0
  /\ halted' = FALSE
  /\ queue' = <<>>
  /\ owed' = <<>>
  /\ inbox' = <<[type |-> "INIT_GAME"],
                [type |-> "LOAD_GAME", save |-> Offered("manual").save]>>
  /\ outbox' = <<>>
  /\ counter' = 0
  /\ lastPoint' = None
  /\ lastLine' = 0
  /\ speed' = 0
  /\ UNCHANGED <<line, unsaved, pendingSlots, loading, loadCompletion, pauseStatus,
                 control, current, commandStatus, answered, storage, tickets, spent>>

(***************************************************************************)
(* The worker                                                              *)
(***************************************************************************)
Handles(type) ==
  /\ inbox # <<>>
  /\ Head(inbox).type = type
  /\ inbox' = Tail(inbox)
  /\ UNCHANGED <<counter, refs, ui, workerFailure, storage, tickets, spent>>

Snapshot(g, l) == [type |-> "SNAPSHOT", month |-> g.month, line |-> l]

\* A verdict carries, as a ghost, the ticket of the command it is about.
Verdict(status, r, ticket) == [type |-> status, request |-> r, ticket |-> ticket]

Verdicts(q, yes) ==
  [i \in DOMAIN q |-> Verdict(IF i \in yes THEN "COMMAND_ACCEPTED" ELSE "COMMAND_REJECTED",
                             q[i].request, q[i].ticket)]

Error == [type |-> "SIMULATION_ERROR"]

StartsGame(g, answers) ==
  /\ game' = g
  /\ halted' = FALSE
  /\ queue' = <<>>
  /\ line' = line + 1
  /\ outbox' = outbox \o answers \o <<Snapshot(g, line + 1)>>
  /\ UNCHANGED <<workerSpeed, unsaved>>

\* The queue goes down with the old simulation, and nobody is answered.
WorkerInit ==
  /\ Handles("INIT_GAME")
  /\ StartsGame([month |-> 0, applied |-> {}], <<>>)
  /\ owed' = owed \o queue

\* A load refuses everybody who still waits, on whatever simulation.
WorkerLoad ==
  /\ Handles("LOAD_GAME")
  /\ StartsGame(Head(inbox).save, Verdicts(owed \o queue, {}))
  /\ owed' = <<>>

WorkerRefusesLoad ==
  /\ Handles("LOAD_GAME")
  /\ outbox' = Append(outbox, Error)
  /\ UNCHANGED worker

\* No game, a halted one, or a payload that is no command.
WorkerRefusesCommand ==
  /\ Handles("COMMAND")
  /\ outbox' = outbox \o Verdicts(<<Head(inbox)>>, {})
  /\ UNCHANGED worker

WorkerQueuesCommand ==
  /\ Handles("COMMAND")
  /\ game # None /\ ~halted /\ workerSpeed # 0
  /\ queue' = Append(queue, Head(inbox))
  /\ UNCHANGED <<game, workerSpeed, halted, owed, outbox, line, unsaved>>

\* The commands of q that are in yes are applied; all are answered.
Decide(q, yes, month) ==
  /\ game' = [month |-> month,
              applied |-> (game.applied \cup {q[i].ticket : i \in yes}) \ {0}]
  /\ queue' = <<>>
  /\ outbox' = outbox \o Verdicts(q, yes) \o <<Snapshot(game', line)>>
  /\ UNCHANGED <<workerSpeed, halted, owed, line, unsaved>>

WorkerDecidesCommand ==
  /\ Handles("COMMAND")
  /\ game # None /\ ~halted /\ workerSpeed = 0
  /\ LET q == Append(queue, Head(inbox))
     IN  \E yes \in SUBSET DOMAIN q : Decide(q, yes, game.month)

WorkerTick ==
  /\ game # None /\ workerSpeed # 0
  /\ \E yes \in SUBSET DOMAIN queue, months \in {0, 1} :
       /\ game.month + months <= MaxMonth
       /\ Decide(queue, yes, game.month + months)
       /\ IF queue = <<>> /\ months = 0 THEN Spend("ticks", MaxTicks) ELSE UNCHANGED spent
  /\ UNCHANGED <<inbox, counter, refs, ui, workerFailure, storage, tickets>>

\* A quantum throws: what was queued is lost, and unanswered until a game is loaded.
WorkerThrows ==
  /\ game # None /\ workerSpeed # 0
  /\ Spend("throws", MaxThrows)
  /\ workerSpeed' = 0
  /\ halted' = TRUE
  /\ queue' = <<>>
  /\ owed' = owed \o queue
  /\ outbox' = Append(outbox, Error)
  /\ UNCHANGED <<game, line, unsaved, inbox, counter, refs, ui, workerFailure, storage,
                 tickets>>

WorkerSetSpeed ==
  /\ Handles("SET_SPEED")
  /\ workerSpeed' = IF halted THEN workerSpeed ELSE Head(inbox).speed
  /\ UNCHANGED <<game, halted, queue, owed, line, unsaved, outbox>>

WorkerControl(type) ==
  /\ Handles(type)
  /\ LET refused == game = None \/ halted
     IN  /\ outbox' = Append(outbox,
              Verdict(IF refused THEN "COMMAND_REJECTED" ELSE "COMMAND_ACCEPTED",
                      Head(inbox).request, None))
         /\ workerSpeed' = IF refused THEN workerSpeed
                           ELSE IF type = "PAUSE" THEN 0
                           ELSE IF workerSpeed = 0 THEN 1 ELSE workerSpeed
  /\ UNCHANGED <<game, halted, queue, owed, line, unsaved>>

\* A save, or an error: no game, a halted one, or an envelope that is over
\* budget or invalid.
WorkerSave ==
  /\ Handles("REQUEST_SAVE")
  /\ \/ /\ game # None /\ ~halted
        /\ outbox' = Append(outbox, [type |-> "SAVE_DATA", request |-> Head(inbox).request,
                                     save |-> game, purpose |-> Head(inbox).purpose])
     \/ outbox' = Append(outbox, Error)
  /\ unsaved' = unsaved \ {Head(inbox).purpose.ticket}
  /\ UNCHANGED <<game, workerSpeed, halted, queue, owed, line>>

\* The page hears of an error of the worker, or cannot read it, and takes it for
\* stopped.  It may have: or it goes on with the requests it has, as after a command of
\* a paused game that threw, which WorkerProtocol follows.
WorkerStops ==
  /\ Alive
  /\ Spend("stops", MaxStops)
  /\ workerFailure' = TRUE
  /\ UNCHANGED <<worker, inbox, outbox, counter, refs, ui, storage, tickets>>

(***************************************************************************)
(* The store's listeners                                                   *)
(***************************************************************************)
Receives(type) ==
  /\ outbox # <<>>
  /\ Head(outbox).type = type
  /\ outbox' = Tail(outbox)
  /\ UNCHANGED <<worker, workerFailure, tickets, spent>>

\* A change of month asks for an autosave, except on the first snapshot after
\* a load was sent, which is taken for the load's own.
Autosave(reason) ==
  IF reason = None
  THEN UNCHANGED <<inbox, counter, pendingSlots>>
  ELSE /\ NextRequest \in Requests
       /\ counter' = NextRequest
       /\ inbox' = Append(inbox, SaveRequest(NextRequest,
                      Purpose(reason, 0, lastLine = Head(outbox).line)))
       /\ pendingSlots' = [pendingSlots EXCEPT ![NextRequest] = reason]

OnSnapshot ==
  /\ Receives("SNAPSHOT")
  /\ Autosave(IF loading \/ lastPoint = None THEN None
              ELSE AutosaveReason(lastPoint, Head(outbox).month))
  /\ lastPoint' = Head(outbox).month
  /\ lastLine' = Head(outbox).line
  /\ loading' = FALSE
  /\ loadCompletion' = (loadCompletion /\ ~loading)
  /\ UNCHANGED <<ui, storage>>

Settles == control # None /\ control.request = Head(outbox).request

\* Slips: a rejection does not settle the control; any verdict is shown as the
\* newest command's.
OnVerdictKeepsRejected(type, status) ==
  /\ Receives(type)
  /\ IF Settles
     THEN /\ control' = IF status = "rejected" THEN control ELSE None
          /\ pauseStatus' = status
          /\ speed' = IF status = "rejected" THEN speed
                      ELSE IF control.type = "PAUSE" THEN 0 ELSE 1
          /\ answered' = [answered EXCEPT !.control = Head(outbox).ticket]
          /\ UNCHANGED <<current, commandStatus>>
     ELSE UNCHANGED ui
  /\ UNCHANGED <<inbox, counter, refs, storage>>

OnVerdictShowsAny(type, status) ==
  /\ Receives(type)
  /\ commandStatus' = status
  /\ answered' = [answered EXCEPT !.command = Head(outbox).ticket]
  /\ UNCHANGED <<control, pauseStatus, speed, current, inbox, counter, refs, storage>>

OnVerdict(type, status) ==
  /\ Receives(type)
  /\ IF Settles
     THEN /\ control' = None
          /\ pauseStatus' = status
          /\ speed' = IF status = "rejected" THEN speed
                      ELSE IF control.type = "PAUSE" THEN 0 ELSE 1
          /\ answered' = [answered EXCEPT !.control = Head(outbox).ticket]
          /\ UNCHANGED <<current, commandStatus>>
     ELSE /\ IF current = Head(outbox).request
             THEN /\ commandStatus' = status
                  /\ answered' = [answered EXCEPT !.command = Head(outbox).ticket]
             ELSE UNCHANGED <<commandStatus, answered>>
          /\ UNCHANGED <<control, pauseStatus, speed, current>>
  /\ UNCHANGED <<inbox, counter, refs, storage>>

OnSimulationError ==
  /\ Receives("SIMULATION_ERROR")
  /\ IF loading /\ loadCompletion
     THEN loading' = FALSE /\ loadCompletion' = FALSE
     ELSE UNCHANGED <<loading, loadCompletion>>
  /\ UNCHANGED <<inbox, counter, pendingSlots, lastPoint, lastLine, ui, storage>>

\* Slip: the slot is the one asked for last.
OnSaveDataLatest ==
  /\ Receives("SAVE_DATA")
  /\ LET asking == {r \in Requests : pendingSlots[r] # None}
         last == CHOOSE r \in asking : \A q \in asking : q <= r
         entry == [save |-> Head(outbox).save, purpose |-> Head(outbox).purpose]
     IN  /\ slots' = [slots EXCEPT ![pendingSlots[last]] = entry]
         /\ newest' = entry
  /\ pendingSlots' = [pendingSlots EXCEPT ![Head(outbox).request] = None]
  /\ UNCHANGED <<inbox, counter, lastPoint, lastLine, loading, loadCompletion, ui>>

\* The write may fail, which the page only reports.
OnSaveData ==
  /\ Receives("SAVE_DATA")
  /\ LET slot == IF pendingSlots[Head(outbox).request] = None THEN "manual"
                 ELSE pendingSlots[Head(outbox).request]
         entry == [save |-> Head(outbox).save, purpose |-> Head(outbox).purpose]
     IN  \/ slots' = [slots EXCEPT ![slot] = entry] /\ newest' = entry
         \/ UNCHANGED storage
  /\ pendingSlots' = [pendingSlots EXCEPT ![Head(outbox).request] = None]
  /\ UNCHANGED <<inbox, counter, lastPoint, lastLine, loading, loadCompletion, ui>>

Player ==
  \/ \E s \in {0, 1} : SetSpeed(s)
  \/ \E type \in {"PAUSE", "RESUME"} : RequestControl(type)
  \/ Save("manual")
  \/ SendMinor
  \/ SendMajor
  \/ AcknowledgeAlert
  \/ Load("manual")
  \/ Restart
  \/ RecoverFromWorkerFailure

WorkerHandles ==
  \/ WorkerInit
  \/ WorkerLoad
  \/ WorkerRefusesLoad
  \/ WorkerRefusesCommand
  \/ WorkerQueuesCommand
  \/ WorkerDecidesCommand
  \/ WorkerSetSpeed
  \/ \E type \in {"PAUSE", "RESUME"} : WorkerControl(type)
  \/ WorkerSave

Listens ==
  \/ OnSnapshot
  \/ OnVerdict("COMMAND_ACCEPTED", "accepted")
  \/ OnVerdict("COMMAND_REJECTED", "rejected")
  \/ OnSimulationError
  \/ OnSaveData

Next == Player \/ WorkerHandles \/ WorkerTick \/ WorkerThrows \/ WorkerStops \/ Listens

Spec == Init /\ [][Next]_vars

\* Messages are handled, on both sides.
FairSpec == Spec /\ WF_vars(WorkerHandles) /\ WF_vars(Listens)
-----------------------------------------------------------------------------
Purposes == [slot : SlotNames, ticket : 0 .. MaxCommands, timely : BOOLEAN]
Entries == [save : Games, purpose : Purposes]
Statuses == {"idle", "pending", "accepted", "rejected"}

TypeOK ==
  /\ game \in Games \cup {None}
  /\ workerSpeed \in {0, 1} /\ speed \in {0, 1}
  /\ halted \in BOOLEAN
  /\ {queue, owed} \subseteq Seq([type : {"COMMAND"}, request : Requests,
                                  ticket : 0 .. MaxCommands])
  /\ counter \in Requests \cup {0}
  /\ pendingSlots \in [Requests -> SlotNames \cup {None}]
  /\ lastPoint \in 0 .. MaxMonth \cup {None}
  /\ loading \in BOOLEAN /\ loadCompletion \in BOOLEAN
  /\ control \in [request : Requests, type : {"PAUSE", "RESUME"}] \cup {None}
  /\ {pauseStatus, commandStatus} \subseteq Statuses
  /\ current \in Requests \cup {None}
  /\ workerFailure \in BOOLEAN
  /\ slots \in [SlotNames -> Entries \cup {None}]
  /\ newest \in Entries \cup {None}
  /\ tickets \in 0 .. MaxCommands
  /\ line \in Nat /\ lastLine \in 0 .. line
  /\ unsaved \subseteq Tickets
  /\ answered \in [control : 0 .. MaxCommands \cup {None}, command : 0 .. MaxCommands \cup {None}]

(***************************************************************************)
(* Two saves can be in flight at once, and the second must not steal the   *)
(* first's slot (gameStore.ts:104): whatever was refused, lost or          *)
(* replaced, every slot holds a save that was asked for that slot, so an   *)
(* autosave never overwrites the slot a player chose.                      *)
(***************************************************************************)
SaveLandsInItsSlot ==
  \A s \in SlotNames : slots[s] # None => slots[s].purpose.slot = s

(***************************************************************************)
(* An action worth a save is saved before it happens (savePolicy.ts:100):  *)
(* the worker answers the save before it decides the command, and the save *)
(* does not contain it - at speed 0, where a command is decided at once,   *)
(* and at any other.                                                       *)
(***************************************************************************)
MajorActionSavedFirst ==
  /\ game # None => game.applied \cap unsaved = {}
  /\ slots["major-action"] # None =>
       slots["major-action"].purpose.ticket \notin slots["major-action"].save.applied

\* A worker that stops takes the answers it owes with it.
Working == spent["stops"] = 0

(***************************************************************************)
(* The verdict shown is the verdict on the newest command, with others,    *)
(* acknowledgements and controls in flight.                                *)
(***************************************************************************)
StatusIsOfNewestCommand ==
  Working /\ commandStatus \in {"accepted", "rejected"} => answered.command = tickets

(***************************************************************************)
(* A pause or resume is settled by the worker, halted or not, and the store*)
(* refuses another one until then; a load that the page waits for succeeds *)
(* or fails, never neither.                                                *)
(***************************************************************************)
RequestsSettle ==
  /\ control # None ~> (control = None \/ ~Working)
  /\ loadCompletion ~> (~loadCompletion \/ ~Working)

(***************************************************************************)
(* A load is not time passing; reading one as a month roll would overwrite *)
(* the monthly autosave with the state it just restored (gameStore.ts:175).*)
(***************************************************************************)
AutosavesAreTimely ==
  \A s \in {"month", "year"} : slots[s] # None => slots[s].purpose.timely

(***************************************************************************)
(* The UI never fakes an outcome before the worker confirms it             *)
(* (README.md:61): a pause shown accepted or rejected was answered by the  *)
(* worker, and not mistaken for a command.                                 *)
(***************************************************************************)
PauseShownWasAnswered ==
  pauseStatus \in {"accepted", "rejected"} => answered.control = None
=============================================================================
