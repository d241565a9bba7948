---------------------------- MODULE WorkerProtocol ----------------------------
(***************************************************************************)
(* The simulation worker and the page's GameClient: two event loops joined *)
(* by two FIFO channels.  The worker owns the game, its timer, the speed,  *)
(* the correlation of command ids to waiting requests, and the chain of    *)
(* published snapshots and deltas.  The client owns a copy of the game     *)
(* that it rebuilds from that chain.                                       *)
(*                                                                         *)
(* The game is abstracted to its published sections (a partial function,   *)
(* since a section may be absent), the envelopes waiting in it, the        *)
(* results nobody has taken out of it and the ids in its command log.      *)
(* CommandBoundary is the detail of a decision.                            *)
(***************************************************************************)
EXTENDS Integers, Sequences, SequencesExt

CONSTANTS
  CommandIds,       \* command ids the page sends; a retry sends one again
  Malformed,        \* those whose payload commandEnvelope refuses
  Sections, Values, \* names and values of the sections of a snapshot
  Speeds,           \* speeds other than 0
  None,             \* no simulation, nothing held, no save
  MaxRequests,      \* bound: commands sent
  MaxInits,         \* bound: INIT_GAME sent
  MaxLoads,         \* bound: LOAD_GAME sent
  MaxControls,      \* bound: speed changes, pauses, resumes and save requests
  MaxQuiet,         \* bound: publications made with no command waiting
  MaxLosses,        \* bound: unreadable responses
  MaxThrows,        \* bound: quanta, and commands of a paused game, that throw
  MaxInbox,         \* bound: requests in flight when the page sends one more
  MaxUnread,        \* bound: responses in flight when the page sends one more
  MaxOutbox         \* bound: responses in flight when a quiet tick publishes

ASSUME ProtocolAssumption ==
  /\ Malformed \subseteq CommandIds
  /\ 1 \in Speeds /\ Speeds \subseteq Nat \ {0}
  /\ {MaxRequests, MaxInits, MaxLoads, MaxControls, MaxQuiet, MaxLosses,
      MaxThrows, MaxInbox, MaxUnread, MaxOutbox} \subseteq Nat

VARIABLES
  \* the worker
  sim,            \* the simulation: content, queue, results, log, how it was torn
  speed,
  tickFailure,
  correlation,    \* the requests waiting on each command id, oldest first
  published,      \* content of the last publication
  publication,    \* its number
  \* the channels
  inbox, outbox,
  \* the client
  held, heldPublication, resyncPending,
  \* the environment and ghosts
  saves,          \* the newest save data the page holds, if any
  sent,           \* commands sent; the last request id
  spent,          \* how much of each bound is used up
  fate,           \* ghost: what became of the envelope of each request
  posted,         \* ghost: the verdicts the worker posted, in order
  truth           \* ghost: content of the publication the client holds

worker == <<sim, speed, tickFailure, correlation, published, publication>>
client == <<held, heldPublication, resyncPending, truth>>
page == <<saves, sent, spent>>
ghosts == <<fate, posted>>
vars == <<worker, inbox, outbox, client, page, ghosts>>

Requests == 1 .. MaxRequests

\* A snapshot: the sections that are present, with their values.
Contents == UNION {[S -> Values] : S \in SUBSET Sections}

\* A state is torn by a quantum that threw, or refused by the invariants after
\* the commands of a paused game.
Fresh(content) ==
  [content |-> content, queue |-> <<>>, results |-> <<>>, log |-> {}, torn |-> "no"]

\* Neither the queue nor the results are in the state, so neither is saved.
StateOf(s) == [s EXCEPT !.queue = <<>>, !.results = <<>>]

(***************************************************************************)
(* computeStateDelta and applyStateDelta                                   *)
(***************************************************************************)
Changed(from, to) ==
  {s \in DOMAIN to : s \notin DOMAIN from \/ from[s] # to[s]}

StateDelta(from, to) ==
  [changed |-> [s \in Changed(from, to) |-> to[s]],
   removed |-> DOMAIN from \ DOMAIN to]

ApplyStateDelta(base, delta) ==
  [s \in (DOMAIN base \cup DOMAIN delta.changed) \ delta.removed |->
     IF s \in DOMAIN delta.changed THEN delta.changed[s] ELSE base[s]]

(***************************************************************************)
(* Responses                                                               *)
(***************************************************************************)
\* Every publication carries, as a ghost, the whole content it stands for.
Snapshot(content, number) ==
  [type |-> "SNAPSHOT", publication |-> number, whole |-> content]

Delta(from, to, number) ==
  [type |-> "STATE_DELTA", base |-> number - 1, publication |-> number,
   delta |-> StateDelta(from, to), whole |-> to]

Verdict(r, verdict) == [type |-> "VERDICT", request |-> r, verdict |-> verdict]
Control(verdict) == [type |-> "CONTROL", verdict |-> verdict]
Error(code) == [type |-> "SIMULATION_ERROR", code |-> code]

\* reply, once per message, remembering the verdicts.
Reply(messages) == outbox' = outbox \o messages

Post(verdicts) == posted' = posted \o verdicts

(***************************************************************************)
(* Deciding the queue: each envelope is accepted or refused, one whose id  *)
(* is in the log is refused, and every decided id enters the log.          *)
(***************************************************************************)
Decisions(queue, log) ==
  {d \in [DOMAIN queue -> {"accepted", "rejected"}] :
     \A i \in DOMAIN queue : d[i] = "accepted" =>
       /\ queue[i].id \notin log
       /\ \A j \in 1 .. i - 1 : queue[j].id # queue[i].id}

Results(queue, d) ==
  [i \in DOMAIN queue |->
     [request |-> queue[i].request, id |-> queue[i].id, verdict |-> d[i]]]

LogAfter(queue, log) == log \cup {queue[i].id : i \in DOMAIN queue}

FateAfter(queue, d) ==
  [r \in Requests |->
     IF \E i \in DOMAIN queue : queue[i].request = r
     THEN d[CHOOSE i \in DOMAIN queue : queue[i].request = r]
     ELSE fate[r]]

(***************************************************************************)
(* correlation: a map from command id to requests in the code, one         *)
(* sequence of pairs here.  Each result answers the oldest request that    *)
(* still waits on its id; a result nobody waits for is not posted.         *)
(***************************************************************************)
\* Slip: only the newest request is remembered for a command id.
WaitForNewest(id, r) ==
  Append(SelectSeq(correlation, LAMBDA e : e.id # id), [id |-> id, request |-> r])

WaitFor(id, r) == Append(correlation, [id |-> id, request |-> r])

\* Where the oldest request that waits on an id waits.
Oldest(waiting, id) == Min({k \in DOMAIN waiting : waiting[k].id = id})

Answer(a, id, verdict) ==
  IF \E k \in DOMAIN a.waiting : a.waiting[k].id = id
  THEN LET k == Oldest(a.waiting, id)
       IN  [waiting |-> RemoveAt(a.waiting, k),
            answers |-> Append(a.answers, Verdict(a.waiting[k].request, verdict))]
  ELSE a

\* The answers to the results, in their order, and who still waits.
AnswersTo(waiting, results) ==
  LET After[n \in 0 .. Len(results)] ==
        IF n = 0 THEN [waiting |-> waiting, answers |-> <<>>]
        ELSE Answer(After[n - 1], results[n].id, results[n].verdict)
  IN  After[Len(results)]
-----------------------------------------------------------------------------
Init ==
  /\ sim = None
  /\ speed = 0
  /\ tickFailure = FALSE
  /\ correlation = <<>>
  /\ published = None
  /\ publication = 0
  /\ inbox = <<>>
  /\ outbox = <<>>
  /\ held = None
  /\ heldPublication = 0
  /\ resyncPending = FALSE
  /\ saves = {}
  /\ sent = 0
  /\ spent = [inits |-> 0, loads |-> 0, controls |-> 0, quiet |-> 0,
            losses |-> 0, throws |-> 0]
  /\ fate = [r \in Requests |-> "unsent"]
  /\ posted = <<>>
  /\ truth = None

(***************************************************************************)
(* The page sends                                                          *)
(***************************************************************************)
Send(message) ==
  /\ Len(inbox) < MaxInbox
  /\ Len(outbox) <= MaxUnread
  /\ inbox' = Append(inbox, message)
  /\ UNCHANGED <<worker, outbox, client, saves>>

SendCommand(id) ==
  /\ sent < MaxRequests
  /\ Send([type |-> "COMMAND", request |-> sent + 1, id |-> id])
  /\ sent' = sent + 1
  /\ fate' = [fate EXCEPT ![sent + 1] = "sent"]
  /\ UNCHANGED <<spent, posted>>

SendInit ==
  /\ spent.inits < MaxInits
  /\ Send([type |-> "INIT_GAME"])
  /\ spent' = [spent EXCEPT !.inits = @ + 1]
  /\ UNCHANGED <<sent, ghosts>>

\* A save the worker made, or data it will not accept.
SendLoad(data) ==
  /\ spent.loads < MaxLoads
  /\ Send([type |-> "LOAD_GAME", data |-> data])
  /\ spent' = [spent EXCEPT !.loads = @ + 1]
  /\ UNCHANGED <<sent, ghosts>>

SendControl(message) ==
  /\ spent.controls < MaxControls
  /\ Send(message)
  /\ spent' = [spent EXCEPT !.controls = @ + 1]
  /\ UNCHANGED <<sent, ghosts>>

Controls ==
  {[type |-> t] : t \in {"PAUSE", "RESUME", "REQUEST_SAVE"}}
    \cup [type : {"SET_SPEED"}, speed : Speeds \cup {0}]

(***************************************************************************)
(* The worker handles the oldest request                                   *)
(***************************************************************************)
Takes(type) ==
  /\ inbox # <<>>
  /\ Head(inbox).type = type
  /\ inbox' = Tail(inbox)
  /\ UNCHANGED <<client, sent>>

Handles(type) == Takes(type) /\ UNCHANGED spent

HandleInitGame ==
  /\ Handles("INIT_GAME")
  /\ \E content \in Contents :
       /\ sim' = Fresh(content)
       /\ published' = content
       /\ publication' = publication + 1
       /\ Reply(<<Snapshot(content, publication + 1)>>)
  /\ tickFailure' = FALSE
  /\ UNCHANGED <<speed, correlation, saves, ghosts>>

\* Everyone who waits on the old simulation is told it was replaced.
ReplacedVerdicts ==
  [i \in DOMAIN correlation |-> Verdict(correlation[i].request, "replaced")]

\* Slip: a load empties the correlation without an answer.
HandleLoadGameSilently ==
  /\ Handles("LOAD_GAME")
  /\ Head(inbox).data # None
  /\ sim' = StateOf(Head(inbox).data)
  /\ published' = sim'.content
  /\ publication' = publication + 1
  /\ correlation' = <<>>
  /\ Reply(<<Snapshot(sim'.content, publication + 1)>>)
  /\ tickFailure' = FALSE
  /\ UNCHANGED <<speed, saves, ghosts>>

\* Slip: the failure is forgotten before the data is looked at.
RefuseLoadForgetsFailure ==
  /\ Handles("LOAD_GAME")
  /\ Head(inbox).data = None
  /\ Reply(<<Error("INVALID_SAVE")>>)
  /\ tickFailure' = FALSE
  /\ UNCHANGED <<sim, speed, correlation, published, publication, saves, ghosts>>

\* The data is checked for its form; the invariants are not asked about it.
HandleLoadGame ==
  /\ Handles("LOAD_GAME")
  /\ Head(inbox).data # None
  /\ sim' = StateOf(Head(inbox).data)
  /\ published' = sim'.content
  /\ publication' = publication + 1
  /\ correlation' = <<>>
  /\ Reply(ReplacedVerdicts \o <<Snapshot(sim'.content, publication + 1)>>)
  /\ Post(ReplacedVerdicts)
  /\ tickFailure' = FALSE
  /\ UNCHANGED <<speed, saves, fate>>

RefuseLoad ==
  /\ Handles("LOAD_GAME")
  /\ Head(inbox).data = None
  /\ Reply(<<Error("INVALID_SAVE")>>)
  /\ UNCHANGED <<worker, saves, ghosts>>

\* No simulation, a halted one, or a payload that is no command.
RefuseCommand ==
  /\ Handles("COMMAND")
  /\ sim = None \/ tickFailure \/ Head(inbox).id \in Malformed
  /\ LET refusal == <<Verdict(Head(inbox).request, "rejected")>>
     IN  Reply(refusal) /\ Post(refusal)
  /\ fate' = [fate EXCEPT ![Head(inbox).request] = "rejected"]
  /\ UNCHANGED <<worker, saves>>

TakesCommand ==
  /\ Takes("COMMAND")
  /\ sim # None
  /\ ~tickFailure
  /\ Head(inbox).id \notin Malformed

Queued == Append(sim.queue, [request |-> Head(inbox).request, id |-> Head(inbox).id])

HandleCommandRunning ==
  /\ TakesCommand
  /\ speed # 0
  /\ correlation' = WaitFor(Head(inbox).id, Head(inbox).request)
  /\ sim' = [sim EXCEPT !.queue = Queued]
  /\ fate' = [fate EXCEPT ![Head(inbox).request] = "queued"]
  /\ UNCHANGED <<speed, tickFailure, published, publication, outbox, saves, spent,
                 posted>>

(***************************************************************************)
(* publishCommandResults, publishDomainEvents and publishDelta, once the   *)
(* queue is decided and the invariants hold of what came of it: every      *)
(* result the simulation keeps is taken, older ones too.  (Events need no  *)
(* answer and carry no state: they are left to CommandBoundary.)           *)
(***************************************************************************)
Decided(queue, d) == sim.results \o Results(queue, d)

Decide(queue, waiting, d, content) ==
  LET answered == AnswersTo(waiting, Decided(queue, d))
  IN  /\ sim' = [content |-> content, queue |-> <<>>, results |-> <<>>,
                  log |-> LogAfter(queue, sim.log), torn |-> "no"]
      /\ correlation' = answered.waiting
      /\ Reply(answered.answers \o <<Delta(published, content, publication + 1)>>)
      /\ Post(answered.answers)
      /\ published' = content
      /\ publication' = publication + 1
      /\ fate' = FateAfter(queue, d)

\* A command at speed 0 is decided at once, with everything queued before it.
HandleCommandPaused ==
  /\ TakesCommand
  /\ speed = 0
  /\ \E d \in Decisions(Queued, sim.log), content \in Contents :
       Decide(Queued, WaitFor(Head(inbox).id, Head(inbox).request), d, content)
  /\ UNCHANGED <<speed, tickFailure, saves, spent>>

(***************************************************************************)
(* The run of a simulation that throws: the queue is decided, its results  *)
(* stay in the simulation, and the content is what it had come to.         *)
(***************************************************************************)
Throws(queue, torn) ==
  /\ spent.throws < MaxThrows
  /\ spent' = [spent EXCEPT !.throws = @ + 1]
  /\ \E d \in Decisions(queue, sim.log), content \in Contents :
       /\ sim' = [content |-> content, queue |-> <<>>, results |-> Decided(queue, d),
                  log |-> LogAfter(queue, sim.log), torn |-> torn]
       /\ fate' = FateAfter(queue, d)

\* The invariants refuse what the commands of a paused game made of it.  Nothing
\* catches this: the error leaves the handler, and the page hears of it as an
\* error of the worker, which goes on taking messages.
HandleCommandPausedThrows ==
  /\ TakesCommand
  /\ speed = 0
  /\ Throws(Queued, "paused")
  /\ correlation' = WaitFor(Head(inbox).id, Head(inbox).request)
  /\ Reply(<<[type |-> "WORKER_ERROR"]>>)
  /\ UNCHANGED <<speed, tickFailure, published, publication, saves, posted>>

HandleSetSpeed ==
  /\ Handles("SET_SPEED")
  /\ speed' = IF tickFailure THEN speed ELSE Head(inbox).speed
  /\ UNCHANGED <<sim, tickFailure, correlation, published, publication, outbox,
                 saves, ghosts>>

HandlePause ==
  /\ Handles("PAUSE")
  /\ IF sim = None \/ tickFailure
     THEN Reply(<<Control("rejected")>>) /\ UNCHANGED speed
     ELSE Reply(<<Control("accepted")>>) /\ speed' = 0
  /\ UNCHANGED <<sim, tickFailure, correlation, published, publication, saves, ghosts>>

HandleResume ==
  /\ Handles("RESUME")
  /\ IF sim = None \/ tickFailure
     THEN Reply(<<Control("rejected")>>) /\ UNCHANGED speed
     ELSE Reply(<<Control("accepted")>>) /\ speed' = IF speed = 0 THEN 1 ELSE speed
  /\ UNCHANGED <<sim, tickFailure, correlation, published, publication, saves, ghosts>>

\* The client asks only for the whole game.
HandleRequestDetails ==
  /\ Handles("REQUEST_DETAILS")
  /\ IF sim = None
     THEN /\ Reply(<<Error("NOT_INITIALISED")>>)
          /\ UNCHANGED <<published, publication>>
     ELSE /\ published' = sim.content
          /\ publication' = publication + 1
          /\ Reply(<<Snapshot(sim.content, publication + 1)>>)
  /\ UNCHANGED <<sim, speed, tickFailure, correlation, saves, ghosts>>

HandleRequestSave ==
  /\ Handles("REQUEST_SAVE")
  /\ sim # None
  /\ ~tickFailure
  /\ Reply(<<[type |-> "SAVE_DATA", data |-> StateOf(sim)]>>)
  /\ UNCHANGED <<worker, saves, ghosts>>

\* Nothing to save, a halted simulation, or an envelope that is over budget or
\* does not validate.
RefuseSave ==
  /\ Handles("REQUEST_SAVE")
  /\ \E code \in {"NOT_INITIALISED", "TICK_FAILED", "INVALID_SAVE"} :
       /\ (code = "NOT_INITIALISED") = (sim = None)
       /\ (code = "TICK_FAILED") = (sim # None /\ tickFailure)
       /\ Reply(<<Error(code)>>)
  /\ UNCHANGED <<worker, saves, ghosts>>

(***************************************************************************)
(* The timer                                                               *)
(***************************************************************************)
Ticks == sim # None /\ speed # 0

Quiet == sim.queue = <<>> /\ sim.results = <<>>

Tick ==
  /\ Ticks
  /\ Quiet => spent.quiet < MaxQuiet /\ Len(outbox) < MaxOutbox
  /\ \E d \in Decisions(sim.queue, sim.log), content \in Contents :
       Decide(sim.queue, correlation, d, content)
  /\ spent' = IF Quiet THEN [spent EXCEPT !.quiet = @ + 1] ELSE spent
  /\ UNCHANGED <<speed, tickFailure, inbox, client, saves, sent>>

\* A quantum throws, in any phase: the timer catches it and halts the simulation.
TickThrows ==
  /\ Ticks
  /\ Throws(sim.queue, "tick")
  /\ speed' = 0
  /\ tickFailure' = TRUE
  /\ Reply(<<Error("TICK_FAILED")>>)
  /\ UNCHANGED <<correlation, published, publication, inbox, client, saves, sent,
                 posted>>

(***************************************************************************)
(* The client handles the oldest response, or cannot read it               *)
(***************************************************************************)
Receives(type) ==
  /\ outbox # <<>>
  /\ Head(outbox).type = type
  /\ outbox' = Tail(outbox)
  /\ UNCHANGED <<worker, sent, spent, ghosts>>

HandleSnapshot ==
  /\ Receives("SNAPSHOT")
  /\ held' = Head(outbox).whole
  /\ heldPublication' = Head(outbox).publication
  /\ truth' = Head(outbox).whole
  /\ resyncPending' = FALSE
  /\ UNCHANGED <<inbox, saves>>

\* Slip: the base is compared loosely, so a gap in the chain is not noticed.
FollowsUpTo(m) == held # None /\ m.base >= heldPublication

Follows(m) == held # None /\ m.base = heldPublication

HandleStateDelta ==
  /\ Receives("STATE_DELTA")
  /\ Follows(Head(outbox))
  /\ held' = ApplyStateDelta(held, Head(outbox).delta)
  /\ heldPublication' = Head(outbox).publication
  /\ truth' = Head(outbox).whole
  /\ UNCHANGED <<inbox, resyncPending, saves>>

\* Nothing held, or a delta from elsewhere: ask once for the whole game.
Resynchronise ==
  /\ Receives("STATE_DELTA")
  /\ ~Follows(Head(outbox))
  /\ resyncPending' = TRUE
  /\ inbox' = IF resyncPending THEN inbox
              ELSE Append(inbox, [type |-> "REQUEST_DETAILS"])
  /\ UNCHANGED <<held, heldPublication, truth, saves>>

HandleSaveData ==
  /\ Receives("SAVE_DATA")
  /\ saves' = {Head(outbox).data}
  /\ UNCHANGED <<inbox, client>>

\* Verdicts and errors go to listeners, onerror included: what the store makes of
\* them is modelled elsewhere.
HandleOther ==
  /\ \E type \in {"VERDICT", "CONTROL", "SIMULATION_ERROR", "WORKER_ERROR"} : Receives(type)
  /\ UNCHANGED <<inbox, client, saves>>

\* onmessageerror: the response is gone.
LoseResponse ==
  /\ outbox # <<>>
  /\ spent.losses < MaxLosses
  /\ outbox' = Tail(outbox)
  /\ spent' = [spent EXCEPT !.losses = @ + 1]
  /\ UNCHANGED <<worker, inbox, held, heldPublication, resyncPending, truth, saves,
                 sent, ghosts>>

PageSends ==
  \/ \E id \in CommandIds : SendCommand(id)
  \/ SendInit
  \/ \E data \in saves \cup {None} : SendLoad(data)
  \/ \E message \in Controls : SendControl(message)

WorkerHandles ==
  \/ HandleInitGame
  \/ HandleLoadGame
  \/ RefuseLoad
  \/ RefuseCommand
  \/ HandleCommandRunning
  \/ HandleCommandPaused
  \/ HandleCommandPausedThrows
  \/ HandleSetSpeed
  \/ HandlePause
  \/ HandleResume
  \/ HandleRequestDetails
  \/ HandleRequestSave
  \/ RefuseSave

ClientReceives ==
  \/ HandleSnapshot
  \/ HandleStateDelta
  \/ Resynchronise
  \/ HandleSaveData
  \/ HandleOther

Next == PageSends \/ WorkerHandles \/ Tick \/ TickThrows \/ ClientReceives \/ LoseResponse

Spec == Init /\ [][Next]_vars

\* The event loops: messages are handled and the timer fires.
Fairness == WF_vars(WorkerHandles) /\ WF_vars(Tick) /\ WF_vars(ClientReceives)

FairSpec == Spec /\ Fairness
-----------------------------------------------------------------------------
Simulations ==
  [content : Contents,
   queue : Seq([request : Requests, id : CommandIds]),
   results : Seq([request : Requests, id : CommandIds,
                  verdict : {"accepted", "rejected"}]),
   log : SUBSET CommandIds,
   torn : {"no", "tick", "paused"}]

\* Neither a game nor what is published of it is mistaken for none.
ASSUME NoneAssumption == None \notin Contents \cup Simulations

Verdicts == {"accepted", "rejected", "replaced"}

Fates == [Requests -> {"unsent", "sent", "queued", "accepted", "rejected"}]

\* Types of the variables; the messages are typed by their senders.
TypeOK ==
  /\ sim \in Simulations \cup {None}
  /\ speed \in Speeds \cup {0}
  /\ tickFailure \in BOOLEAN
  /\ correlation \in Seq([id : CommandIds, request : Requests])
  /\ published \in Contents \cup {None}
  /\ publication \in Nat
  /\ held \in Contents \cup {None}
  /\ heldPublication \in Nat
  /\ resyncPending \in BOOLEAN
  /\ saves \subseteq Simulations
  /\ sent \in 0 .. MaxRequests
  /\ fate \in Fates
  /\ posted \in Seq([type : {"VERDICT"}, request : Requests, verdict : Verdicts])
  /\ truth \in Contents \cup {None}

(***************************************************************************)
(* The game the page draws is one the worker published, and whole: never a *)
(* delta on the wrong base, whatever was lost, restarted or loaded.        *)
(***************************************************************************)
HeldIsPublished == held = truth

\* No request is answered twice, even when a retry shares its command id and
\* the simulation that owed the answer is replaced.
AnsweredAtMostOnce ==
  \A i, j \in DOMAIN posted : posted[i].request = posted[j].request => i = j

\* A verdict describes the envelope of the very request it answers: accepted
\* means applied, and a retry is not answered for the original.
VerdictIsItsOwn ==
  \A i \in DOMAIN posted :
    posted[i].verdict # "replaced" => fate[posted[i].request] = posted[i].verdict

\* The player started the career again: an INIT_GAME after the one that every worker
\* begins with.  It replaces the simulation and leaves the callers who wait on it
\* waiting, so that what follows holds until then.
Restarted == spent.inits > 1

\* Whoever waits for a verdict waits for an envelope the simulation still holds,
\* decided and not yet taken or not yet decided, in that order; only a failed tick
\* breaks this.
RequestsOf(s) == [i \in DOMAIN s |-> s[i].request]

WaitingIsHeld ==
  ~tickFailure =>
    RequestsOf(correlation) =
      IF sim = None THEN <<>> ELSE RequestsOf(sim.results) \o RequestsOf(sim.queue)

(***************************************************************************)
(* Every caller is answered at most once; and until the career is started  *)
(* again for what it sent, and waits only for what the simulation owes it, *)
(* whatever is retried, loaded, torn or refused between the command and    *)
(* its verdict (simulation.worker.ts, correlation).                        *)
(***************************************************************************)
VerdictReachesItsCaller ==
  AnsweredAtMostOnce /\ (~Restarted => VerdictIsItsOwn /\ WaitingIsHeld)

(***************************************************************************)
(* What a quantum that threw has left is run no further and kept nowhere:  *)
(* the simulation is halted, and no save has it, not the answer in flight, *)
(* not the page's copy, not the game restored from it                      *)
(* (simulation.worker.ts, tickFailure).  Of a state the invariants refuse  *)
(* while the game is paused the code promises less: it is not halted, and  *)
(* REQUEST_SAVE answers with it.                                           *)
(***************************************************************************)
HalfRunIsDropped ==
  /\ sim # None /\ ~tickFailure => sim.torn # "tick"
  /\ \A data \in saves : data.torn # "tick"
  /\ \A i \in DOMAIN outbox :
       outbox[i].type = "SAVE_DATA" => outbox[i].data.torn # "tick"

(***************************************************************************)
(* Player actions are typed commands that the worker validates and either  *)
(* accepts or rejects (README.md:61): while the game keeps running and is  *)
(* not started again, whoever the worker has let wait is answered, also    *)
(* when a paused command threw after his was decided.                      *)
(***************************************************************************)
Names(s, r) == \E i \in DOMAIN s : s[i].request = r

AnsweredWhileRunning ==
  <>[](speed # 0) /\ []~Restarted =>
    \A r \in Requests : Names(correlation, r) ~> Names(posted, r)
=============================================================================
