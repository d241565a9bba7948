---------------------------- MODULE CommandBoundary ----------------------------
(***************************************************************************)
(* The single mutation boundary of the simulation: GameSimulation's        *)
(* command queue, the CommandHandler that decides each envelope inside a   *)
(* private draft, the event journal that lives in the game state, and the  *)
(* RNG cursor that the live streams and the state each hold a copy of.     *)
(*                                                                         *)
(* JavaScript runs a whole batch without interruption.  A batch is still   *)
(* several steps here, because apply() redirects this.state and            *)
(* this.streams to the draft while rules write through them, and may throw *)
(* after any write.                                                        *)
(***************************************************************************)
EXTENDS Integers, Sequences

CONSTANTS
  PlayerIds,      \* command ids minted by the UI
  Hotels,         \* values of everything in GameState the rules write
  LogLimit,       \* COMMAND_LOG_LIMIT
  JournalLimit,   \* PENDING_EVENT_LIMIT
  None,           \* absent: no cause, no expected version, no save
  MaxDecisions,   \* bound: commands decided in a run
  MaxDraws,       \* bound: RNG draws in a run
  MaxEvents,      \* bound: events emitted in a run
  MaxQueue        \* bound: envelopes waiting

ASSUME ConstantsAssumption ==
  /\ Hotels # {}
  /\ LogLimit \in Nat \ {0}
  /\ JournalLimit \in Nat \ {0}
  /\ PlayerIds \cap Int = {}
  /\ None \notin PlayerIds \cup Int
  /\ {MaxDecisions, MaxDraws, MaxEvents, MaxQueue} \subseteq Nat

VARIABLES
  state,      \* this.state: the live game state, or the draft while applying
  streams,    \* this.streams: how far the live RNG streams have been drawn
  live,       \* liveState and liveStreams, put aside while a draft is written
  causing,    \* this.causingCommandId
  queued,     \* this.queued
  batch,      \* the part of the batch the handler has not decided yet
  phase,      \* where the running method is
  halted,     \* a quantum threw; the worker refuses everything but a load
  saved,      \* the newest save taken from this boundary
  history,    \* ghost: every verdict since the career began
  owed,       \* ghost: every envelope in the order it is to be decided
  delivered   \* ghost: the events handed out, in order

vars == <<state, streams, live, causing, queued, batch, phase, halted, saved,
          history, owed, delivered>>

(***************************************************************************)
(* An automation id is "cmd." followed by a number and the command type;   *)
(* the number is what tells two of them apart.  A player id carries the    *)
(* UI's session and counter and never has that form.                       *)
(***************************************************************************)
Ids == PlayerIds \cup Nat
IsAutomation(id) == id \in Nat

Envelopes == [id : Ids, expected : Nat \cup {None}]

\* A refusal keeps its reason: the four ways runOne refuses.
Refusals == {"duplicate", "stale", "invalid", "failed"}
LogEntries == [id : Ids, verdict : Refusals \cup {"accepted"}, version : Nat]

Events == [sequence : Nat, cause : Ids \cup {None}]

GameStates ==
  [hotel : Hotels, rng : Nat, version : Nat, sequence : Nat,
   log : Seq(LogEntries), emitted : Nat, pending : Seq(Events), dropped : Nat]

InitialState(h) ==
  [hotel |-> h, rng |-> 0, version |-> 0, sequence |-> 0, log |-> <<>>,
   emitted |-> 0, pending |-> <<>>, dropped |-> 0]

\* The newest n elements of s, or all of s when it is shorter.
Newest(s, n) == IF Len(s) > n THEN SubSeq(s, Len(s) - n + 1, Len(s)) ELSE s

(***************************************************************************)
(* emitEvent: the journal drops its oldest events beyond the limit and     *)
(* counts them.                                                            *)
(***************************************************************************)
EmitEvent(s, cause) ==
  LET pending == Append(s.pending, [sequence |-> s.emitted + 1, cause |-> cause])
  IN  [s EXCEPT !.emitted = s.emitted + 1,
                !.pending = Newest(pending, JournalLimit),
                !.dropped = s.dropped + Len(pending)
                              - Len(Newest(pending, JournalLimit))]

\* One rule's write: a value, possibly a draw, possibly an event.
Writes(s, h, cause, emits) ==
  LET written == [s EXCEPT !.hotel = h]
  IN  IF emits THEN EmitEvent(written, cause) ELSE written

\* Slip: the window is trimmed one early.
AppendLogTrimsEarly(log, entry) == Newest(Append(log, entry), LogLimit - 1)

AppendLog(log, entry) == Newest(Append(log, entry), LogLimit)

Entry(id, verdict, version) == [id |-> id, verdict |-> verdict, version |-> version]

\* Slip: a refusal keeps the streams of the draft.
RejectFromKeepsDraws(s, id, reason) ==
  LET entry == Entry(id, reason, s.version)
  IN  /\ state' = [s EXCEPT !.sequence = s.sequence + 1,
                            !.log = AppendLog(s.log, entry)]
      /\ streams' = streams
      /\ history' = Append(history, entry)

(***************************************************************************)
(* CommandHandler.reject: the sequence and the log move, nothing else      *)
(* does.  setState rebuilds the streams from the state it is given.        *)
(***************************************************************************)
RejectFrom(s, id, reason) ==
  LET entry == Entry(id, reason, s.version)
  IN  /\ state' = [s EXCEPT !.sequence = s.sequence + 1,
                            !.log = AppendLog(s.log, entry)]
      /\ streams' = s.rng
      /\ history' = Append(history, entry)

Known(log, id) == \E i \in DOMAIN log : log[i].id = id

\* Slip: only an expectation ahead of the state is refused.
IsStaleIfAhead(e) == e.expected # None /\ e.expected > state.version

IsStale(e) == e.expected # None /\ e.expected # state.version
-----------------------------------------------------------------------------
Init ==
  /\ \E h \in Hotels : state = InitialState(h)
  /\ streams = 0
  /\ live = None
  /\ causing = None
  /\ queued = <<>>
  /\ batch = <<>>
  /\ phase = "idle"
  /\ halted = FALSE
  /\ saved = None
  /\ history = <<>>
  /\ owed = <<>>
  /\ delivered = <<>>

Running == phase = "idle" /\ ~halted

(***************************************************************************)
(* queueEnvelope, called by the worker for a player command.  The sender   *)
(* may expect any version it has been shown, or none.                      *)
(***************************************************************************)
QueueEnvelope(id, expected) ==
  /\ Running
  /\ Len(queued) < MaxQueue
  /\ Len(history) + Len(queued) < MaxDecisions
  /\ LET e == [id |-> id, expected |-> expected]
     IN  /\ queued' = Append(queued, e)
         /\ owed' = Append(owed, e)
  /\ UNCHANGED <<state, streams, live, causing, batch, phase, halted, saved,
                 history, delivered>>

\* Slip: the queue is not emptied when its batch is taken.
BeginCommandsKeepsQueue(caller) ==
  /\ Running
  /\ caller \in {"quantum", "pending"}
  /\ batch' = queued
  /\ phase' = caller
  /\ UNCHANGED <<state, streams, live, causing, queued, halted, saved, history,
                 owed, delivered>>

\* applyCommands: the first phase of a quantum, and applyPendingCommands.
BeginCommands(caller) ==
  /\ Running
  /\ caller \in {"quantum", "pending"}
  /\ batch' = queued
  /\ queued' = <<>>
  /\ phase' = caller
  /\ UNCHANGED <<state, streams, live, causing, halted, saved, history,
                 owed, delivered>>

\* submitCommands, the replay's entry: decided at once, ahead of the queue.
BeginSubmit(id, expected) ==
  /\ Running
  /\ Len(history) + Len(queued) < MaxDecisions
  /\ LET e == [id |-> id, expected |-> expected]
     IN  /\ batch' = <<e>>
         /\ owed' = SubSeq(owed, 1, Len(history)) \o <<e>> \o queued
  /\ phase' = "submit"
  /\ UNCHANGED <<state, streams, live, causing, queued, halted, saved, history,
                 delivered>>

Deciding == batch # <<>> /\ live = None

\* runOne's two checks before the rules are asked, then the rules' own check.
Refuse(reason) ==
  /\ Deciding
  /\ LET e == Head(batch)
     IN  /\ CASE reason = "duplicate" -> Known(state.log, e.id)
              [] reason = "stale"     -> ~Known(state.log, e.id) /\ IsStale(e)
              [] reason = "invalid"   -> ~Known(state.log, e.id) /\ ~IsStale(e)
         /\ RejectFrom(state, e.id, reason)
  /\ batch' = Tail(batch)
  /\ UNCHANGED <<live, causing, queued, phase, halted, saved, owed, delivered>>

\* The draft is a clone, so its value is the live state's; its streams are
\* rebuilt from the cursor the state carries.
BeginApply ==
  /\ Deciding
  /\ ~Known(state.log, Head(batch).id)
  /\ ~IsStale(Head(batch))
  /\ live' = [state |-> state, streams |-> streams]
  /\ streams' = state.rng
  /\ causing' = Head(batch).id
  /\ UNCHANGED <<state, queued, batch, phase, halted, saved, history, owed,
                 delivered>>

Applying == live # None

Draws == {d \in 0 .. 1 : streams + d <= MaxDraws}

\* One write of a rule through this.state, this.streams and emit().
ApplyWrite ==
  /\ Applying
  /\ \E h \in Hotels, d \in Draws, emits \in BOOLEAN :
       /\ emits => state.emitted < MaxEvents
       /\ state' = Writes(state, h, causing, emits)
       /\ streams' = streams + d
  /\ UNCHANGED <<live, causing, queued, batch, phase, halted, saved, history,
                 owed, delivered>>

\* The rule returned: the draft is stamped and becomes the state.
Commit ==
  /\ Applying
  /\ LET before == live.state
         entry == Entry(causing, "accepted", before.version + 1)
     IN  /\ state' = [state EXCEPT !.rng = streams,
                                   !.version = before.version + 1,
                                   !.sequence = before.sequence + 1,
                                   !.log = AppendLog(state.log, entry)]
         /\ history' = Append(history, entry)
  /\ live' = None
  /\ causing' = None
  /\ batch' = Tail(batch)
  /\ UNCHANGED <<streams, queued, phase, halted, saved, owed, delivered>>

\* Slip: a shallow copy as draft, so the rolled-back rule's hotel or its events
\* stay behind in the live state.
AbortKeepsHotel ==
  /\ Applying
  /\ RejectFrom([live.state EXCEPT !.hotel = state.hotel], causing, "failed")
  /\ live' = None
  /\ causing' = None
  /\ batch' = Tail(batch)
  /\ UNCHANGED <<queued, phase, halted, saved, owed, delivered>>

AbortKeepsJournal ==
  /\ Applying
  /\ RejectFrom([live.state EXCEPT !.emitted = state.emitted,
                                   !.pending = state.pending,
                                   !.dropped = state.dropped], causing, "failed")
  /\ live' = None
  /\ causing' = None
  /\ batch' = Tail(batch)
  /\ UNCHANGED <<queued, phase, halted, saved, owed, delivered>>

\* The rule threw: apply's finally block puts the live state back, the draft
\* and its draws are dropped, and the refusal is recorded on the live state.
Abort ==
  /\ Applying
  /\ RejectFrom(live.state, causing, "failed")
  /\ live' = None
  /\ causing' = None
  /\ batch' = Tail(batch)
  /\ UNCHANGED <<queued, phase, halted, saved, owed, delivered>>

CommandsDone == phase # "idle" /\ batch = <<>> /\ live = None

Accepted(entry) == entry.verdict = "accepted"

(***************************************************************************)
(* applyPendingCommands and submitCommands return without advancing time:  *)
(* refreshMetrics rewrites the derived sections, for a submitted command   *)
(* only when it was accepted.                                              *)
(***************************************************************************)
EndCommands ==
  /\ CommandsDone
  /\ phase # "quantum"
  /\ \E h \in Hotels :
       /\ phase = "submit" /\ ~Accepted(history[Len(history)]) => h = state.hotel
       /\ state' = [state EXCEPT !.hotel = h,
                                !.rng = IF phase = "pending" THEN streams ELSE @]
  /\ phase' = "idle"
  /\ UNCHANGED <<streams, live, causing, queued, batch, halted, saved, history,
                 owed, delivered>>

\* Slip: the id ignores the orders already waiting.
StandingOrderByCount == [id |-> state.sequence, expected |-> None]

(***************************************************************************)
(* receiveOrders queues standing orders in mid-quantum; their id is built  *)
(* from the number of commands decided and the number waiting.             *)
(***************************************************************************)
StandingOrder == [id |-> state.sequence + Len(queued), expected |-> None]

QueueStandingOrder ==
  /\ CommandsDone
  /\ phase = "quantum"
  /\ Len(queued) < MaxQueue
  /\ Len(history) + Len(queued) < MaxDecisions
  /\ queued' = Append(queued, StandingOrder)
  /\ owed' = Append(owed, StandingOrder)
  /\ UNCHANGED <<state, streams, live, causing, batch, phase, halted, saved,
                 history, delivered>>

(***************************************************************************)
(* The other phases of a quantum write the live state and draw from the    *)
(* live streams; the cursor is captured only when the last phase is done.  *)
(* A phase that throws leaves its writes and draws behind, uncaptured.     *)
(***************************************************************************)
RunWorld(throws) ==
  /\ CommandsDone
  /\ phase = "quantum"
  /\ \E h \in Hotels, d \in Draws, emits \in BOOLEAN :
       /\ emits => state.emitted < MaxEvents
       /\ streams' = streams + d
       /\ LET written == Writes(state, h, None, emits)
          IN  state' = IF throws THEN written
                       ELSE [written EXCEPT !.rng = streams + d]
  /\ halted' = throws
  /\ phase' = "idle"
  /\ UNCHANGED <<live, causing, queued, batch, saved, history, owed, delivered>>

\* Slip: the journal is read, not drained.
TakeDomainEventsWithoutDraining ==
  /\ Running
  /\ state.pending # <<>>
  /\ delivered' = delivered \o state.pending
  /\ UNCHANGED <<state, streams, live, causing, queued, batch, phase, halted,
                 saved, history, owed>>

\* takeDomainEvents
TakeDomainEvents ==
  /\ Running
  /\ state.pending # <<>>
  /\ delivered' = delivered \o state.pending
  /\ state' = [state EXCEPT !.pending = <<>>]
  /\ UNCHANGED <<streams, live, causing, queued, batch, phase, halted, saved,
                 history, owed>>

\* A save is a snapshot of the state.  The queue is not part of the state: a
\* standing order that waits is in no save.
Save ==
  /\ Running
  /\ saved' = [state |-> state, history |-> history, delivered |-> delivered,
               decided |-> SubSeq(owed, 1, Len(history))]
  /\ UNCHANGED <<state, streams, live, causing, queued, batch, phase, halted,
                 history, owed, delivered>>

\* A new GameSimulation is built on the saved state; its queue is empty.
Load ==
  /\ phase = "idle"
  /\ saved # None
  /\ state' = saved.state
  /\ streams' = saved.state.rng
  /\ queued' = <<>>
  /\ halted' = FALSE
  /\ history' = saved.history
  /\ delivered' = saved.delivered
  /\ owed' = saved.decided
  /\ UNCHANGED <<live, causing, batch, phase, saved>>

Next ==
  \/ \E id \in PlayerIds, v \in {None} \cup 0 .. state.version :
       QueueEnvelope(id, v) \/ BeginSubmit(id, v)
  \/ \E caller \in {"quantum", "pending"} : BeginCommands(caller)
  \/ \E reason \in {"duplicate", "stale", "invalid"} : Refuse(reason)
  \/ BeginApply
  \/ ApplyWrite
  \/ Commit
  \/ Abort
  \/ EndCommands
  \/ QueueStandingOrder
  \/ \E throws \in BOOLEAN : RunWorld(throws)
  \/ TakeDomainEvents
  \/ Save
  \/ Load

Spec == Init /\ [][Next]_vars
-----------------------------------------------------------------------------
\* The state a reader of the boundary is entitled to: never a draft.
Committed == IF live = None THEN state ELSE live.state

\* Types of the variables.
TypeOK ==
  /\ state \in GameStates
  /\ streams \in Nat
  /\ live \in [state : GameStates, streams : Nat] \cup {None}
  /\ causing \in Ids \cup {None}
  /\ queued \in Seq(Envelopes)
  /\ batch \in Seq(Envelopes)
  /\ phase \in {"idle", "quantum", "pending", "submit"}
  /\ halted \in BOOLEAN
  /\ saved \in [state : GameStates, history : Seq(LogEntries),
                delivered : Seq(Events), decided : Seq(Envelopes)] \cup {None}
  /\ history \in Seq(LogEntries)
  /\ owed \in Seq(Envelopes)
  /\ delivered \in Seq(Events)

(***************************************************************************)
(* The command log in the save is exactly the newest LogLimit verdicts, in *)
(* decision order, whatever was refused, rolled back, saved or loaded in   *)
(* between, and the decision counter counts them all.                      *)
(***************************************************************************)
LogIsRecentHistory ==
  /\ Committed.log = Newest(history, LogLimit)
  /\ Committed.sequence = Len(history)

(***************************************************************************)
(* Duplicate detection: an accepted command carries an id that none of the *)
(* LogLimit decisions before it carried, refusals included.                *)
(***************************************************************************)
OnceInWindow(h) ==
  \A i, j \in DOMAIN h :
    i < j /\ h[i].id = h[j].id /\ Accepted(h[j]) => j - i > LogLimit

AcceptedOnceInWindow == OnceInWindow(history)

(***************************************************************************)
(* Optimistic concurrency: of all the commands issued against one state    *)
(* version, at most one is accepted.                                       *)
(***************************************************************************)
OneWinnerPerVersion ==
  \A i, j \in DOMAIN history :
    /\ i # j
    /\ Accepted(history[i])
    /\ Accepted(history[j])
    /\ owed[i].expected # None
    => owed[i].expected # owed[j].expected

(***************************************************************************)
(* No envelope is lost, decided twice or overtaken: verdicts, the rest of  *)
(* the batch and the queue are the owed envelopes, in their order.  A      *)
(* standing order queued in mid-quantum waits for the next one.            *)
(***************************************************************************)
DecidedInOrder ==
  LET IdsOf(s) == [i \in DOMAIN s |-> s[i].id]
  IN  IdsOf(history) \o IdsOf(batch) \o IdsOf(queued) = IdsOf(owed)

(***************************************************************************)
(* The house's own orders are never refused as duplicates, although their  *)
(* ids are recomputed from the decision counter in every quantum, across   *)
(* saves, loads, pauses and submitted commands.                            *)
(***************************************************************************)
StandingOrdersAreFresh ==
  \A i \in DOMAIN history :
    IsAutomation(history[i].id) => history[i].verdict \notin {"duplicate", "stale"}

(***************************************************************************)
(* Outside a command the live streams stand where the state says they do,  *)
(* so the next draw is the one a game restored from a snapshot would make. *)
(* Only a quantum that threw leaves them apart.                            *)
(***************************************************************************)
StreamsMatchState == live = None /\ ~halted => streams = state.rng

(***************************************************************************)
(* The event journal: handed-out and pending events are numbered in        *)
(* emission order, none is handed out twice, and every number that is      *)
(* missing is counted as dropped.                                          *)
(***************************************************************************)
EventsInOrderOnce ==
  LET told == delivered \o Committed.pending
  IN  /\ \A i, j \in DOMAIN told : i < j => told[i].sequence < told[j].sequence
      /\ Len(told) + Committed.dropped = Committed.emitted

\* No event, handed out or pending, names a command that was not accepted: a
\* command that is rolled back takes its events down with it.
OnlyAcceptedCommandsCauseEvents ==
  LET told == delivered \o Committed.pending
  IN  \A i \in DOMAIN told :
        told[i].cause # None =>
          \E j \in DOMAIN history :
            history[j].id = told[i].cause /\ Accepted(history[j])

-----------------------------------------------------------------------------
Verdicts(h) == [i \in DOMAIN h |-> [id |-> h[i].id, accepted |-> Accepted(h[i])]]

Career(s, h) == <<s.hotel, s.rng, s.emitted, s.version, Verdicts(h)>>

\* The save store is empty or holds a save: nothing stored is mistaken for none.
ASSUME NoneAssumption ==
  /\ None \notin [state : GameStates, history : Seq(LogEntries),
                  delivered : Seq(Events), decided : Seq(Envelopes)]
  /\ None \notin Hotels \X Nat \X Nat \X Nat \X Seq([id : Ids, accepted : BOOLEAN])

(***************************************************************************)
(* The queue, the draft and the redirected state and streams together      *)
(* behave like commands decided in one step each.                          *)
(***************************************************************************)
Atomic == INSTANCE AtomicCommands
  WITH Ids <- PlayerIds \cup 0 .. MaxDecisions,
       hotel <- Committed.hotel,
       rng <- Committed.rng,
       emitted <- Committed.emitted,
       version <- Committed.version,
       verdicts <- Verdicts(history),
       saved <- IF saved = None THEN None
                ELSE Career(saved.state, saved.history)

ImplementsAtomicCommands == Atomic!Spec
=============================================================================
