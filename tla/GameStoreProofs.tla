--------------------------- MODULE GameStoreProofs ---------------------------
(***************************************************************************)
(* Theorems about GameStore, for every number of months, requests and      *)
(* commands and every bound: a save lands in the slot it was asked for, a  *)
(* major action is saved before it happens, and the verdict shown is the   *)
(* newest command's.                                                       *)
(*                                                                         *)
(* Each follows a message on its way: a request from the page to the       *)
(* worker, where it may wait in the queue, and its answer back.  The       *)
(* invariants say what holds of it in each of these places.                *)
(***************************************************************************)
EXTENDS GameStore, SequenceTheorems, TLAPS

-----------------------------------------------------------------------------
\* The messages on their way to the worker, and to the page.
Commands == [type : {"COMMAND"}, request : Requests, ticket : 0 .. MaxCommands]

LoadGames == [type : {"LOAD_GAME"}, save : Games]

SaveRequests == [type : {"REQUEST_SAVE"}, request : Requests, purpose : Purposes]

ControlOrders == [type : {"PAUSE", "RESUME"}, request : Requests]

PlainOrders == [type : {"INIT_GAME"}] \cup [type : {"SET_SPEED"}, speed : {0, 1}]

Orders == Commands \cup LoadGames \cup SaveRequests \cup ControlOrders \cup PlainOrders

Snapshots == [type : {"SNAPSHOT"}, month : 0 .. MaxMonth, line : Nat]

VerdictMessages ==
  [type : {"COMMAND_ACCEPTED", "COMMAND_REJECTED"}, request : Requests,
   ticket : 0 .. MaxCommands \cup {None}]

SaveDatas ==
  [type : {"SAVE_DATA"}, request : Requests, save : Games, purpose : Purposes]

Errors == [type : {"SIMULATION_ERROR"}]

Responses == Snapshots \cup VerdictMessages \cup SaveDatas \cup Errors

Kinds == {"ticks", "inputs", "loads", "restarts", "throws", "stops"}

\* No snapshot is of a game still to come.
Told == {m \in Responses : m.type = "SNAPSHOT" => m.line <= line}

TypeInv ==
  /\ TypeOK
  /\ inbox \in Seq(Orders)
  /\ outbox \in Seq(Told)
  /\ spent \in [Kinds -> Nat]

-----------------------------------------------------------------------------
\* What the worker says of the commands it has, and of the request it handles.
Answers(v) ==
  \/ \E q \in {queue, owed} : \E i \in 1 .. Len(q) :
       v.request = q[i].request /\ v.ticket = q[i].ticket
  \/ /\ inbox # <<>> /\ Head(inbox).type = "COMMAND"
     /\ v.request = Head(inbox).request /\ v.ticket = Head(inbox).ticket
  \/ /\ inbox # <<>> /\ Head(inbox).type \in {"PAUSE", "RESUME"}
     /\ v.request = Head(inbox).request

Sayings == Snapshots \cup Errors \cup {v \in VerdictMessages : Answers(v)}

Said == {m \in Sayings : m.type = "SNAPSHOT" => m.line <= line'}

-----------------------------------------------------------------------------
\* The messages are told apart by their type.
LEMMA OrdersAre ==
  ASSUME NEW m \in Orders
  PROVE  /\ m.type = "COMMAND" => m \in Commands
         /\ m.type = "LOAD_GAME" => m \in LoadGames
         /\ m.type = "REQUEST_SAVE" => m \in SaveRequests
         /\ m.type \in {"PAUSE", "RESUME"} => m \in ControlOrders
         /\ m.type = "SET_SPEED" => m.speed \in {0, 1}
BY DEF Orders, Commands, LoadGames, SaveRequests, ControlOrders, PlainOrders

\* So are the answers.
LEMMA ResponsesAre ==
  ASSUME NEW m \in Responses
  PROVE  /\ m.type = "SNAPSHOT" => m \in Snapshots
         /\ m.type = "SAVE_DATA" => m \in SaveDatas
         /\ m.type \in {"COMMAND_ACCEPTED", "COMMAND_REJECTED"} => m \in VerdictMessages
BY DEF Responses, Snapshots, VerdictMessages, SaveDatas, Errors

\* What the worker says of commands is one of its answers, and no save.
LEMMA SayingsAre ==
  /\ Sayings \subseteq Responses
  /\ \A m \in Sayings :
       /\ m.type # "SAVE_DATA"
       /\ m.type = "SNAPSHOT" => m \in Snapshots
       /\ m.type \in {"COMMAND_ACCEPTED", "COMMAND_REJECTED"} =>
            m \in VerdictMessages /\ Answers(m)
BY DEF Sayings, Responses, Snapshots, VerdictMessages, Errors

\* A budget spent is still a budget.
LEMMA Spent ==
  ASSUME TypeInv, NEW what \in Kinds, NEW bound, Spend(what, bound)
  PROVE  spent' \in [Kinds -> Nat]
BY DEF TypeInv, Spend

\* The request handled is the oldest.
LEMMA Handled ==
  ASSUME TypeInv, NEW type, Handles(type)
  PROVE  /\ inbox # <<>> /\ inbox' = Tail(inbox)
         /\ Head(inbox) \in Orders /\ inbox' \in Seq(Orders)
         /\ Head(inbox).type = type
         /\ UNCHANGED <<counter, refs, ui, workerFailure, storage, tickets, spent>>
<1>1. inbox \in Seq(Orders)
  BY DEF TypeInv
<1>2. inbox # <<>> /\ inbox' = Tail(inbox)
  BY DEF Handles
<1>3. Head(inbox) \in Orders /\ inbox' \in Seq(Orders)
  BY <1>1, <1>2, HeadTailProperties
<1>4. QED BY <1>2, <1>3 DEF Handles

\* The response heard is the oldest.
LEMMA Heard ==
  ASSUME TypeInv, NEW type, Receives(type)
  PROVE  /\ outbox # <<>> /\ outbox' = Tail(outbox)
         /\ Head(outbox) \in Told /\ outbox' \in Seq(Told)
         /\ Head(outbox).type = type
         /\ UNCHANGED <<worker, workerFailure, tickets, spent>>
<1>1. outbox \in Seq(Told)
  BY DEF TypeInv
<1>2. outbox # <<>> /\ outbox' = Tail(outbox)
  BY DEF Receives
<1>3. Head(outbox) \in Told /\ Tail(outbox) \in Seq(Told)
  BY <1>1, <1>2, HeadTailProperties
<1>4. QED BY <1>2, <1>3 DEF Receives

\* A verdict on each of the commands in q, about that command.
LEMMA VerdictsAre ==
  ASSUME NEW q \in Seq(Commands), NEW yes, NEW W,
         \A i \in 1 .. Len(q), v \in VerdictMessages :
           v.request = q[i].request /\ v.ticket = q[i].ticket => v \in W
  PROVE  Verdicts(q, yes) \in Seq(W)
<1>1. DOMAIN q = 1 .. Len(q) /\ Len(q) \in Nat
  BY LenProperties
<1> DEFINE status(i) == IF i \in yes THEN "COMMAND_ACCEPTED" ELSE "COMMAND_REJECTED"
           v(i) == Verdict(status(i), q[i].request, q[i].ticket)
<1>2. \A i \in 1 .. Len(q) : v(i) \in W
  <2>1. SUFFICES ASSUME NEW i \in 1 .. Len(q) PROVE v(i) \in W
    OBVIOUS
  <2>2. q[i] \in Commands
    BY ElementOfSeq
  <2>3. v(i) \in VerdictMessages
    BY <2>2 DEF Commands, VerdictMessages, Verdict
  <2>4. v(i).request = q[i].request /\ v(i).ticket = q[i].ticket
    BY DEF Verdict
  <2>5. QED BY <2>3, <2>4
<1>3. Verdicts(q, yes) = [i \in 1 .. Len(q) |-> v(i)]
  BY <1>1 DEF Verdicts
<1> HIDE DEF v
<1>4. QED BY <1>1, <1>2, <1>3, IsASeq

\* What a decision says.
LEMMA DecisionSays ==
  ASSUME TypeInv, game # None, NEW q \in Seq(Commands), NEW yes \in SUBSET DOMAIN q,
         NEW month \in 0 .. MaxMonth, Decide(q, yes, month),
         \A i \in 1 .. Len(q), v \in VerdictMessages :
           v.request = q[i].request /\ v.ticket = q[i].ticket => v \in Sayings
  PROVE  /\ game' \in Games /\ game'.month = month
         /\ game'.applied = (game.applied \cup {q[i].ticket : i \in yes}) \ {0}
         /\ \E said \in Seq(Said) : outbox' = outbox \o said
<1>1. DOMAIN q = 1 .. Len(q)
  BY LenProperties
<1>2. game' = [month |-> month, applied |-> (game.applied \cup {q[i].ticket : i \in yes}) \ {0}]
  BY DEF Decide
<1>3. \A i \in yes : q[i].ticket \in 0 .. MaxCommands
  <2>1. SUFFICES ASSUME NEW i \in yes PROVE q[i].ticket \in 0 .. MaxCommands
    OBVIOUS
  <2>2. q[i] \in Commands
    BY <1>1, ElementOfSeq
  <2>3. QED BY <2>2 DEF Commands
<1>4. game' \in Games
  <2>1. game.applied \subseteq Tickets
    BY DEF TypeInv, TypeOK, Games
  <2>2. (game.applied \cup {q[i].ticket : i \in yes}) \ {0} \subseteq Tickets
    BY SMTT(40), <1>3, <2>1, StoreAssumption DEF Tickets
  <2>3. QED BY <1>2, <2>2 DEF Games
<1> DEFINE last == Snapshot(game', line)
<1>5. last \in Said
  <2>1. last \in Snapshots /\ last.line = line /\ line' = line /\ line \in Nat
    BY <1>2, <1>4 DEF Snapshot, Snapshots, TypeInv, TypeOK, Games, Decide
  <2>2. QED BY <2>1 DEF Said, Sayings
<1>6. Verdicts(q, yes) \in Seq(Said)
  <2>1. \A i \in 1 .. Len(q), v \in VerdictMessages :
           v.request = q[i].request /\ v.ticket = q[i].ticket => v \in Said
    BY DEF VerdictMessages, Said
  <2>2. QED BY <2>1, VerdictsAre
<1>7. outbox' = outbox \o Verdicts(q, yes) \o <<last>>
  BY DEF Decide
<1> HIDE DEF last
<1>8. outbox \in Seq(Told)
  BY DEF TypeInv
<1> DEFINE said == Append(Verdicts(q, yes), last)
<1>9. outbox' = outbox \o said
  <2>1. outbox \in Seq(Told \cup Said)
    BY <1>8, SeqMonotonic
  <2>2. Verdicts(q, yes) \in Seq(Told \cup Said) /\ <<last>> \in Seq(Told \cup Said)
    <3>1. last \in Told \cup Said
      BY <1>5
    <3>2. QED BY <1>6, <3>1, SeqMonotonic
  <2>3. (outbox \o Verdicts(q, yes)) \o <<last>> = outbox \o (Verdicts(q, yes) \o <<last>>)
    BY <2>1, <2>2, ConcatAssociative
  <2>4. Verdicts(q, yes) \o <<last>> = said
    BY <1>5, <1>6, AppendIsConcat
  <2>5. QED BY <1>7, <2>3, <2>4
<1>10. said \in Seq(Said)
  BY <1>5, <1>6, AppendProperties
<1> HIDE DEF said
<1>11. QED BY <1>2, <1>4, <1>9, <1>10

\* A refusal of the command handled.
LEMMA RefusalSays ==
  ASSUME TypeInv, Handles("COMMAND"), UNCHANGED line,
         outbox' = outbox \o Verdicts(<<Head(inbox)>>, {})
  PROVE  \E said \in Seq(Said) : outbox' = outbox \o said
<1> DEFINE c == Head(inbox)
<1>1. inbox # <<>> /\ c.type = "COMMAND" /\ c \in Commands
  BY Handled, OrdersAre
<1>2. \A v \in VerdictMessages : v.request = c.request /\ v.ticket = c.ticket => v \in Said
  BY <1>1 DEF Said, Sayings, Answers, VerdictMessages
<1> HIDE DEF c
<1>3. <<c>> \in Seq(Commands) /\ Len(<<c>>) = 1 /\ <<c>>[1] = c
  BY <1>1
<1>4. \A i \in 1 .. Len(<<c>>), v \in VerdictMessages :
        v.request = <<c>>[i].request /\ v.ticket = <<c>>[i].ticket => v \in Said
  BY <1>2, <1>3
<1>5. Verdicts(<<c>>, {}) \in Seq(Said)
  BY <1>3, <1>4, VerdictsAre
<1>6. QED BY <1>5 DEF c

\* The commands that a tick decides, or that a command sent in a pause joins.
LEMMA QueueIs ==
  ASSUME TypeInv
  PROVE  /\ queue \in Seq(Commands)
         /\ \A i \in 1 .. Len(queue), v \in VerdictMessages :
              v.request = queue[i].request /\ v.ticket = queue[i].ticket => v \in Sayings
<1>1. queue \in Seq(Commands)
  BY DEF TypeInv, TypeOK, Commands
<1>2. QED BY <1>1 DEF Sayings, Answers

\* The commands that a load refuses: those whose simulation is gone, and the queue.
LEMMA RefusedAre ==
  ASSUME TypeInv
  PROVE  /\ owed \in Seq(Commands) /\ owed \o queue \in Seq(Commands)
         /\ \A i \in 1 .. Len(owed \o queue), v \in VerdictMessages :
              v.request = (owed \o queue)[i].request
              /\ v.ticket = (owed \o queue)[i].ticket => v \in Sayings
<1>1. queue \in Seq(Commands) /\ owed \in Seq(Commands)
  BY DEF TypeInv, TypeOK, Commands
<1> DEFINE q == owed \o queue
<1>2. /\ q \in Seq(Commands) /\ Len(q) = Len(owed) + Len(queue)
      /\ \A i \in 1 .. Len(q) :
           q[i] = IF i <= Len(owed) THEN owed[i] ELSE queue[i - Len(owed)]
  BY <1>1, ConcatProperties
<1>3. Len(owed) \in Nat /\ Len(queue) \in Nat
  BY <1>1, LenProperties
<1> HIDE DEF q
<1>4. ASSUME NEW i \in 1 .. Len(q), NEW v \in VerdictMessages,
             v.request = q[i].request, v.ticket = q[i].ticket
      PROVE  v \in Sayings
  <2>1. CASE i <= Len(owed)
    <3>1. i \in 1 .. Len(owed) /\ q[i] = owed[i]
      BY <1>2, <1>3, <2>1
    <3>2. QED BY <1>4, <3>1 DEF Sayings, Answers
  <2>2. CASE ~(i <= Len(owed))
    <3>1. i - Len(owed) \in 1 .. Len(queue) /\ q[i] = queue[i - Len(owed)]
      BY <1>2, <1>3, <2>2
    <3>2. QED BY <1>4, <3>1 DEF Sayings, Answers
  <2>3. QED BY <2>1, <2>2
<1>5. QED BY <1>1, <1>2, <1>4 DEF q

\* The queue and the command handled, decided together.
LEMMA QueueJoined ==
  ASSUME TypeInv, Handles("COMMAND")
  PROVE  /\ Append(queue, Head(inbox)) \in Seq(Commands)
         /\ Len(Append(queue, Head(inbox))) = Len(queue) + 1
         /\ \A i \in 1 .. Len(queue) : Append(queue, Head(inbox))[i] = queue[i]
         /\ Append(queue, Head(inbox))[Len(queue) + 1] = Head(inbox)
         /\ \A i \in 1 .. Len(Append(queue, Head(inbox))), v \in VerdictMessages :
              v.request = Append(queue, Head(inbox))[i].request
              /\ v.ticket = Append(queue, Head(inbox))[i].ticket => v \in Sayings
<1> DEFINE c == Head(inbox)
<1>1. inbox # <<>> /\ c.type = "COMMAND" /\ c \in Commands
  BY Handled, OrdersAre
<1>2. \A v \in VerdictMessages : v.request = c.request /\ v.ticket = c.ticket => v \in Sayings
  BY <1>1 DEF Sayings, Answers
<1> HIDE DEF c
<1>3. queue \in Seq(Commands) /\ Len(queue) \in Nat
  BY QueueIs, LenProperties
<1>4. /\ Append(queue, c) \in Seq(Commands)
      /\ Len(Append(queue, c)) = Len(queue) + 1
      /\ \A i \in 1 .. Len(queue) : Append(queue, c)[i] = queue[i]
      /\ Append(queue, c)[Len(queue) + 1] = c
  BY <1>1, <1>3, AppendProperties
<1> DEFINE q == Append(queue, c)
<1> HIDE DEF q
<1>5. ASSUME NEW i \in 1 .. Len(q), NEW v \in VerdictMessages,
             v.request = q[i].request, v.ticket = q[i].ticket
      PROVE  v \in Sayings
  <2>1. i \in 1 .. Len(queue) \/ i = Len(queue) + 1
    BY <1>3, <1>4 DEF q
  <2>2. CASE i \in 1 .. Len(queue)
    BY <1>4, <1>5, <2>2, QueueIs DEF q
  <2>3. CASE i = Len(queue) + 1
    BY <1>2, <1>4, <1>5, <2>3 DEF q
  <2>4. QED BY <2>1, <2>2, <2>3
<1>6. QED BY <1>4, <1>5 DEF q, c

-----------------------------------------------------------------------------
\* The worker's save of its game.
SavesNow ==
  /\ WorkerSave /\ game # None
  /\ outbox' = Append(outbox, [type |-> "SAVE_DATA", request |-> Head(inbox).request,
                               save |-> game, purpose |-> Head(inbox).purpose])

\* The worker speaks at the end of the line to the page: of the commands it has and the
\* game it runs, or it hands out a save.
LEMMA WorkerSays ==
  ASSUME TypeInv, WorkerHandles \/ WorkerTick \/ WorkerThrows
  PROVE  /\ line' \in {line, line + 1}
         /\ SavesNow \/ \E said \in Seq(Said) : outbox' = outbox \o said
<1>1. line \in Nat /\ outbox \in Seq(Told)
  BY DEF TypeInv, TypeOK
<1>2. Error \in Said
  BY DEF Error, Said, Sayings, Errors
<1>3. \A m \in Said : outbox' = Append(outbox, m) =>
        \E said \in Seq(Said) : outbox' = outbox \o said
  <2>1. SUFFICES ASSUME NEW m \in Said, outbox' = Append(outbox, m)
                 PROVE  \E said \in Seq(Said) : outbox' = outbox \o said
    OBVIOUS
  <2>2. outbox \in Seq(Told \cup Said)
    BY <1>1, SeqMonotonic
  <2>3. Append(outbox, m) = outbox \o <<m>>
    BY <2>2, AppendIsConcat
  <2>4. <<m>> \in Seq(Said)
    OBVIOUS
  <2>5. QED BY <2>1, <2>3, <2>4
<1>4. outbox' = outbox => \E said \in Seq(Said) : outbox' = outbox \o said
  <2>1. outbox \o <<>> = outbox /\ <<>> \in Seq(Said)
    BY <1>1, ConcatEmptySeq
  <2>2. QED BY <2>1
<1>5. CASE WorkerInit
  <2> DEFINE g == [month |-> 0, applied |-> {}]
  <2>1. line' = line + 1 /\ outbox' = outbox \o <<>> \o <<Snapshot(g, line + 1)>>
    BY <1>5 DEF WorkerInit, StartsGame
  <2>2. Snapshot(g, line + 1) \in Said
    BY <1>1, <2>1, StoreAssumption DEF Snapshot, Said, Sayings, Snapshots
  <2>3. outbox \o <<>> = outbox
    BY <1>1, ConcatEmptySeq
  <2>4. <<Snapshot(g, line + 1)>> \in Seq(Said)
    BY <2>2
  <2>5. QED BY <2>1, <2>3, <2>4
<1>6. CASE WorkerLoad
  <2> DEFINE g == Head(inbox).save
  <2>1. /\ line' = line + 1
        /\ outbox' = outbox \o Verdicts(owed \o queue, {}) \o <<Snapshot(g, line + 1)>>
    BY <1>6 DEF WorkerLoad, StartsGame
  <2>2. g \in Games
    BY <1>6, Handled, OrdersAre DEF WorkerLoad, LoadGames
  <2> HIDE DEF g
  <2>3. Snapshot(g, line + 1) \in Said
    BY <1>1, <2>1, <2>2 DEF Snapshot, Said, Sayings, Snapshots, Games
  <2> DEFINE q == owed \o queue
  <2>4. \A i \in 1 .. Len(q), v \in VerdictMessages :
           v.request = q[i].request /\ v.ticket = q[i].ticket => v \in Said
    BY RefusedAre DEF Said, VerdictMessages
  <2>5. Verdicts(q, {}) \in Seq(Said)
    BY <2>4, RefusedAre, VerdictsAre
  <2> HIDE DEF q
  <2> DEFINE m == Snapshot(g, line + 1)
  <2> HIDE DEF m
  <2>6. Append(Verdicts(q, {}), m) \in Seq(Said)
    BY <2>3, <2>5, AppendProperties DEF m
  <2>7. outbox' = outbox \o Append(Verdicts(q, {}), m)
    <3>1. outbox \in Seq(Told \cup Said) /\ Verdicts(q, {}) \in Seq(Told \cup Said)
      BY <1>1, <2>5, SeqMonotonic
    <3>2. m \in Told \cup Said
      BY <2>3 DEF m
    <3>3. <<m>> \in Seq(Told \cup Said)
      BY <3>2
    <3>4. Append(Verdicts(q, {}), m) = Verdicts(q, {}) \o <<m>>
      BY <3>1, <3>2, AppendIsConcat
    <3>5. (outbox \o Verdicts(q, {})) \o <<m>> = outbox \o (Verdicts(q, {}) \o <<m>>)
      BY <3>1, <3>3, ConcatAssociative
    <3>6. QED BY <2>1, <3>4, <3>5 DEF m, q
  <2>8. QED BY <2>1, <2>6, <2>7
<1>7. CASE WorkerRefusesLoad
  BY <1>2, <1>3, <1>7 DEF WorkerRefusesLoad, worker
<1>8. CASE WorkerRefusesCommand
  BY <1>8, RefusalSays DEF WorkerRefusesCommand, worker
<1>9. CASE WorkerQueuesCommand \/ WorkerSetSpeed
  BY <1>4, <1>9 DEF WorkerQueuesCommand, WorkerSetSpeed
<1>10. CASE WorkerDecidesCommand
  <2> DEFINE q == Append(queue, Head(inbox))
  <2>1. Handles("COMMAND") /\ game # None
    BY <1>10 DEF WorkerDecidesCommand
  <2>2. PICK yes \in SUBSET DOMAIN q : Decide(q, yes, game.month)
    BY <1>10 DEF WorkerDecidesCommand
  <2>3. line' = line
    BY <2>2 DEF Decide
  <2>4. game.month \in 0 .. MaxMonth
    BY <2>1 DEF TypeInv, TypeOK, Games
  <2>5. QED BY <2>1, <2>2, <2>3, <2>4, QueueJoined, DecisionSays
<1>11. CASE \E type \in {"PAUSE", "RESUME"} : WorkerControl(type)
  <2>1. PICK type \in {"PAUSE", "RESUME"} : WorkerControl(type)
    BY <1>11
  <2>2. /\ inbox # <<>> /\ Head(inbox).type \in {"PAUSE", "RESUME"}
        /\ Head(inbox) \in ControlOrders
    BY <2>1, Handled, OrdersAre DEF WorkerControl
  <2>3. \A status \in {"COMMAND_REJECTED", "COMMAND_ACCEPTED"} :
          Verdict(status, Head(inbox).request, None) \in Said
    BY <2>2 DEF Verdict, Said, Sayings, Answers, VerdictMessages, ControlOrders
  <2>4. \E status \in {"COMMAND_REJECTED", "COMMAND_ACCEPTED"} :
          outbox' = Append(outbox, Verdict(status, Head(inbox).request, None))
    BY <2>1 DEF WorkerControl
  <2>5. line' = line
    BY <2>1 DEF WorkerControl
  <2>6. QED BY <1>3, <2>3, <2>4, <2>5
<1>12. CASE WorkerSave
  <2>1. line' = line
    BY <1>12 DEF WorkerSave
  <2>2. SavesNow \/ outbox' = Append(outbox, Error)
    BY <1>12 DEF WorkerSave, SavesNow
  <2>3. QED BY <1>2, <1>3, <2>1, <2>2
<1>13. CASE WorkerTick
  <2>1. PICK yes \in SUBSET DOMAIN queue, months \in {0, 1} :
          game.month + months <= MaxMonth /\ Decide(queue, yes, game.month + months)
    BY <1>13 DEF WorkerTick
  <2>2. game # None /\ line' = line
    BY <1>13, <2>1 DEF WorkerTick, Decide
  <2>3. game.month + months \in 0 .. MaxMonth
    <3>1. game.month \in 0 .. MaxMonth /\ MaxMonth \in Nat
      BY <2>2, StoreAssumption DEF TypeInv, TypeOK, Games
    <3>2. QED BY <2>1, <3>1
  <2>4. QED BY <2>1, <2>2, <2>3, QueueIs, DecisionSays
<1>14. CASE WorkerThrows
  BY <1>2, <1>3, <1>14 DEF WorkerThrows
<1>15. QED
  BY <1>5, <1>6, <1>7, <1>8, <1>9, <1>10, <1>11, <1>12, <1>13, <1>14 DEF WorkerHandles

-----------------------------------------------------------------------------
\* The page's requests take the next numbers.
LEMMA Posted ==
  ASSUME TypeInv, NEW messages \in Seq(Orders), NEW minted \in {0, 1, 2},
         Posts(messages, minted)
  PROVE  /\ inbox' \in Seq(Orders) /\ inbox' = inbox \o messages
         /\ counter' = counter + minted /\ counter' \in Requests \cup {0}
         /\ UNCHANGED <<game, workerSpeed, halted, queue, owed, line, outbox, workerFailure,
                        storage>>
<1>1. inbox' = inbox \o messages /\ inbox \in Seq(Orders)
  BY DEF Posts, TypeInv
<1>2. inbox' \in Seq(Orders)
  BY <1>1, ConcatProperties
<1>3. /\ counter \in Nat /\ MaxRequests \in Nat /\ MaxAutosaves \in Nat
      /\ counter' = counter + minted /\ counter + minted <= MaxRequests
  <2>1. MaxRequests \in Nat /\ MaxAutosaves \in Nat
    BY StoreAssumption
  <2>2. counter \in Requests \cup {0}
    BY DEF TypeInv, TypeOK
  <2>3. QED BY <2>1, <2>2 DEF Posts, Requests
<1>4. counter' \in Requests \cup {0}
  BY <1>3 DEF Requests
<1>5. QED BY <1>1, <1>2, <1>3, <1>4 DEF Posts

\* The numbers of new requests are requests.
LEMMA Minted ==
  ASSUME TypeInv, NEW messages, NEW minted \in {1, 2}, Posts(messages, minted)
  PROVE  NextRequest \in Requests /\ (minted = 2 => NextRequest + 1 \in Requests)
<1>1. MaxRequests \in Nat /\ MaxAutosaves \in Nat
  BY StoreAssumption
<1>2. counter \in Requests \cup {0} /\ counter + minted <= MaxRequests
  BY DEF TypeInv, TypeOK, Posts
<1>3. QED BY <1>1, <1>2 DEF NextRequest, Requests

\* A purpose names a slot.
LEMMA PurposesAre ==
  ASSUME NEW slot \in SlotNames, NEW ticket \in 0 .. MaxCommands, NEW timely \in BOOLEAN
  PROVE  Purpose(slot, ticket, timely) \in Purposes
BY DEF Purpose, Purposes

\* The autosave that a new month asks for.
LEMMA Autosaved ==
  ASSUME TypeInv, NEW reason \in {None, "year", "month"}, Autosave(reason)
  PROVE  /\ inbox' \in Seq(Orders) /\ counter' \in Requests \cup {0}
         /\ pendingSlots' \in [Requests -> SlotNames \cup {None}]
<1>1. /\ inbox \in Seq(Orders) /\ counter \in Requests \cup {0}
      /\ pendingSlots \in [Requests -> SlotNames \cup {None}]
  BY DEF TypeInv, TypeOK
<1>2. CASE reason = None
  BY <1>1, <1>2 DEF Autosave
<1>3. CASE reason # None
  <2> DEFINE purpose == Purpose(reason, 0, lastLine = Head(outbox).line)
             m == SaveRequest(NextRequest, purpose)
  <2>1. reason \in SlotNames /\ reason \in {"year", "month"}
    BY <1>3 DEF SlotNames
  <2>2. purpose \in Purposes
    <3>1. 0 \in 0 .. MaxCommands
      BY StoreAssumption
    <3>2. (lastLine = Head(outbox).line) \in BOOLEAN
      OBVIOUS
    <3>3. QED BY <2>1, <3>1, <3>2, PurposesAre
  <2>3. /\ NextRequest \in Requests /\ counter' = NextRequest
        /\ inbox' = Append(inbox, m)
        /\ pendingSlots' = [pendingSlots EXCEPT ![NextRequest] = reason]
    BY <1>3 DEF Autosave
  <2>4. m \in Orders
    <3> HIDE DEF purpose
    <3>1. QED BY <2>2, <2>3 DEF SaveRequest, Orders, SaveRequests
  <2> HIDE DEF m
  <2>5. inbox' \in Seq(Orders)
    BY <1>1, <2>3, <2>4, AppendProperties
  <2>6. pendingSlots' \in [Requests -> SlotNames \cup {None}]
    BY <1>1, <2>1, <2>3
  <2>7. QED BY <2>3, <2>5, <2>6
<1>4. QED BY <1>2, <1>3

\* An autosave is for a new month or a new year.
LEMMA ReasonsAre ==
  \A prev, next : AutosaveReason(prev, next) \in {None, "year", "month"}
BY DEF AutosaveReason

\* Every action keeps every variable, and every message on its way, in its type.
LEMMA TypeInvariant == Spec => []TypeInv
<1> USE StoreAssumption, NoneAssumption
<1>1. ASSUME Init PROVE TypeInv
  <2>1. inbox \in Seq(Orders)
    <3>1. [type |-> "INIT_GAME"] \in Orders
      BY DEF Orders, PlainOrders
    <3>2. QED BY <1>1, <3>1 DEF Init
  <2>2. queue = <<>> /\ owed = <<>> /\ outbox = <<>>
    BY <1>1 DEF Init
  <2>3. outbox \in Seq(Told) /\ queue \in Seq(Commands)
    BY <2>2
  <2>4. spent \in [Kinds -> Nat]
    BY <1>1 DEF Init, Kinds
  <2>5. /\ {pauseStatus, commandStatus} \subseteq Statuses
        /\ pendingSlots \in [Requests -> SlotNames \cup {None}]
        /\ slots \in [SlotNames -> Entries \cup {None}]
        /\ answered \in [control : 0 .. MaxCommands \cup {None},
                         command : 0 .. MaxCommands \cup {None}]
        /\ tickets \in 0 .. MaxCommands /\ line \in Nat /\ lastLine \in 0 .. line
    BY <1>1 DEF Init, Statuses
  <2>6. QED BY ZenonT(30), <1>1, <2>1, <2>3, <2>4, <2>5 DEF Init, TypeInv, TypeOK, Commands
<1>2. ASSUME TypeInv, [Next]_vars PROVE TypeInv'
  <2> USE <1>2
  <2>1. CASE \E s \in {0, 1} : SetSpeed(s)
    <3>1. PICK s \in {0, 1} : SetSpeed(s)
      BY <2>1
    <3> DEFINE messages == <<[type |-> "SET_SPEED", speed |-> s]>>
    <3>2. messages \in Seq(Orders)
      <4>1. [type |-> "SET_SPEED", speed |-> s] \in Orders
        BY DEF Orders, PlainOrders
      <4>2. QED BY <4>1
    <3>3. Posts(messages, 0) /\ Spend("inputs", MaxInputs)
      BY <3>1 DEF SetSpeed
    <3> HIDE DEF messages
    <3>4. spent' \in [Kinds -> Nat]
      BY <3>3, Spent DEF Kinds
    <3>5. /\ inbox' \in Seq(Orders) /\ counter' \in Requests \cup {0}
          /\ UNCHANGED <<game, workerSpeed, halted, queue, owed, line, outbox, workerFailure,
                         storage>>
      BY <3>2, <3>3, Posted
    <3>6. /\ speed' \in {0, 1}
          /\ UNCHANGED <<refs, pauseStatus, control, current, commandStatus, answered, tickets,
                         unsaved>>
      BY <3>1 DEF SetSpeed
    <3>7. QED
      BY SMTT(30), <3>4, <3>5, <3>6 DEF TypeInv, TypeOK, Told, storage, refs
  <2>2. CASE \E type \in {"PAUSE", "RESUME"} : RequestControl(type)
    <3>1. PICK type \in {"PAUSE", "RESUME"} : RequestControl(type)
      BY <2>2
    <3> DEFINE messages == <<[type |-> type, request |-> NextRequest]>>
    <3>2. NextRequest \in Requests
      BY <3>1, Minted DEF RequestControl
    <3>3. messages \in Seq(Orders)
      <4>1. [type |-> type, request |-> NextRequest] \in Orders
        BY <3>2 DEF Orders, ControlOrders
      <4>2. QED BY <4>1
    <3>4. Posts(messages, 1) /\ Spend("inputs", MaxInputs)
      BY <3>1 DEF RequestControl
    <3> HIDE DEF messages
    <3>5. spent' \in [Kinds -> Nat]
      BY <3>4, Spent DEF Kinds
    <3>6. /\ inbox' \in Seq(Orders) /\ counter' \in Requests \cup {0}
          /\ UNCHANGED <<game, workerSpeed, halted, queue, owed, line, outbox, workerFailure,
                         storage>>
      BY <3>3, <3>4, Posted
    <3>7. /\ control' \in [request : Requests, type : {"PAUSE", "RESUME"}]
          /\ pauseStatus' \in Statuses
          /\ UNCHANGED <<refs, speed, current, commandStatus, answered, tickets, unsaved>>
      BY <3>1, <3>2 DEF RequestControl, Statuses
    <3>8. QED
      BY SMTT(30), <3>5, <3>6, <3>7 DEF TypeInv, TypeOK, Told, storage, refs
  <2>3. CASE Save("manual")
    <3> DEFINE messages == <<SaveRequest(NextRequest, Purpose("manual", 0, TRUE))>>
    <3>1. NextRequest \in Requests
      BY <2>3, Minted DEF Save
    <3>2. messages \in Seq(Orders)
      <4>1. 0 \in 0 .. MaxCommands /\ "manual" \in SlotNames
        BY DEF SlotNames
      <4>2. Purpose("manual", 0, TRUE) \in Purposes
        BY <4>1, PurposesAre
      <4>3. SaveRequest(NextRequest, Purpose("manual", 0, TRUE)) \in Orders
        BY <3>1, <4>2 DEF Orders, SaveRequests, SaveRequest
      <4> DEFINE m == SaveRequest(NextRequest, Purpose("manual", 0, TRUE))
      <4> HIDE DEF m
      <4>4. m \in Orders => <<m>> \in Seq(Orders)
        OBVIOUS
      <4>5. QED BY <4>3, <4>4 DEF m
    <3>3. Posts(messages, 1) /\ Spend("inputs", MaxInputs)
      BY <2>3 DEF Save
    <3> HIDE DEF messages
    <3>4. spent' \in [Kinds -> Nat]
      BY <3>3, Spent DEF Kinds
    <3>5. pendingSlots' \in [Requests -> SlotNames \cup {None}]
      BY ZenonT(30), <2>3 DEF Save, TypeInv, TypeOK, SlotNames
    <3>6. /\ inbox' \in Seq(Orders) /\ counter' \in Requests \cup {0}
          /\ UNCHANGED <<game, workerSpeed, halted, queue, owed, line, outbox, workerFailure,
                         storage>>
      BY <3>2, <3>3, Posted
    <3>7. UNCHANGED <<lastPoint, lastLine, loading, loadCompletion, ui, tickets, unsaved>>
      BY <2>3 DEF Save
    <3>8. QED
      BY SMTT(30), <3>4, <3>5, <3>6, <3>7 DEF TypeInv, TypeOK, Told, storage, ui
  <2>4. CASE SendMinor
    <3> DEFINE messages == <<Command(NextRequest, tickets + 1)>>
    <3>1. NextRequest \in Requests
      BY <2>4, Minted DEF SendMinor
    <3>2. tickets' = tickets + 1 /\ tickets' \in 0 .. MaxCommands
      BY SMTT(30), <2>4 DEF SendMinor, TypeInv, TypeOK
    <3>3. messages \in Seq(Orders)
      <4>1. Command(NextRequest, tickets + 1) \in Orders
        BY <3>1, <3>2 DEF Orders, Commands, Command
      <4>2. QED BY <4>1
    <3>4. Posts(messages, 1)
      BY <2>4 DEF SendMinor
    <3> HIDE DEF messages
    <3>5. /\ inbox' \in Seq(Orders) /\ counter' \in Requests \cup {0}
          /\ UNCHANGED <<game, workerSpeed, halted, queue, owed, line, outbox, workerFailure,
                         storage>>
      BY <3>3, <3>4, Posted
    <3>6. /\ current' \in Requests /\ commandStatus' \in Statuses
          /\ UNCHANGED <<refs, speed, pauseStatus, control, answered, unsaved, spent>>
      BY <2>4, <3>1 DEF SendMinor, Statuses
    <3>7. QED
      BY SMTT(30), <3>2, <3>5, <3>6 DEF TypeInv, TypeOK, Told, storage, refs
  <2>5. CASE SendMajor
    <3> DEFINE messages == <<PreSave(NextRequest), Command(NextRequest + 1, tickets + 1)>>
    <3>1. NextRequest \in Requests /\ NextRequest + 1 \in Requests
      BY <2>5, Minted DEF SendMajor
    <3>2. /\ tickets' = tickets + 1 /\ tickets' \in 0 .. MaxCommands
          /\ tickets + 1 \in Tickets
      BY SMTT(30), <2>5 DEF SendMajor, TypeInv, TypeOK, Tickets
    <3>3. messages \in Seq(Orders)
      <4>1. Command(NextRequest + 1, tickets + 1) \in Orders
        BY <3>1, <3>2 DEF Orders, Commands, Command
      <4>2. "major-action" \in SlotNames /\ TRUE \in BOOLEAN
        BY DEF SlotNames
      <4>3. Purpose("major-action", tickets + 1, TRUE) \in Purposes
        BY <3>2, <4>2, PurposesAre
      <4>4. PreSave(NextRequest) \in Orders
        BY <3>1, <4>3 DEF Orders, SaveRequests, SaveRequest, PreSave
      <4>5. QED BY <4>1, <4>4
    <3>4. Posts(messages, 2)
      BY <2>5 DEF SendMajor
    <3> HIDE DEF messages
    <3>5. pendingSlots' \in [Requests -> SlotNames \cup {None}]
      BY ZenonT(30), <2>5 DEF SendMajor, TypeInv, TypeOK, SlotNames
    <3>6. unsaved' \subseteq Tickets
      BY SMTT(30), <2>5, <3>2 DEF SendMajor, TypeInv, TypeOK
    <3>7. /\ inbox' \in Seq(Orders) /\ counter' \in Requests \cup {0}
          /\ UNCHANGED <<game, workerSpeed, halted, queue, owed, line, outbox, workerFailure,
                         storage>>
      BY <3>3, <3>4, Posted
    <3>8. /\ current' \in Requests /\ commandStatus' \in Statuses
          /\ UNCHANGED <<lastPoint, lastLine, loading, loadCompletion, speed, pauseStatus,
                         control, answered, spent>>
      BY <2>5, <3>1 DEF SendMajor, Statuses
    <3>9. QED
      BY SMTT(30), <3>2, <3>5, <3>6, <3>7, <3>8 DEF TypeInv, TypeOK, Told, storage
  <2>6. CASE AcknowledgeAlert
    <3> DEFINE messages == <<Command(NextRequest, 0)>>
    <3>1. NextRequest \in Requests
      BY <2>6, Minted DEF AcknowledgeAlert
    <3>2. messages \in Seq(Orders)
      <4>1. Command(NextRequest, 0) \in Orders
        BY <3>1 DEF Orders, Commands, Command
      <4>2. QED BY <4>1
    <3>3. Posts(messages, 1) /\ Spend("inputs", MaxInputs)
      BY <2>6 DEF AcknowledgeAlert
    <3> HIDE DEF messages
    <3>4. spent' \in [Kinds -> Nat]
      BY <3>3, Spent DEF Kinds
    <3>5. /\ inbox' \in Seq(Orders) /\ counter' \in Requests \cup {0}
          /\ UNCHANGED <<game, workerSpeed, halted, queue, owed, line, outbox, workerFailure,
                         storage>>
      BY <3>2, <3>3, Posted
    <3>6. UNCHANGED <<refs, ui, tickets, unsaved>>
      BY <2>6 DEF AcknowledgeAlert
    <3>7. TypeOK'
      BY SMTT(30), <3>4, <3>5, <3>6 DEF TypeInv, TypeOK, storage, refs, ui
    <3>8. QED
      BY <3>4, <3>5, <3>7 DEF TypeInv, Told
  <2>7. CASE Load("manual")
    <3> DEFINE messages == <<[type |-> "LOAD_GAME", save |-> Offered("manual").save]>>
    <3>1. Offered("manual") \in Entries
      BY SMTT(30), <2>7 DEF Load, Offered, TypeInv, TypeOK, SlotNames
    <3>2. messages \in Seq(Orders)
      <4>1. Offered("manual").save \in Games
        BY <3>1 DEF Entries
      <4>2. [type |-> "LOAD_GAME", save |-> Offered("manual").save] \in Orders
        BY <4>1 DEF Orders, LoadGames
      <4>3. QED BY <4>2
    <3>3. Posts(messages, 0) /\ Spend("loads", MaxLoads)
      BY <2>7 DEF Load
    <3> HIDE DEF messages
    <3>4. spent' \in [Kinds -> Nat]
      BY <3>3, Spent DEF Kinds
    <3>5. /\ inbox' \in Seq(Orders) /\ counter' \in Requests \cup {0}
          /\ UNCHANGED <<game, workerSpeed, halted, queue, owed, line, outbox, workerFailure,
                         storage>>
      BY <3>2, <3>3, Posted
    <3>6. /\ loading' \in BOOLEAN /\ loadCompletion' \in BOOLEAN
          /\ UNCHANGED <<pendingSlots, lastPoint, lastLine, ui, tickets, unsaved>>
      BY <2>7 DEF Load
    <3>7. QED
      BY SMTT(30), <3>4, <3>5, <3>6 DEF TypeInv, TypeOK, Told, storage, ui
  <2>8. CASE Restart
    <3> DEFINE messages == <<[type |-> "INIT_GAME"]>>
    <3>1. messages \in Seq(Orders)
      <4>1. [type |-> "INIT_GAME"] \in Orders
        BY DEF Orders, PlainOrders
      <4>2. QED BY <4>1
    <3>2. Posts(messages, 0) /\ Spend("restarts", MaxRestarts)
      BY <2>8 DEF Restart
    <3> HIDE DEF messages
    <3>3. spent' \in [Kinds -> Nat]
      BY <3>2, Spent DEF Kinds
    <3>4. /\ inbox' \in Seq(Orders) /\ counter' \in Requests \cup {0}
          /\ UNCHANGED <<game, workerSpeed, halted, queue, owed, line, outbox, workerFailure,
                         storage>>
      BY <3>1, <3>2, Posted
    <3>5. /\ speed' \in {0, 1}
          /\ UNCHANGED <<refs, pauseStatus, control, current, commandStatus, answered, tickets,
                         unsaved>>
      BY <2>8 DEF Restart
    <3>6. QED
      BY SMTT(30), <3>3, <3>4, <3>5 DEF TypeInv, TypeOK, Told, storage, refs
  <2>9. CASE RecoverFromWorkerFailure
    <3>1. Offered("manual") \in Entries
      BY SMTT(30), <2>9 DEF RecoverFromWorkerFailure, Offered, TypeInv, TypeOK, SlotNames
    <3>2. inbox' \in Seq(Orders)
      <4>1. Offered("manual").save \in Games
        BY <3>1 DEF Entries
      <4>2. /\ [type |-> "LOAD_GAME", save |-> Offered("manual").save] \in Orders
            /\ [type |-> "INIT_GAME"] \in Orders
        BY <4>1 DEF Orders, LoadGames, PlainOrders
      <4>3. QED BY <2>9, <4>2 DEF RecoverFromWorkerFailure
    <3>3. outbox' = <<>> /\ queue' = <<>> /\ owed' = <<>>
      BY <2>9 DEF RecoverFromWorkerFailure
    <3>4. outbox' \in Seq(Told)' /\ queue' \in Seq(Commands) /\ owed' \in Seq(Commands)
      BY <3>3
    <3>5. /\ game' = None /\ workerSpeed' = 0 /\ halted' = FALSE /\ workerFailure' = FALSE
          /\ counter' = 0 /\ lastPoint' = None /\ lastLine' = 0 /\ speed' = 0
          /\ UNCHANGED <<line, unsaved, pendingSlots, loading, loadCompletion, pauseStatus,
                         control, current, commandStatus, answered, storage, tickets, spent>>
      BY <2>9 DEF RecoverFromWorkerFailure
    <3>6. /\ counter' \in Requests \cup {0} /\ lastLine' \in 0 .. line'
          /\ {queue', owed'} \subseteq Seq([type : {"COMMAND"}, request : Requests,
                                           ticket : 0 .. MaxCommands])
      BY SMTT(30), <3>4, <3>5 DEF TypeInv, TypeOK, Commands
    <3>7. TypeOK'
      BY ZenonT(30), <3>5, <3>6 DEF TypeInv, TypeOK, storage
    <3>8. QED BY <3>2, <3>4, <3>5, <3>7 DEF TypeInv
  <2>10. ASSUME WorkerHandles \/ WorkerTick \/ WorkerThrows
         PROVE  outbox' \in Seq(Told)' /\ line' \in Nat /\ line <= line'
    <3>1. line \in Nat /\ line' \in {line, line + 1} /\ outbox \in Seq(Told)
      BY SMTT(30), <2>10, WorkerSays DEF TypeInv, TypeOK
    <3>2. line' \in Nat /\ line <= line'
      BY <3>1
    <3>3. Told \subseteq Told' /\ Said \subseteq Told'
      <4>1. ASSUME NEW m \in Told PROVE m \in Told'
        <5>1. m \in Responses /\ (m.type = "SNAPSHOT" => m.line <= line /\ m.line \in Nat)
          BY <4>1, ResponsesAre DEF Told, Snapshots
        <5>2. m.type = "SNAPSHOT" => m.line <= line'
          BY SMTT(40), <3>1, <3>2, <5>1
        <5>3. QED BY <5>1, <5>2 DEF Told
      <4>2. Said \subseteq Told'
        BY SayingsAre DEF Told, Said
      <4>3. QED BY <4>1, <4>2
    <3>4. outbox \in Seq(Told')
      BY <3>1, <3>3, SeqMonotonic
    <3>5. CASE SavesNow
      <4> DEFINE m == [type |-> "SAVE_DATA", request |-> Head(inbox).request,
                       save |-> game, purpose |-> Head(inbox).purpose]
      <4>1. Head(inbox) \in SaveRequests
        BY <3>5, Handled, OrdersAre DEF SavesNow, WorkerSave
      <4>2. game \in Games
        BY SMTT(30), <3>5 DEF SavesNow, TypeInv, TypeOK
      <4>3. m \in SaveDatas
        BY <4>1, <4>2 DEF SaveRequests, SaveDatas
      <4>4. m \in Told'
        BY <4>3 DEF Told, Responses, SaveDatas
      <4>5. outbox' = Append(outbox, m)
        BY <3>5 DEF SavesNow
      <4> HIDE DEF m
      <4>6. QED BY <3>2, <3>4, <4>4, <4>5, AppendProperties
    <3>6. CASE \E said \in Seq(Said) : outbox' = outbox \o said
      <4>1. PICK said \in Seq(Said) : outbox' = outbox \o said
        BY <3>6
      <4>2. said \in Seq(Told')
        BY <3>3, SeqMonotonic
      <4>3. QED BY <3>2, <3>4, <4>1, <4>2, ConcatProperties
    <3>7. QED BY <2>10, <3>5, <3>6, WorkerSays
  <2>11. ASSUME WorkerHandles
         PROVE  /\ inbox' \in Seq(Orders)
                /\ UNCHANGED <<counter, refs, ui, workerFailure, storage, tickets, spent>>
    <3>1. PICK type : Handles(type)
      BY <2>11
         DEF WorkerHandles, WorkerInit, WorkerLoad, WorkerRefusesLoad, WorkerRefusesCommand,
         WorkerQueuesCommand, WorkerDecidesCommand, WorkerSetSpeed, WorkerControl, WorkerSave
    <3>2. QED BY <3>1, Handled
  <2>12. CASE WorkerHandles
    <3>1. ASSUME game' \in Games \cup {None}, workerSpeed' \in {0, 1}, halted' \in BOOLEAN,
                 queue' \in Seq(Commands), owed' \in Seq(Commands),
                 unsaved' \subseteq Tickets
          PROVE  TypeInv'
      <4>1. lastLine' \in 0 .. line'
        <5>1. lastLine' = lastLine /\ line' \in Nat /\ line <= line'
          BY <2>10, <2>11, <2>12 DEF refs
        <5>2. line \in Nat /\ lastLine \in 0 .. line
          BY DEF TypeInv, TypeOK
        <5>3. QED BY <5>1, <5>2
      <4>2. TypeOK'
        BY SMTT(90), <2>10, <2>11, <2>12, <3>1, <4>1 DEF TypeInv, TypeOK, refs, ui, storage, Commands
      <4>3. QED BY <2>10, <2>11, <2>12, <4>2 DEF TypeInv
    <3>2. /\ game \in Games \cup {None} /\ workerSpeed \in {0, 1} /\ halted \in BOOLEAN
          /\ queue \in Seq(Commands) /\ owed \in Seq(Commands) /\ unsaved \subseteq Tickets
      BY DEF TypeInv, TypeOK, Commands
    <3>3. <<>> \in Seq(Commands) /\ owed \o queue \in Seq(Commands)
      BY RefusedAre
    <3>4. CASE WorkerInit
      <4>1. [month |-> 0, applied |-> {}] \in Games
        BY DEF Games
      <4>2. QED BY <3>1, <3>2, <3>3, <3>4, <4>1 DEF WorkerInit, StartsGame
    <3>5. CASE WorkerLoad
      <4>1. Head(inbox).save \in Games
        BY <3>5, Handled, OrdersAre DEF WorkerLoad, LoadGames
      <4>2. QED BY <3>1, <3>2, <3>3, <3>5, <4>1 DEF WorkerLoad, StartsGame
    <3>6. CASE WorkerRefusesLoad \/ WorkerRefusesCommand
      BY <3>1, <3>2, <3>6 DEF WorkerRefusesLoad, WorkerRefusesCommand, worker
    <3>7. CASE WorkerQueuesCommand
      BY <3>1, <3>2, <3>7, QueueJoined DEF WorkerQueuesCommand
    <3>8. CASE WorkerDecidesCommand
      <4> DEFINE q == Append(queue, Head(inbox))
      <4>1. Handles("COMMAND") /\ game # None
        BY <3>8 DEF WorkerDecidesCommand
      <4>2. PICK yes \in SUBSET DOMAIN q : Decide(q, yes, game.month)
        BY <3>8 DEF WorkerDecidesCommand
      <4>3. game.month \in 0 .. MaxMonth
        BY SMTT(30), <4>1 DEF TypeInv, TypeOK, Games
      <4>4. game' \in Games
        BY <4>1, <4>2, <4>3, QueueJoined, DecisionSays
      <4>5. QED BY <3>1, <3>2, <3>3, <4>2, <4>4 DEF Decide
    <3>9. CASE WorkerSetSpeed
      <4>1. Head(inbox).speed \in {0, 1}
        BY <3>9, Handled, OrdersAre DEF WorkerSetSpeed
      <4>2. QED BY <3>1, <3>2, <3>9, <4>1 DEF WorkerSetSpeed
    <3>10. CASE \E type \in {"PAUSE", "RESUME"} : WorkerControl(type)
      BY <3>1, <3>2, <3>10 DEF WorkerControl
    <3>11. CASE WorkerSave
      BY <3>1, <3>2, <3>11 DEF WorkerSave
    <3>12. QED
      BY <2>12, <3>4, <3>5, <3>6, <3>7, <3>8, <3>9, <3>10, <3>11 DEF WorkerHandles
  <2>13. CASE WorkerTick
    <3>1. PICK yes \in SUBSET DOMAIN queue, months \in {0, 1} :
            /\ game.month + months <= MaxMonth /\ Decide(queue, yes, game.month + months)
            /\ IF queue = <<>> /\ months = 0 THEN Spend("ticks", MaxTicks)
               ELSE UNCHANGED spent
      BY <2>13 DEF WorkerTick
    <3>2. game # None
      BY <2>13 DEF WorkerTick
    <3>3. game.month + months \in 0 .. MaxMonth
      <4>1. game.month \in 0 .. MaxMonth /\ MaxMonth \in Nat
        BY SMTT(30), <3>2 DEF TypeInv, TypeOK, Games
      <4>2. QED BY <3>1, <4>1
    <3>4. game' \in Games
      BY <3>1, <3>2, <3>3, QueueIs, DecisionSays
    <3>5. spent' \in [Kinds -> Nat]
      BY <3>1, Spent DEF Kinds, TypeInv
    <3>6. queue' = <<>> /\ UNCHANGED <<workerSpeed, halted, owed, line, unsaved>>
      BY <3>1 DEF Decide
    <3>7. UNCHANGED <<inbox, counter, refs, ui, workerFailure, storage, tickets>>
      BY <2>13 DEF WorkerTick
    <3>8. <<>> \in Seq([type : {"COMMAND"}, request : Requests, ticket : 0 .. MaxCommands])
      OBVIOUS
    <3>9. TypeOK'
      BY SMTT(30), <3>4, <3>6, <3>7, <3>8 DEF TypeInv, TypeOK, refs, ui, storage
    <3>10. QED BY <2>10, <2>13, <3>5, <3>7, <3>9 DEF TypeInv
  <2>14. CASE WorkerThrows
    <3>1. spent' \in [Kinds -> Nat]
      BY <2>14, Spent DEF WorkerThrows, Kinds
    <3>2. /\ queue' = <<>> /\ owed' = owed \o queue /\ workerSpeed' = 0 /\ halted' = TRUE
          /\ UNCHANGED <<game, line, unsaved, inbox, counter, refs, ui, workerFailure,
                         storage, tickets>>
      BY <2>14 DEF WorkerThrows
    <3>3. {<<>>, owed \o queue} \subseteq
            Seq([type : {"COMMAND"}, request : Requests, ticket : 0 .. MaxCommands])
      BY RefusedAre DEF Commands
    <3>4. TypeOK'
      BY SMTT(30), <3>2, <3>3 DEF TypeInv, TypeOK, refs, ui, storage
    <3>5. QED BY <2>10, <2>14, <3>1, <3>2, <3>4 DEF TypeInv
  <2>15. CASE WorkerStops
    <3>1. spent' \in [Kinds -> Nat]
      BY <2>15, Spent DEF WorkerStops, Kinds
    <3>2. /\ workerFailure' = TRUE
          /\ UNCHANGED <<worker, inbox, outbox, counter, refs, ui, storage, tickets>>
      BY <2>15 DEF WorkerStops
    <3>3. QED BY SMTT(30), <3>1, <3>2 DEF TypeInv, TypeOK, worker, refs, ui, storage, Told
  <2>16. ASSUME Listens
         PROVE  /\ outbox' \in Seq(Told)'
                /\ UNCHANGED <<worker, workerFailure, tickets, spent>>
    <3>1. PICK type : Receives(type)
      BY <2>16 DEF Listens, OnSnapshot, OnVerdict, OnSimulationError, OnSaveData
    <3>2. outbox' \in Seq(Told) /\ UNCHANGED <<worker, workerFailure, tickets, spent>>
      BY <3>1, Heard
    <3>3. QED BY <3>2 DEF Told, worker
  <2>17. CASE OnSnapshot
    <3>1. PICK reason \in {None, "year", "month"} : Autosave(reason)
      BY <2>17, ReasonsAre DEF OnSnapshot
    <3>2. /\ inbox' \in Seq(Orders) /\ counter' \in Requests \cup {0}
          /\ pendingSlots' \in [Requests -> SlotNames \cup {None}]
      BY <3>1, Autosaved
    <3>3. Head(outbox) \in Snapshots /\ Head(outbox).line <= line
      BY <2>17, Heard, ResponsesAre DEF OnSnapshot, Told
    <3>4. /\ lastPoint' \in 0 .. MaxMonth /\ lastLine' \in 0 .. line
          /\ loading' = FALSE /\ loadCompletion' \in BOOLEAN
          /\ UNCHANGED <<ui, storage>>
      <4>1. Head(outbox).month \in 0 .. MaxMonth /\ Head(outbox).line \in Nat
        BY <3>3 DEF Snapshots
      <4>2. line \in Nat /\ loadCompletion \in BOOLEAN /\ loading \in BOOLEAN
        BY DEF TypeInv, TypeOK
      <4>3. Head(outbox).line \in 0 .. line
        BY <3>3, <4>1, <4>2
      <4>4. QED BY <2>17, <4>1, <4>2, <4>3 DEF OnSnapshot
    <3>5. UNCHANGED <<worker, workerFailure, tickets, spent>> /\ outbox' \in Seq(Told)'
      BY <2>16, <2>17 DEF Listens
    <3>6. lastLine' \in 0 .. line'
      BY <3>4, <3>5 DEF worker
    <3>7. TypeOK'
      BY ZenonT(30), <3>2, <3>4, <3>5, <3>6 DEF TypeInv, TypeOK, worker, ui, storage
    <3>8. QED BY <3>2, <3>5, <3>7 DEF TypeInv
  <2>18. ASSUME NEW type \in {"COMMAND_ACCEPTED", "COMMAND_REJECTED"},
                NEW status \in {"accepted", "rejected"}, OnVerdict(type, status)
         PROVE  TypeInv'
    <3>1. Head(outbox) \in VerdictMessages
      BY <2>18, Heard, ResponsesAre DEF OnVerdict, Told
    <3>2. Head(outbox).ticket \in 0 .. MaxCommands \cup {None}
      BY <3>1 DEF VerdictMessages
    <3>3. /\ UNCHANGED <<worker, workerFailure, tickets, spent>>
          /\ outbox' \in Seq(Told)
      BY <2>18, Heard DEF OnVerdict
    <3>4. UNCHANGED <<inbox, counter, refs, storage>>
      BY <2>18 DEF OnVerdict
    <3>5. /\ answered' \in [control : 0 .. MaxCommands \cup {None},
                            command : 0 .. MaxCommands \cup {None}]
          /\ control' \in {control, None} /\ speed' \in {0, 1, speed}
          /\ {pauseStatus', commandStatus'} \subseteq Statuses /\ current' = current
      <4>1. /\ answered \in [control : 0 .. MaxCommands \cup {None},
                             command : 0 .. MaxCommands \cup {None}]
            /\ {pauseStatus, commandStatus} \subseteq Statuses /\ status \in Statuses
        BY DEF TypeInv, TypeOK, Statuses
      <4>2. /\ \/ answered' = [answered EXCEPT !.control = Head(outbox).ticket]
               \/ answered' = [answered EXCEPT !.command = Head(outbox).ticket]
               \/ answered' = answered
            /\ control' \in {control, None} /\ speed' \in {0, 1, speed}
            /\ pauseStatus' \in {pauseStatus, status} /\ current' = current
            /\ commandStatus' \in {commandStatus, status}
        BY <2>18 DEF OnVerdict
      <4>3. QED BY <3>2, <4>1, <4>2
    <3>6. TypeOK'
      <4>1. UNCHANGED <<game, workerSpeed, halted, queue, owed, line, unsaved, workerFailure,
                        tickets, counter, pendingSlots, lastPoint, lastLine, loading, loadCompletion,
                        slots, newest>>
        BY <3>3, <3>4 DEF worker, refs, storage
      <4>2. TypeOK
        BY DEF TypeInv
      <4>3. QED BY SMTT(30), <3>5, <4>1, <4>2 DEF TypeOK
    <3>7. QED BY <3>3, <3>4, <3>6 DEF TypeInv, Told, worker
  <2>19. CASE OnSimulationError
    <3>1. UNCHANGED <<worker, workerFailure, tickets, spent>> /\ outbox' \in Seq(Told)'
      BY <2>16, <2>19 DEF Listens
    <3>2. /\ loading' \in BOOLEAN /\ loadCompletion' \in BOOLEAN
          /\ UNCHANGED <<inbox, counter, pendingSlots, lastPoint, lastLine, ui, storage>>
      BY ZenonT(30), <2>19 DEF OnSimulationError, TypeInv, TypeOK
    <3>3. TypeOK'
      <4>1. UNCHANGED <<game, workerSpeed, halted, queue, owed, line, unsaved, workerFailure,
                        tickets, counter, pendingSlots, lastPoint, lastLine, speed, pauseStatus, control,
                        current, commandStatus, answered, slots, newest>>
        BY <3>1, <3>2 DEF worker, ui, storage
      <4>2. TypeOK
        BY DEF TypeInv
      <4>3. QED BY SMTT(30), <3>2, <4>1, <4>2 DEF TypeOK
    <3>4. QED BY <3>1, <3>2, <3>3 DEF TypeInv
  <2>20. CASE OnSaveData
    <3>1. UNCHANGED <<worker, workerFailure, tickets, spent>> /\ outbox' \in Seq(Told)'
      BY <2>16, <2>20 DEF Listens
    <3> DEFINE slot == IF pendingSlots[Head(outbox).request] = None THEN "manual"
                       ELSE pendingSlots[Head(outbox).request]
               entry == [save |-> Head(outbox).save, purpose |-> Head(outbox).purpose]
    <3>2. Head(outbox) \in SaveDatas
      BY <2>20, Heard, ResponsesAre DEF OnSaveData, Told
    <3>3. entry \in Entries /\ slot \in SlotNames
      BY SMTT(30), <3>2 DEF SaveDatas, Entries, TypeInv, TypeOK, SlotNames
    <3>4. /\ \/ slots' = [slots EXCEPT ![slot] = entry] /\ newest' = entry
             \/ UNCHANGED storage
          /\ pendingSlots' = [pendingSlots EXCEPT ![Head(outbox).request] = None]
          /\ UNCHANGED <<inbox, counter, lastPoint, lastLine, loading, loadCompletion, ui>>
      BY <2>20 DEF OnSaveData
    <3> HIDE DEF slot, entry
    <3>5. /\ slots' \in [SlotNames -> Entries \cup {None}] /\ newest' \in Entries \cup {None}
          /\ pendingSlots' \in [Requests -> SlotNames \cup {None}]
      <4>1. /\ slots \in [SlotNames -> Entries \cup {None}] /\ newest \in Entries \cup {None}
            /\ pendingSlots \in [Requests -> SlotNames \cup {None}]
        BY DEF TypeInv, TypeOK
      <4>2. pendingSlots' \in [Requests -> SlotNames \cup {None}]
        BY <3>4, <4>1
      <4>3. slots' \in [SlotNames -> Entries \cup {None}]
        BY <3>3, <3>4, <4>1 DEF storage
      <4>4. newest' \in Entries \cup {None}
        BY <3>3, <3>4, <4>1 DEF storage
      <4>5. QED BY <4>2, <4>3, <4>4
    <3>6. TypeOK'
      BY SMTT(30), <3>1, <3>4, <3>5 DEF TypeInv, TypeOK, worker, ui
    <3>7. QED BY <3>1, <3>4, <3>6 DEF TypeInv
  <2>21. CASE UNCHANGED vars
    BY SMTT(30), <2>21 DEF vars, worker, refs, ui, storage, TypeInv, TypeOK, Told
  <2>22. QED
    BY <2>1, <2>2, <2>3, <2>4, <2>5, <2>6, <2>7, <2>8, <2>9, <2>12, <2>13, <2>14, <2>15,
       <2>17, <2>18, <2>19, <2>20, <2>21 DEF Next, Player, Listens
<1>3. QED BY <1>1, <1>2, PTL DEF Spec

-----------------------------------------------------------------------------
\* The requests for a save are numbered upwards all along their way to the worker and
\* back, and the slot of each is the one it asked for until its answer is read.
Rise(s, type) ==
  \A i, j \in 1 .. Len(s) :
    i < j /\ s[i].type = type /\ s[j].type = type => s[i].request < s[j].request

Numbers(s, type) == {s[i].request : i \in {j \in 1 .. Len(s) : s[j].type = type}}

Asked == Numbers(inbox, "REQUEST_SAVE")

Answered == Numbers(outbox, "SAVE_DATA")

SavesInOrder ==
  /\ Rise(inbox, "REQUEST_SAVE") /\ Rise(outbox, "SAVE_DATA")
  /\ \A r \in Answered, q \in Asked : r < q

Asking ==
  {m \in Orders : m.type = "REQUEST_SAVE" =>
     m.request <= counter /\ pendingSlots[m.request] = m.purpose.slot}

Awaited ==
  {m \in Responses : m.type = "SAVE_DATA" =>
     m.request <= counter /\ pendingSlots[m.request] = m.purpose.slot}

SlotsInv ==
  /\ inbox \in Seq(Asking) /\ outbox \in Seq(Awaited)
  /\ SavesInOrder
  /\ SaveLandsInItsSlot

\* What is left of a channel whose oldest message is taken.
LEMMA RiseTail ==
  ASSUME NEW S, NEW s \in Seq(S), s # <<>>, NEW type, Rise(s, type)
  PROVE  /\ Rise(Tail(s), type) /\ Numbers(Tail(s), type) \subseteq Numbers(s, type)
         /\ Head(s).type = type =>
              /\ Head(s).request \in Numbers(s, type)
              /\ \A r \in Numbers(Tail(s), type) : Head(s).request < r
<1> DEFINE t == Tail(s)
<1>1. /\ Len(s) \in Nat /\ Len(s) > 0 /\ Len(t) = Len(s) - 1
      /\ \A i \in 1 .. Len(t) : t[i] = s[i + 1]
  BY HeadTailProperties, LenProperties
<1>2. Head(s) = s[1] /\ 1 \in 1 .. Len(s)
  BY <1>1
<1> HIDE DEF t
<1>3. \A i \in 1 .. Len(t) : i + 1 \in 1 .. Len(s) /\ t[i] = s[i + 1] /\ 1 < i + 1
  BY <1>1
<1>4. Rise(t, type)
  <2>1. SUFFICES ASSUME NEW i \in 1 .. Len(t), NEW j \in 1 .. Len(t), i < j,
                        t[i].type = type, t[j].type = type
                 PROVE  t[i].request < t[j].request
    BY DEF Rise
  <2>2. i + 1 < j + 1
    BY <1>1, <2>1
  <2>3. QED BY <1>3, <2>1, <2>2 DEF Rise
<1>5. Numbers(t, type) \subseteq Numbers(s, type)
  BY <1>3 DEF Numbers
<1>6. ASSUME Head(s).type = type
      PROVE  /\ Head(s).request \in Numbers(s, type)
             /\ \A r \in Numbers(t, type) : Head(s).request < r
  <2>1. Head(s).request \in Numbers(s, type)
    BY <1>2, <1>6 DEF Numbers
  <2>2. ASSUME NEW r \in Numbers(t, type) PROVE Head(s).request < r
    <3>1. PICK i \in 1 .. Len(t) : t[i].type = type /\ r = t[i].request
      BY <2>2 DEF Numbers
    <3>2. QED BY <1>2, <1>3, <1>6, <3>1 DEF Rise
  <2>3. QED BY <2>1, <2>2
<1>7. QED BY <1>4, <1>5, <1>6 DEF t

\* A channel that a message joins.
LEMMA RiseAppend ==
  ASSUME NEW S, NEW s \in Seq(S), NEW m \in S, NEW type, Rise(s, type),
         m.type = type => \A r \in Numbers(s, type) : r < m.request
  PROVE  /\ Rise(Append(s, m), type)
         /\ Numbers(Append(s, m), type) \subseteq
              Numbers(s, type) \cup {r \in {m.request} : m.type = type}
<1> DEFINE t == Append(s, m)
<1>1. /\ Len(s) \in Nat /\ Len(t) = Len(s) + 1
      /\ \A i \in 1 .. Len(s) : t[i] = s[i]
      /\ t[Len(s) + 1] = m
  BY AppendProperties, LenProperties
<1> HIDE DEF t
<1>2. \A i \in 1 .. Len(t) : \/ i \in 1 .. Len(s) /\ t[i] = s[i]
                             \/ i = Len(s) + 1 /\ t[i] = m
  BY <1>1
<1>3. \A i \in 1 .. Len(s) : s[i].type = type => s[i].request \in Numbers(s, type)
  BY DEF Numbers
<1>4. Rise(t, type)
  <2>1. SUFFICES ASSUME NEW i \in 1 .. Len(t), NEW j \in 1 .. Len(t), i < j,
                        t[i].type = type, t[j].type = type
                 PROVE  t[i].request < t[j].request
    BY DEF Rise
  <2>2. i \in 1 .. Len(s) /\ t[i] = s[i]
    BY <1>1, <1>2, <2>1
  <2>3. CASE j \in 1 .. Len(s) /\ t[j] = s[j]
    BY <2>1, <2>2, <2>3 DEF Rise
  <2>4. CASE t[j] = m
    BY <1>3, <2>1, <2>2, <2>4
  <2>5. QED BY <1>2, <2>3, <2>4
<1>5. Numbers(t, type) \subseteq Numbers(s, type) \cup {r \in {m.request} : m.type = type}
  <2>1. SUFFICES ASSUME NEW i \in 1 .. Len(t), t[i].type = type
                 PROVE  \/ t[i].request \in Numbers(s, type)
                        \/ t[i].request = m.request /\ m.type = type
    BY DEF Numbers
  <2>2. QED BY <1>2, <1>3, <2>1
<1>6. QED BY <1>4, <1>5 DEF t

\* A channel that only other messages join.
LEMMA RiseSilent ==
  ASSUME NEW S, NEW s \in Seq(S), NEW t \in Seq(S), NEW type, Rise(s, type),
         \A i \in 1 .. Len(t) : t[i].type # type
  PROVE  Rise(s \o t, type) /\ Numbers(s \o t, type) \subseteq Numbers(s, type)
<1> DEFINE u == s \o t
<1>1. /\ Len(s) \in Nat /\ Len(t) \in Nat /\ Len(u) = Len(s) + Len(t)
      /\ \A i \in 1 .. Len(s) + Len(t) :
           u[i] = IF i <= Len(s) THEN s[i] ELSE t[i - Len(s)]
  BY ConcatProperties, LenProperties
<1> HIDE DEF u
<1>2. ASSUME NEW i \in 1 .. Len(u), u[i].type = type
      PROVE  i \in 1 .. Len(s) /\ u[i] = s[i]
  <2>1. CASE i <= Len(s)
    BY <1>1, <2>1
  <2>2. CASE i > Len(s)
    <3>1. i - Len(s) \in 1 .. Len(t) /\ u[i] = t[i - Len(s)]
      BY <1>1, <2>2
    <3>2. QED BY <1>2, <3>1
  <2>3. QED BY <1>1, <2>1, <2>2
<1>3. Rise(u, type)
  BY <1>2 DEF Rise
<1>4. Numbers(u, type) \subseteq Numbers(s, type)
  BY <1>2 DEF Numbers
<1>5. QED BY <1>3, <1>4 DEF u

\* A sequence is one over any set that has its elements.
LEMMA SeqOf ==
  ASSUME NEW S, NEW s \in Seq(S), NEW T, \A i \in 1 .. Len(s) : s[i] \in T
  PROVE  s \in Seq(T)
<1>1. Len(s) \in Nat /\ DOMAIN s = 1 .. Len(s) /\ s = [i \in 1 .. Len(s) |-> s[i]]
  BY LenProperties
<1>2. [i \in 1 .. Len(s) |-> s[i]] \in Seq(T)
  BY <1>1, IsASeq
<1>3. QED BY <1>1, <1>2

\* A step that asks for no save and answers none.
LEMMA SavesKept ==
  ASSUME TypeInv, SlotsInv, UNCHANGED <<pendingSlots, storage>>,
         counter' \in Nat, counter <= counter',
         \/ inbox' = inbox
         \/ inbox # <<>> /\ inbox' = Tail(inbox)
         \/ \E t \in Seq(Orders \ SaveRequests) : inbox' = inbox \o t,
         \/ outbox' = outbox
         \/ outbox # <<>> /\ outbox' = Tail(outbox)
         \/ \E t \in Seq(Responses \ SaveDatas) : outbox' = outbox \o t
  PROVE  SlotsInv'
<1>1. counter \in Nat /\ inbox \in Seq(Asking) /\ outbox \in Seq(Awaited)
  BY DEF TypeInv, TypeOK, SlotsInv, Requests
<1>2. Asking \subseteq Asking' /\ Awaited \subseteq Awaited'
  <2>1. ASSUME NEW m \in Asking PROVE m \in Asking'
    <3>1. m \in Orders /\ (m.type = "REQUEST_SAVE" =>
             m.request \in Nat /\ m.request <= counter
             /\ pendingSlots[m.request] = m.purpose.slot)
      BY <2>1, OrdersAre DEF Asking, SaveRequests, Requests
    <3>2. m.type = "REQUEST_SAVE" => m.request <= counter'
      BY <1>1, <3>1
    <3>3. QED BY <3>1, <3>2 DEF Asking
  <2>2. ASSUME NEW m \in Awaited PROVE m \in Awaited'
    <3>1. m \in Responses /\ (m.type = "SAVE_DATA" =>
             m.request \in Nat /\ m.request <= counter
             /\ pendingSlots[m.request] = m.purpose.slot)
      BY <2>2, ResponsesAre DEF Awaited, SaveDatas, Requests
    <3>2. m.type = "SAVE_DATA" => m.request <= counter'
      BY <1>1, <3>1
    <3>3. QED BY <3>1, <3>2 DEF Awaited
  <2>3. QED BY <2>1, <2>2
<1>3. inbox \in Seq(Asking') /\ outbox \in Seq(Awaited')
  BY <1>1, <1>2, SeqMonotonic
<1>4. Rise(inbox, "REQUEST_SAVE") /\ Rise(outbox, "SAVE_DATA")
  BY DEF SlotsInv, SavesInOrder
<1>5. /\ inbox' \in Seq(Asking') /\ Rise(inbox', "REQUEST_SAVE")
      /\ Numbers(inbox', "REQUEST_SAVE") \subseteq Numbers(inbox, "REQUEST_SAVE")
  <2>1. CASE inbox' = inbox
    BY <1>3, <1>4, <2>1
  <2>2. CASE inbox # <<>> /\ inbox' = Tail(inbox)
    BY <1>3, <1>4, <2>2, RiseTail, HeadTailProperties
  <2>3. CASE \E t \in Seq(Orders \ SaveRequests) : inbox' = inbox \o t
    <3>1. PICK t \in Seq(Orders \ SaveRequests) : inbox' = inbox \o t
      BY <2>3
    <3>2. \A m \in Orders \ SaveRequests : m \in Asking' /\ m.type # "REQUEST_SAVE"
      BY OrdersAre DEF Asking
    <3>3. t \in Seq(Asking')
      BY <3>2, SeqMonotonic
    <3>4. \A i \in 1 .. Len(t) : t[i].type # "REQUEST_SAVE"
      BY <3>1, <3>2, ElementOfSeq
    <3>5. QED BY <1>3, <1>4, <3>1, <3>3, <3>4, RiseSilent, ConcatProperties
  <2>4. QED BY <2>1, <2>2, <2>3
<1>6. /\ outbox' \in Seq(Awaited') /\ Rise(outbox', "SAVE_DATA")
      /\ Numbers(outbox', "SAVE_DATA") \subseteq Numbers(outbox, "SAVE_DATA")
  <2>1. CASE outbox' = outbox
    BY <1>3, <1>4, <2>1
  <2>2. CASE outbox # <<>> /\ outbox' = Tail(outbox)
    BY <1>3, <1>4, <2>2, RiseTail, HeadTailProperties
  <2>3. CASE \E t \in Seq(Responses \ SaveDatas) : outbox' = outbox \o t
    <3>1. PICK t \in Seq(Responses \ SaveDatas) : outbox' = outbox \o t
      BY <2>3
    <3>2. \A m \in Responses \ SaveDatas : m \in Awaited' /\ m.type # "SAVE_DATA"
      BY ResponsesAre DEF Awaited
    <3>3. t \in Seq(Awaited')
      BY <3>2, SeqMonotonic
    <3>4. \A i \in 1 .. Len(t) : t[i].type # "SAVE_DATA"
      BY <3>1, <3>2, ElementOfSeq
    <3>5. QED BY <1>3, <1>4, <3>1, <3>3, <3>4, RiseSilent, ConcatProperties
  <2>4. QED BY <2>1, <2>2, <2>3
<1>7. SavesInOrder'
  BY <1>5, <1>6 DEF SlotsInv, SavesInOrder, Asked, Answered
<1>8. SaveLandsInItsSlot'
  BY DEF SlotsInv, SaveLandsInItsSlot, storage
<1>9. QED BY <1>5, <1>6, <1>7, <1>8 DEF SlotsInv

\* A step that asks for a save, with the next number and for its slot.
LEMMA SaveAsked ==
  ASSUME TypeInv, SlotsInv, UNCHANGED storage,
         NEW m \in SaveRequests, NEW t \in Seq(Orders \ SaveRequests),
         m.request = counter + 1, counter' \in Nat, counter < counter',
         inbox' = Append(inbox, m) \o t,
         pendingSlots' = [pendingSlots EXCEPT ![m.request] = m.purpose.slot],
         outbox' = outbox \/ (outbox # <<>> /\ outbox' = Tail(outbox))
  PROVE  SlotsInv'
<1>1. /\ counter \in Nat /\ inbox \in Seq(Asking) /\ outbox \in Seq(Awaited)
      /\ pendingSlots \in [Requests -> SlotNames \cup {None}]
  BY DEF TypeInv, TypeOK, SlotsInv, Requests
<1>2. m \in Asking'
  <2>1. m.request \in Requests /\ m \in Orders
    BY DEF SaveRequests, Orders
  <2>2. pendingSlots'[m.request] = m.purpose.slot /\ m.request <= counter'
    BY <1>1, <2>1
  <2>3. QED BY <2>1, <2>2 DEF Asking
<1>3. Asking \subseteq Asking' /\ Awaited \subseteq Awaited'
  <2>1. ASSUME NEW n \in Asking PROVE n \in Asking'
    <3>1. n \in Orders /\ (n.type = "REQUEST_SAVE" =>
             n.request \in Requests /\ n.request \in Nat /\ n.request <= counter
             /\ pendingSlots[n.request] = n.purpose.slot)
      BY <2>1, OrdersAre DEF Asking, SaveRequests, Requests
    <3>2. n.type = "REQUEST_SAVE" =>
            n.request <= counter' /\ pendingSlots'[n.request] = n.purpose.slot
      BY <1>1, <3>1
    <3>3. QED BY <3>1, <3>2 DEF Asking
  <2>2. ASSUME NEW n \in Awaited PROVE n \in Awaited'
    <3>1. n \in Responses /\ (n.type = "SAVE_DATA" =>
             n.request \in Requests /\ n.request \in Nat /\ n.request <= counter
             /\ pendingSlots[n.request] = n.purpose.slot)
      BY <2>2, ResponsesAre DEF Awaited, SaveDatas, Requests
    <3>2. n.type = "SAVE_DATA" =>
            n.request <= counter' /\ pendingSlots'[n.request] = n.purpose.slot
      BY <1>1, <3>1
    <3>3. QED BY <3>1, <3>2 DEF Awaited
  <2>3. QED BY <2>1, <2>2
<1>4. inbox \in Seq(Asking') /\ outbox \in Seq(Awaited')
  BY <1>1, <1>3, SeqMonotonic
<1>5. Rise(inbox, "REQUEST_SAVE") /\ Rise(outbox, "SAVE_DATA")
  BY DEF SlotsInv, SavesInOrder
<1>6. /\ \A r \in Numbers(inbox, "REQUEST_SAVE") : r < m.request
      /\ \A r \in Numbers(outbox, "SAVE_DATA") : r < m.request
  <2>1. \A i \in 1 .. Len(inbox) : inbox[i] \in Asking
    BY <1>1, ElementOfSeq
  <2>2. \A i \in 1 .. Len(outbox) : outbox[i] \in Awaited
    BY <1>1, ElementOfSeq
  <2>3. \A n \in Asking : n.type = "REQUEST_SAVE" => n.request \in Nat /\ n.request <= counter
    BY OrdersAre DEF Asking, SaveRequests, Requests
  <2>4. \A n \in Awaited : n.type = "SAVE_DATA" => n.request \in Nat /\ n.request <= counter
    BY ResponsesAre DEF Awaited, SaveDatas, Requests
  <2>5. \A n \in Nat : n <= counter => n < m.request
    BY <1>1
  <2>6. QED BY <2>1, <2>2, <2>3, <2>4, <2>5 DEF Numbers
<1> DEFINE s == Append(inbox, m)
<1>7. /\ s \in Seq(Asking') /\ Rise(s, "REQUEST_SAVE")
      /\ Numbers(s, "REQUEST_SAVE") \subseteq Numbers(inbox, "REQUEST_SAVE") \cup {m.request}
  <2>1. s \in Seq(Asking')
    BY <1>2, <1>4, AppendProperties
  <2>2. /\ Rise(s, "REQUEST_SAVE")
        /\ Numbers(s, "REQUEST_SAVE") \subseteq
             Numbers(inbox, "REQUEST_SAVE") \cup {r \in {m.request} : m.type = "REQUEST_SAVE"}
    BY <1>2, <1>4, <1>5, <1>6, RiseAppend
  <2>3. QED BY <2>1, <2>2
<1> HIDE DEF s
<1>8. /\ inbox' \in Seq(Asking') /\ Rise(inbox', "REQUEST_SAVE")
      /\ Numbers(inbox', "REQUEST_SAVE") \subseteq Numbers(inbox, "REQUEST_SAVE") \cup {m.request}
  <2>1. \A n \in Orders \ SaveRequests : n \in Asking' /\ n.type # "REQUEST_SAVE"
    BY OrdersAre DEF Asking
  <2>2. t \in Seq(Asking')
    BY <2>1, SeqMonotonic
  <2>3. \A i \in 1 .. Len(t) : t[i].type # "REQUEST_SAVE"
    BY <2>1, ElementOfSeq
  <2>4. inbox' = s \o t
    BY DEF s
  <2>5. /\ inbox' \in Seq(Asking') /\ Rise(inbox', "REQUEST_SAVE")
        /\ Numbers(inbox', "REQUEST_SAVE") \subseteq Numbers(s, "REQUEST_SAVE")
    BY <1>7, <2>2, <2>3, <2>4, RiseSilent, ConcatProperties
  <2>6. QED BY <1>7, <2>5
<1>9. /\ outbox' \in Seq(Awaited') /\ Rise(outbox', "SAVE_DATA")
      /\ Numbers(outbox', "SAVE_DATA") \subseteq Numbers(outbox, "SAVE_DATA")
  <2>1. CASE outbox' = outbox
    BY <1>4, <1>5, <2>1
  <2>2. CASE outbox # <<>> /\ outbox' = Tail(outbox)
    BY <1>4, <1>5, <2>2, RiseTail, HeadTailProperties
  <2>3. QED BY <2>1, <2>2
<1>10. SavesInOrder'
  BY <1>6, <1>8, <1>9 DEF SlotsInv, SavesInOrder, Asked, Answered
<1>11. SaveLandsInItsSlot'
  BY DEF SlotsInv, SaveLandsInItsSlot, storage
<1>12. QED BY <1>8, <1>9, <1>10, <1>11 DEF SlotsInv

\* The messages that are posted, one by one.
LEMMA PostedOne ==
  ASSUME TypeInv, NEW m \in Orders, NEW minted, Posts(<<m>>, minted)
  PROVE  inbox' = Append(inbox, m) /\ inbox' = Append(inbox, m) \o <<>>
<1>1. inbox \in Seq(Orders) /\ inbox' = inbox \o <<m>>
  BY DEF TypeInv, Posts
<1>2. inbox' = Append(inbox, m) /\ Append(inbox, m) \in Seq(Orders)
  BY <1>1, AppendIsConcat, AppendProperties
<1>3. QED BY <1>2, ConcatEmptySeq

\* Two requests posted at once keep their order.
LEMMA PostedTwo ==
  ASSUME TypeInv, NEW m \in Orders, NEW n \in Orders, NEW minted, Posts(<<m, n>>, minted)
  PROVE  /\ inbox' = Append(Append(inbox, m), n)
         /\ inbox' = Append(inbox, m) \o <<n>>
<1>1. inbox \in Seq(Orders) /\ inbox' = inbox \o <<m, n>>
  BY DEF TypeInv, Posts
<1>2. <<m>> \in Seq(Orders) /\ <<n>> \in Seq(Orders) /\ <<m, n>> = <<m>> \o <<n>>
  <2>1. <<m>> \in Seq(Orders) /\ <<n>> \in Seq(Orders)
    OBVIOUS
  <2>2. Append(<<m>>, n) = <<m>> \o <<n>>
    BY <2>1, AppendIsConcat
  <2>3. <<m, n>> = Append(<<m>>, n)
    OBVIOUS
  <2>4. QED BY <2>1, <2>2, <2>3
<1>3. inbox' = (inbox \o <<m>>) \o <<n>>
  BY <1>1, <1>2, ConcatAssociative
<1>4. inbox \o <<m>> = Append(inbox, m) /\ Append(inbox, m) \in Seq(Orders)
  BY <1>1, AppendIsConcat, AppendProperties
<1>5. QED BY <1>3, <1>4, AppendIsConcat

\* Every request for a save, and every answer to one, has its slot waiting for it.
LEMMA SlotsInvariant == Spec => []SlotsInv
<1>1. ASSUME Init PROVE SlotsInv
  <2>1. /\ inbox = <<[type |-> "INIT_GAME"]>> /\ outbox = <<>>
        /\ slots = [s \in SlotNames |-> None]
    BY <1>1 DEF Init
  <2>2. inbox \in Seq(Asking)
    <3>1. [type |-> "INIT_GAME"] \in Asking
      BY DEF Asking, Orders, PlainOrders
    <3>2. QED BY <2>1, <3>1
  <2>3. outbox \in Seq(Awaited)
    BY <2>1
  <2>4. SavesInOrder
    BY <2>1 DEF SavesInOrder, Rise, Asked, Answered, Numbers
  <2>5. QED BY <2>1, <2>2, <2>3, <2>4 DEF SlotsInv, SaveLandsInItsSlot
<1>2. ASSUME TypeInv, SlotsInv, [Next]_vars PROVE SlotsInv'
  <2> USE <1>2
  <2>1. counter \in Nat
    BY DEF TypeInv, TypeOK, Requests
  <2>2. ASSUME NEW messages \in Seq(Orders \ SaveRequests), NEW minted \in {0, 1, 2},
               Posts(messages, minted), UNCHANGED pendingSlots
        PROVE  SlotsInv'
    <3>1. /\ counter' = counter + minted /\ inbox' = inbox \o messages
          /\ UNCHANGED <<outbox, storage>>
      BY <2>2 DEF Posts
    <3>2. counter' \in Nat /\ counter <= counter'
      BY <2>1, <3>1
    <3>3. QED BY <2>2, <3>1, <3>2, SavesKept
  <2>3. CASE \E s \in {0, 1} : SetSpeed(s)
    <3>1. PICK s \in {0, 1} : SetSpeed(s)
      BY <2>3
    <3>2. [type |-> "SET_SPEED", speed |-> s] \in Orders \ SaveRequests
      BY DEF Orders, PlainOrders, SaveRequests
    <3>3. <<[type |-> "SET_SPEED", speed |-> s]>> \in Seq(Orders \ SaveRequests)
      BY <3>2
    <3>4. QED BY <2>2, <3>1, <3>3 DEF SetSpeed, refs
  <2>4. CASE \E type \in {"PAUSE", "RESUME"} : RequestControl(type)
    <3>1. PICK type \in {"PAUSE", "RESUME"} : RequestControl(type)
      BY <2>4
    <3>2. [type |-> type, request |-> NextRequest] \in Orders \ SaveRequests
      BY <3>1, Minted DEF RequestControl, Orders, ControlOrders, SaveRequests
    <3>3. <<[type |-> type, request |-> NextRequest]>> \in Seq(Orders \ SaveRequests)
      BY <3>2
    <3>4. QED BY <2>2, <3>1, <3>3 DEF RequestControl, refs
  <2>5. CASE Save("manual")
    <3> DEFINE m == SaveRequest(NextRequest, Purpose("manual", 0, TRUE))
    <3>1. NextRequest \in Requests /\ "manual" \in SlotNames /\ 0 \in 0 .. MaxCommands
      BY <2>5, Minted, StoreAssumption DEF Save, SlotNames
    <3>2. m \in SaveRequests /\ m.request = counter + 1 /\ m.purpose.slot = "manual"
      BY <3>1, PurposesAre DEF SaveRequest, SaveRequests, Purpose, NextRequest
    <3>3. /\ Posts(<<m>>, 1)
          /\ pendingSlots' = [pendingSlots EXCEPT ![counter + 1] = "manual"]
      BY <2>5 DEF Save, NextRequest
    <3> HIDE DEF m
    <3>4. inbox' = Append(inbox, m) \o <<>> /\ <<>> \in Seq(Orders \ SaveRequests)
      BY <3>2, <3>3, PostedOne DEF Orders
    <3>5. /\ counter' = counter + 1 /\ UNCHANGED <<outbox, storage>>
      BY <3>3 DEF Posts
    <3>6. counter' \in Nat /\ counter < counter'
      BY <2>1, <3>5
    <3>7. QED BY <3>2, <3>3, <3>4, <3>5, <3>6, SaveAsked
  <2>6. CASE SendMinor
    <3>1. NextRequest \in Requests /\ tickets + 1 \in 0 .. MaxCommands
      BY SMTT(40), <2>6, Minted, StoreAssumption DEF SendMinor, TypeInv, TypeOK
    <3>2. Command(NextRequest, tickets + 1) \in Orders \ SaveRequests
      BY <3>1 DEF Command, Orders, Commands, SaveRequests
    <3>3. <<Command(NextRequest, tickets + 1)>> \in Seq(Orders \ SaveRequests)
      BY <3>2
    <3>4. Posts(<<Command(NextRequest, tickets + 1)>>, 1) /\ UNCHANGED pendingSlots
      BY <2>6 DEF SendMinor, refs
    <3>5. QED BY <2>2, <3>3, <3>4
  <2>7. CASE SendMajor
    <3> DEFINE m == PreSave(NextRequest)
               n == Command(NextRequest + 1, tickets + 1)
    <3>1. /\ NextRequest \in Requests /\ NextRequest + 1 \in Requests
          /\ "major-action" \in SlotNames /\ tickets + 1 \in 0 .. MaxCommands
      <4>1. NextRequest \in Requests /\ NextRequest + 1 \in Requests
        BY <2>7, Minted DEF SendMajor
      <4>2. tickets + 1 \in 0 .. MaxCommands
        <5>1. tickets < MaxCommands
          BY <2>7 DEF SendMajor
        <5>2. tickets \in 0 .. MaxCommands /\ MaxCommands \in Nat
          BY StoreAssumption DEF TypeInv, TypeOK
        <5>3. QED BY <5>1, <5>2
      <4>3. QED BY <4>1, <4>2 DEF SlotNames
    <3>2. m \in SaveRequests /\ m.request = counter + 1 /\ m.purpose.slot = "major-action"
      BY <3>1, PurposesAre DEF PreSave, SaveRequest, SaveRequests, Purpose, NextRequest
    <3>3. n \in Orders \ SaveRequests
      BY <3>1 DEF Command, Orders, Commands, SaveRequests
    <3>4. /\ Posts(<<m, n>>, 2)
          /\ pendingSlots' = [pendingSlots EXCEPT ![counter + 1] = "major-action"]
      BY <2>7 DEF SendMajor, NextRequest
    <3> HIDE DEF m, n
    <3>5. inbox' = Append(inbox, m) \o <<n>> /\ <<n>> \in Seq(Orders \ SaveRequests)
      BY <3>2, <3>3, <3>4, PostedTwo DEF Orders
    <3>6. counter' = counter + 2 /\ UNCHANGED <<outbox, storage>>
      BY <3>4 DEF Posts
    <3>7. counter' \in Nat /\ counter < counter'
      BY <2>1, <3>6
    <3>8. QED BY <3>2, <3>4, <3>5, <3>6, <3>7, SaveAsked
  <2>8. CASE AcknowledgeAlert
    <3>1. NextRequest \in Requests /\ 0 \in 0 .. MaxCommands
      BY <2>8, Minted, StoreAssumption DEF AcknowledgeAlert
    <3>2. Command(NextRequest, 0) \in Orders \ SaveRequests
      BY <3>1 DEF Command, Orders, Commands, SaveRequests
    <3>3. <<Command(NextRequest, 0)>> \in Seq(Orders \ SaveRequests)
      BY <3>2
    <3>4. QED BY <2>2, <2>8, <3>3 DEF AcknowledgeAlert, refs
  <2>9. CASE Load("manual")
    <3> DEFINE m == [type |-> "LOAD_GAME", save |-> Offered("manual").save]
    <3>1. Offered("manual") \in Entries
      BY <2>9 DEF Load, Offered, TypeInv, TypeOK, SlotNames
    <3>2. m \in Orders \ SaveRequests
      BY <3>1 DEF Entries, Orders, LoadGames, SaveRequests
    <3>3. <<m>> \in Seq(Orders \ SaveRequests)
      BY <3>2
    <3>4. Posts(<<m>>, 0) /\ UNCHANGED pendingSlots
      BY <2>9 DEF Load
    <3>5. QED BY <2>2, <3>3, <3>4
  <2>10. CASE Restart
    <3>1. [type |-> "INIT_GAME"] \in Orders \ SaveRequests
      BY DEF Orders, PlainOrders, SaveRequests
    <3>2. <<[type |-> "INIT_GAME"]>> \in Seq(Orders \ SaveRequests)
      BY <3>1
    <3>3. QED BY <2>2, <2>10, <3>2 DEF Restart, refs
  <2>11. CASE RecoverFromWorkerFailure
    <3> DEFINE load == [type |-> "LOAD_GAME", save |-> Offered("manual").save]
               start == [type |-> "INIT_GAME"]
    <3>1. Offered("manual") \in Entries
      BY <2>11 DEF RecoverFromWorkerFailure, Offered, TypeInv, TypeOK, SlotNames
    <3>2. start \in Asking' /\ load \in Asking'
      BY <3>1 DEF Asking, Entries, Orders, LoadGames, PlainOrders
    <3>3. inbox' = <<start, load>> /\ outbox' = <<>> /\ UNCHANGED storage
      BY <2>11 DEF RecoverFromWorkerFailure
    <3>4. start.type # "REQUEST_SAVE" /\ load.type # "REQUEST_SAVE"
      OBVIOUS
    <3> HIDE DEF load, start
    <3>5. inbox' \in Seq(Asking') /\ outbox' \in Seq(Awaited')
      BY <3>2, <3>3
    <3>6. \A i \in 1 .. Len(inbox') : inbox'[i].type # "REQUEST_SAVE"
      BY <3>3, <3>4
    <3>7. SavesInOrder'
      BY <3>3, <3>6 DEF SavesInOrder, Rise, Asked, Answered, Numbers
    <3>8. SaveLandsInItsSlot'
      BY <3>3 DEF SlotsInv, SaveLandsInItsSlot, storage
    <3>9. QED BY <3>5, <3>7, <3>8 DEF SlotsInv
  <2>12. ASSUME \/ WorkerHandles
                \/ WorkerTick \/ WorkerThrows
         PROVE  SlotsInv'
    <3>1. /\ inbox' = inbox \/ (inbox # <<>> /\ inbox' = Tail(inbox))
          /\ UNCHANGED <<counter, pendingSlots, storage>>
      <4>1. CASE WorkerHandles
        <5>1. PICK type : Handles(type)
          BY <4>1
             DEF WorkerHandles, WorkerInit, WorkerLoad, WorkerRefusesLoad, WorkerRefusesCommand,
             WorkerQueuesCommand, WorkerDecidesCommand, WorkerSetSpeed, WorkerControl, WorkerSave
        <5>2. QED BY <5>1 DEF Handles, refs
      <4>2. CASE WorkerTick \/ WorkerThrows
        BY <4>2 DEF WorkerTick, WorkerThrows, refs
      <4>3. QED BY <2>12, <4>1, <4>2
    <3>2. CASE \E said \in Seq(Said) : outbox' = outbox \o said
      <4>1. PICK said \in Seq(Said) : outbox' = outbox \o said
        BY <3>2
      <4>2. Said \subseteq Responses \ SaveDatas
        BY SayingsAre DEF Said, SaveDatas
      <4>3. said \in Seq(Responses \ SaveDatas)
        BY <4>2, SeqMonotonic
      <4>4. counter' \in Nat /\ counter <= counter'
        BY <2>1, <3>1
      <4>5. QED BY <3>1, <4>1, <4>3, <4>4, SavesKept
    <3>3. CASE SavesNow
      <4> DEFINE m == [type |-> "SAVE_DATA", request |-> Head(inbox).request,
                       save |-> game, purpose |-> Head(inbox).purpose]
      <4>1. /\ inbox \in Seq(Asking) /\ outbox \in Seq(Awaited)
            /\ SavesInOrder /\ SaveLandsInItsSlot
        BY DEF SlotsInv
      <4>2. /\ inbox # <<>> /\ inbox' = Tail(inbox) /\ Head(inbox) \in SaveRequests
            /\ Head(inbox).type = "REQUEST_SAVE"
        BY <3>3, Handled, OrdersAre DEF SavesNow, WorkerSave
      <4>3. Head(inbox) \in Asking /\ Tail(inbox) \in Seq(Asking)
        BY <4>1, <4>2, HeadTailProperties
      <4>4. game \in Games
        BY <3>3 DEF SavesNow, TypeInv, TypeOK
      <4>5. /\ m \in Awaited /\ m.type = "SAVE_DATA" /\ m.request = Head(inbox).request
        <5>1. m \in SaveDatas
          BY <4>2, <4>4 DEF SaveRequests, SaveDatas
        <5>2. QED BY <4>2, <4>3, <5>1 DEF Asking, Awaited, Responses
      <4>6. outbox' = Append(outbox, m)
        BY <3>3 DEF SavesNow
      <4> HIDE DEF m
      <4>7. /\ Rise(Tail(inbox), "REQUEST_SAVE")
            /\ Numbers(Tail(inbox), "REQUEST_SAVE") \subseteq Asked
            /\ m.request \in Asked
            /\ \A r \in Numbers(Tail(inbox), "REQUEST_SAVE") : m.request < r
        BY <4>1, <4>2, <4>5, RiseTail DEF SavesInOrder, Asked
      <4>8. /\ Rise(outbox', "SAVE_DATA")
            /\ Numbers(outbox', "SAVE_DATA") \subseteq
                 Answered \cup {r \in {m.request} : m.type = "SAVE_DATA"}
        BY <4>1, <4>5, <4>6, <4>7, RiseAppend DEF SavesInOrder, Answered
      <4>9. SavesInOrder'
        BY <4>1, <4>2, <4>7, <4>8 DEF SavesInOrder, Asked, Answered
      <4>10. Asking' = Asking /\ Awaited' = Awaited
        BY <3>1 DEF Asking, Awaited
      <4>11. inbox' \in Seq(Asking') /\ outbox' \in Seq(Awaited')
        BY <4>1, <4>2, <4>3, <4>5, <4>6, <4>10, AppendProperties
      <4>12. SaveLandsInItsSlot'
        BY <3>1, <4>1 DEF SaveLandsInItsSlot, storage
      <4>13. QED BY <4>9, <4>11, <4>12 DEF SlotsInv
    <3>4. QED BY <2>12, <3>2, <3>3, WorkerSays
  <2>13. CASE WorkerStops
    <3>1. UNCHANGED <<inbox, outbox, counter, pendingSlots, storage>>
      BY <2>13 DEF WorkerStops, refs
    <3>2. counter' \in Nat /\ counter <= counter'
      BY <2>1, <3>1
    <3>3. QED BY <3>1, <3>2, SavesKept
  <2>14. CASE OnSnapshot
    <3>1. outbox # <<>> /\ outbox' = Tail(outbox) /\ UNCHANGED storage
      BY <2>14, Heard DEF OnSnapshot
    <3>2. PICK reason \in {None, "year", "month"} : Autosave(reason)
      BY <2>14, ReasonsAre DEF OnSnapshot
    <3>3. CASE reason = None
      <4>1. UNCHANGED <<inbox, counter, pendingSlots>>
        BY <3>2, <3>3 DEF Autosave
      <4>2. counter' \in Nat /\ counter <= counter'
        BY <2>1, <4>1
      <4>3. QED BY <3>1, <4>1, <4>2, SavesKept
    <3>4. CASE reason # None
      <4> DEFINE timely == lastLine = Head(outbox).line
                 m == SaveRequest(NextRequest, Purpose(reason, 0, timely))
      <4>1. /\ NextRequest \in Requests /\ counter' = NextRequest
            /\ inbox' = Append(inbox, m)
            /\ pendingSlots' = [pendingSlots EXCEPT ![NextRequest] = reason]
        BY <3>2, <3>4 DEF Autosave
      <4>2. reason \in SlotNames /\ timely \in BOOLEAN /\ 0 \in 0 .. MaxCommands
        BY <3>4, StoreAssumption DEF SlotNames
      <4> HIDE DEF timely
      <4>3. m \in SaveRequests /\ m.request = counter + 1 /\ m.purpose.slot = reason
        BY <4>1, <4>2, PurposesAre DEF SaveRequest, SaveRequests, Purpose, NextRequest
      <4> HIDE DEF m
      <4>4. inbox' = Append(inbox, m) \o <<>> /\ <<>> \in Seq(Orders \ SaveRequests)
        <5>1. inbox \in Seq(Orders) /\ m \in Orders
          BY <4>3 DEF TypeInv, Orders
        <5>2. QED BY <4>1, <5>1, AppendProperties, ConcatEmptySeq
      <4>5. counter' \in Nat /\ counter < counter' /\ NextRequest = m.request
        BY <2>1, <4>1, <4>3 DEF NextRequest
      <4>6. pendingSlots' = [pendingSlots EXCEPT ![m.request] = m.purpose.slot]
        BY <4>1, <4>3, <4>5
      <4>7. QED BY <3>1, <4>3, <4>4, <4>5, <4>6, SaveAsked
    <3>5. QED BY <3>3, <3>4
  <2>15. CASE \/ OnVerdict("COMMAND_ACCEPTED", "accepted")
              \/ OnVerdict("COMMAND_REJECTED", "rejected") \/ OnSimulationError
    <3>1. /\ outbox # <<>> /\ outbox' = Tail(outbox)
          /\ UNCHANGED <<inbox, counter, pendingSlots, storage>>
      BY <2>15 DEF OnVerdict, OnSimulationError, Receives, refs
    <3>2. counter' \in Nat /\ counter <= counter'
      BY <2>1, <3>1
    <3>3. QED BY <3>1, <3>2, SavesKept
  <2>16. CASE OnSaveData
    <3> DEFINE r == Head(outbox).request
               entry == [save |-> Head(outbox).save, purpose |-> Head(outbox).purpose]
    <3>1. /\ outbox # <<>> /\ outbox' = Tail(outbox)
          /\ Head(outbox).type = "SAVE_DATA" /\ Head(outbox) \in SaveDatas
      BY <2>16, Heard, ResponsesAre DEF OnSaveData, Told
    <3>2. /\ inbox \in Seq(Asking) /\ outbox \in Seq(Awaited)
          /\ SavesInOrder /\ SaveLandsInItsSlot
          /\ pendingSlots \in [Requests -> SlotNames \cup {None}]
      BY DEF SlotsInv, TypeInv, TypeOK
    <3>3. Head(outbox) \in Awaited /\ Tail(outbox) \in Seq(Awaited)
      BY <3>1, <3>2, HeadTailProperties
    <3>4. /\ r \in Requests /\ pendingSlots[r] = entry.purpose.slot
          /\ entry.purpose.slot \in SlotNames
      BY <3>1, <3>3 DEF Awaited, SaveDatas, Purposes
    <3>5. /\ \/ slots' = [slots EXCEPT ![entry.purpose.slot] = entry]
             \/ slots' = slots
          /\ pendingSlots' = [pendingSlots EXCEPT ![r] = None]
          /\ UNCHANGED <<inbox, counter>>
      <4>1. entry.purpose.slot # None
        BY <3>4, NoneAssumption
      <4>2. (IF pendingSlots[r] = None THEN "manual" ELSE pendingSlots[r]) = entry.purpose.slot
        BY <3>4, <4>1
      <4>3. QED BY <2>16, <4>2 DEF OnSaveData, storage
    <3>6. SaveLandsInItsSlot'
      <4> HIDE DEF entry
      <4>1. slots \in [SlotNames -> Entries \cup {None}]
        BY DEF TypeInv, TypeOK
      <4>2. QED BY <3>2, <3>4, <3>5, <4>1 DEF SaveLandsInItsSlot
    <3>7. /\ Rise(Tail(outbox), "SAVE_DATA")
          /\ Numbers(Tail(outbox), "SAVE_DATA") \subseteq Answered
          /\ r \in Answered
          /\ \A n \in Numbers(Tail(outbox), "SAVE_DATA") : r < n
      BY <3>1, <3>2, RiseTail DEF SavesInOrder, Answered
    <3>8. SavesInOrder'
      BY <3>1, <3>2, <3>5, <3>7 DEF SavesInOrder, Asked, Answered
    <3>9. inbox' \in Seq(Asking')
      <4>1. inbox \in [1 .. Len(inbox) -> Asking] /\ Len(inbox) \in Nat
        BY <3>2, LenProperties
      <4>2. ASSUME NEW i \in 1 .. Len(inbox) PROVE inbox[i] \in Asking'
        <5>1. inbox[i] \in Asking /\ inbox[i] \in Orders
          BY <4>1 DEF Asking
        <5>2. CASE inbox[i].type = "REQUEST_SAVE"
          <6>1. inbox[i].request \in Asked
            BY <5>2 DEF Asked, Numbers
          <6>2. inbox[i].request \in Requests /\ r < inbox[i].request
            BY <3>2, <3>7, <5>1, <5>2, <6>1, OrdersAre DEF SavesInOrder, SaveRequests
          <6>3. r # inbox[i].request
            BY <3>4, <6>2 DEF Requests
          <6>4. pendingSlots'[inbox[i].request] = pendingSlots[inbox[i].request]
            BY <3>2, <3>5, <6>2, <6>3
          <6>5. QED BY <3>5, <5>1, <6>4 DEF Asking
        <5>3. CASE inbox[i].type # "REQUEST_SAVE"
          BY <5>1, <5>3 DEF Asking
        <5>4. QED BY <5>2, <5>3
      <4>3. inbox \in Seq(Asking')
        BY <3>2, <4>1, <4>2, SeqOf
      <4>4. QED BY <3>5, <4>3
    <3>10. outbox' \in Seq(Awaited')
      <4> DEFINE t == Tail(outbox)
      <4>1. t \in Seq(Awaited)
        BY <3>3
      <4>2. ASSUME NEW i \in 1 .. Len(t) PROVE t[i] \in Awaited'
        <5>1. t[i] \in Awaited /\ t[i] \in Responses
          BY <4>1, ElementOfSeq DEF Awaited
        <5>2. CASE t[i].type = "SAVE_DATA"
          <6>1. r < t[i].request
            BY <3>7, <5>2 DEF Numbers
          <6>2. t[i].request \in Requests
            BY <5>1, <5>2, ResponsesAre DEF SaveDatas
          <6>3. r # t[i].request
            BY <3>4, <6>1, <6>2 DEF Requests
          <6>4. pendingSlots'[t[i].request] = pendingSlots[t[i].request]
            BY <3>2, <3>5, <6>2, <6>3
          <6>5. QED BY <3>5, <5>1, <6>4 DEF Awaited
        <5>3. CASE t[i].type # "SAVE_DATA"
          BY <5>1, <5>3 DEF Awaited
        <5>4. QED BY <5>2, <5>3
      <4>3. t \in Seq(Awaited')
        BY <4>1, <4>2, SeqOf
      <4>4. QED BY <3>1, <4>3
    <3>11. QED BY <3>6, <3>8, <3>9, <3>10 DEF SlotsInv
  <2>17. CASE UNCHANGED vars
    <3>1. UNCHANGED <<inbox, outbox, counter, pendingSlots, storage>>
      BY <2>17 DEF vars, refs
    <3>2. counter' \in Nat /\ counter <= counter'
      BY <2>1, <3>1
    <3>3. QED BY <3>1, <3>2, SavesKept
  <2>18. QED
    BY <2>3, <2>4, <2>5, <2>6, <2>7, <2>8, <2>9, <2>10, <2>11, <2>12, <2>13, <2>14, <2>15,
       <2>16, <2>17 DEF Next, Player, Listens
<1>3. QED BY <1>1, <1>2, TypeInvariant, PTL DEF Spec

\* Whatever was refused, lost or replaced, every slot holds a save that was asked for
\* that slot.
THEOREM SavesLand == Spec => []SaveLandsInItsSlot
<1>1. SlotsInv => SaveLandsInItsSlot
  BY DEF SlotsInv
<1>2. QED BY <1>1, SlotsInvariant, PTL

-----------------------------------------------------------------------------
\* No game, played or saved, has a command whose save is not answered: such a command is
\* behind its save on the way to the worker.
Undone == (0 .. tickets) \ unsaved

Played == Undone \ {0}

SavedFirst(s, pending) ==
  \A j \in 1 .. Len(s) :
    s[j].type = "COMMAND" /\ s[j].ticket \in pending =>
      \E i \in 1 .. Len(s) :
        i < j /\ s[i].type = "REQUEST_SAVE" /\ s[i].purpose.ticket = s[j].ticket

IsMajor(m) == m.type = "REQUEST_SAVE" /\ m.purpose.slot = "major-action"

MajorsDiffer(s) ==
  \A i, j \in 1 .. Len(s) :
    i < j /\ s[i].type = "REQUEST_SAVE" /\ IsMajor(s[j]) =>
      s[i].purpose.ticket # s[j].purpose.ticket

SafeOrders ==
  {m \in Orders :
     /\ m.type = "LOAD_GAME" => m.save.applied \subseteq Played
     /\ m.type = "COMMAND" => m.ticket \in 0 .. tickets
     /\ m.type = "REQUEST_SAVE" => m.purpose.ticket \in 0 .. tickets
     /\ IsMajor(m) => m.purpose.ticket \in unsaved}

SafeCommands == {c \in Commands : c.ticket \in Undone}

SafeSave(e) ==
  /\ e.save.applied \subseteq Played
  /\ e.purpose.slot = "major-action" => e.purpose.ticket \notin e.save.applied

SafeResponses == {m \in Responses : m.type = "SAVE_DATA" => SafeSave(m)}

SafeEntries == {e \in Entries : SafeSave(e)}

MajorInv ==
  /\ unsaved \subseteq 1 .. tickets
  /\ game # None => game.applied \subseteq Played
  /\ queue \in Seq(SafeCommands)
  /\ inbox \in Seq(SafeOrders)
  /\ outbox \in Seq(SafeResponses)
  /\ slots \in [SlotNames -> SafeEntries \cup {None}]
  /\ newest \in SafeEntries \cup {None}
  /\ SavedFirst(inbox, unsaved)
  /\ MajorsDiffer(inbox)

\* A message joins a channel behind the save it waits for, or waits for none.
LEMMA FirstAppend ==
  ASSUME NEW S, NEW s \in Seq(S), NEW m \in S, NEW pending,
         SavedFirst(s, pending), MajorsDiffer(s),
         m.type = "COMMAND" /\ m.ticket \in pending =>
           \E i \in 1 .. Len(s) :
             s[i].type = "REQUEST_SAVE" /\ s[i].purpose.ticket = m.ticket,
         IsMajor(m) =>
           \A i \in 1 .. Len(s) :
             s[i].type = "REQUEST_SAVE" => s[i].purpose.ticket # m.purpose.ticket
  PROVE  SavedFirst(Append(s, m), pending) /\ MajorsDiffer(Append(s, m))
<1> DEFINE t == Append(s, m)
<1>1. /\ Len(s) \in Nat /\ Len(t) = Len(s) + 1
      /\ \A i \in 1 .. Len(s) : t[i] = s[i]
      /\ t[Len(s) + 1] = m
  BY AppendProperties, LenProperties
<1> HIDE DEF t
<1>2. \A i \in 1 .. Len(t) : \/ i \in 1 .. Len(s) /\ t[i] = s[i]
                             \/ i = Len(s) + 1 /\ t[i] = m
  BY <1>1
<1>3. \A i \in 1 .. Len(s) : i \in 1 .. Len(t) /\ t[i] = s[i] /\ i < Len(s) + 1
  BY <1>1
<1>4. SavedFirst(t, pending)
  <2>1. SUFFICES ASSUME NEW j \in 1 .. Len(t), t[j].type = "COMMAND", t[j].ticket \in pending
                 PROVE  \E i \in 1 .. Len(t) :
                          /\ i < j /\ t[i].type = "REQUEST_SAVE"
                          /\ t[i].purpose.ticket = t[j].ticket
    BY DEF SavedFirst
  <2>2. CASE j \in 1 .. Len(s) /\ t[j] = s[j]
    <3>1. PICK i \in 1 .. Len(s) : /\ i < j /\ s[i].type = "REQUEST_SAVE"
                                   /\ s[i].purpose.ticket = s[j].ticket
      BY <2>1, <2>2 DEF SavedFirst
    <3>2. QED BY <1>3, <2>2, <3>1
  <2>3. CASE j = Len(s) + 1 /\ t[j] = m
    <3>1. PICK i \in 1 .. Len(s) :
            s[i].type = "REQUEST_SAVE" /\ s[i].purpose.ticket = m.ticket
      BY <2>1, <2>3
    <3>2. QED BY <1>3, <2>3, <3>1
  <2>4. QED BY <1>2, <2>2, <2>3
<1>5. MajorsDiffer(t)
  <2>1. SUFFICES ASSUME NEW i \in 1 .. Len(t), NEW j \in 1 .. Len(t), i < j,
                        t[i].type = "REQUEST_SAVE", IsMajor(t[j])
                 PROVE  t[i].purpose.ticket # t[j].purpose.ticket
    BY DEF MajorsDiffer
  <2>2. i \in 1 .. Len(s) /\ t[i] = s[i]
    BY <1>1, <1>2, <2>1
  <2>3. CASE j \in 1 .. Len(s) /\ t[j] = s[j]
    BY <2>1, <2>2, <2>3 DEF MajorsDiffer
  <2>4. CASE t[j] = m
    BY <2>1, <2>2, <2>4
  <2>5. QED BY <1>2, <2>3, <2>4
<1>6. QED BY <1>4, <1>5 DEF t

\* The oldest message leaves: a save, and then nothing waits for it any more.
LEMMA FirstTail ==
  ASSUME NEW S, NEW s \in Seq(S), s # <<>>, NEW pending, NEW rest \in SUBSET pending,
         SavedFirst(s, pending), MajorsDiffer(s),
         Head(s).type = "REQUEST_SAVE" => Head(s).purpose.ticket \notin rest
  PROVE  /\ SavedFirst(Tail(s), rest) /\ MajorsDiffer(Tail(s))
         /\ Head(s).type = "REQUEST_SAVE" =>
              \A i \in 1 .. Len(Tail(s)) :
                IsMajor(Tail(s)[i]) => Tail(s)[i].purpose.ticket # Head(s).purpose.ticket
         /\ Head(s).type = "COMMAND" => Head(s).ticket \notin pending
<1> DEFINE t == Tail(s)
<1>1. /\ Len(s) \in Nat /\ Len(s) > 0 /\ Len(t) = Len(s) - 1
      /\ \A i \in 1 .. Len(t) : t[i] = s[i + 1]
  BY HeadTailProperties, LenProperties
<1>2. Head(s) = s[1] /\ 1 \in 1 .. Len(s)
  BY <1>1
<1> HIDE DEF t
<1>3. \A i \in 1 .. Len(t) : i + 1 \in 1 .. Len(s) /\ t[i] = s[i + 1] /\ 1 < i + 1
  BY <1>1
<1>4. SavedFirst(t, rest)
  <2>1. SUFFICES ASSUME NEW j \in 1 .. Len(t), t[j].type = "COMMAND", t[j].ticket \in rest
                 PROVE  \E i \in 1 .. Len(t) :
                          /\ i < j /\ t[i].type = "REQUEST_SAVE"
                          /\ t[i].purpose.ticket = t[j].ticket
    BY DEF SavedFirst
  <2>2. PICK k \in 1 .. Len(s) : /\ k < j + 1 /\ s[k].type = "REQUEST_SAVE"
                                 /\ s[k].purpose.ticket = s[j + 1].ticket
    BY <1>3, <2>1 DEF SavedFirst
  <2>3. k # 1
    BY <1>2, <1>3, <2>1, <2>2
  <2>4. k - 1 \in 1 .. Len(t) /\ k - 1 < j /\ (k - 1) + 1 = k
    BY <1>1, <2>2, <2>3
  <2>5. t[k - 1] = s[k] /\ t[j] = s[j + 1]
    BY <1>3, <2>4
  <2>6. QED BY <2>2, <2>4, <2>5
<1>5. MajorsDiffer(t)
  <2>1. SUFFICES ASSUME NEW i \in 1 .. Len(t), NEW j \in 1 .. Len(t), i < j,
                        t[i].type = "REQUEST_SAVE", IsMajor(t[j])
                 PROVE  t[i].purpose.ticket # t[j].purpose.ticket
    BY DEF MajorsDiffer
  <2>2. i + 1 < j + 1
    BY <1>1, <2>1
  <2>3. QED BY <1>3, <2>1, <2>2 DEF MajorsDiffer
<1>6. ASSUME Head(s).type = "REQUEST_SAVE", NEW i \in 1 .. Len(t), IsMajor(t[i])
      PROVE  t[i].purpose.ticket # Head(s).purpose.ticket
  BY <1>2, <1>3, <1>6 DEF MajorsDiffer
<1>7. ASSUME Head(s).type = "COMMAND" PROVE Head(s).ticket \notin pending
  <2>1. ~ \E i \in 1 .. Len(s) : i < 1
    BY <1>1
  <2>2. QED BY <1>2, <1>7, <2>1 DEF SavedFirst
<1>8. QED BY <1>4, <1>5, <1>6, <1>7 DEF t

\* While nothing more waits for a save, what was safe stays so.
LEMMA SafeStays ==
  ASSUME tickets \in Nat, tickets' \in Nat, tickets <= tickets',
         Played \subseteq Played', unsaved \subseteq unsaved', Undone \subseteq Undone'
  PROVE  /\ SafeOrders \subseteq SafeOrders' /\ SafeCommands \subseteq SafeCommands'
         /\ SafeResponses \subseteq SafeResponses' /\ SafeEntries \subseteq SafeEntries'
<1>1. \A n \in 0 .. tickets : n \in 0 .. tickets'
  OBVIOUS
<1>2. SafeOrders \subseteq SafeOrders'
  BY <1>1 DEF SafeOrders
<1>3. SafeCommands \subseteq SafeCommands'
  BY DEF SafeCommands
<1>4. SafeResponses \subseteq SafeResponses' /\ SafeEntries \subseteq SafeEntries'
  BY DEF SafeResponses, SafeEntries, SafeSave
<1>5. QED BY <1>2, <1>3, <1>4

\* The worker's game, queue, answers and the saves stay; at most one message is sent, and
\* it waits for no save.
LEMMA MajorJoined ==
  ASSUME TypeInv, MajorInv, UNCHANGED <<unsaved, game, queue, storage>>,
         tickets' \in Nat, tickets <= tickets',
         outbox' = outbox \/ (outbox # <<>> /\ outbox' = Tail(outbox)),
         \/ inbox' = inbox
         \/ \E m \in SafeOrders' :
              /\ inbox' = Append(inbox, m) /\ ~IsMajor(m)
              /\ m.type = "COMMAND" => m.ticket \notin unsaved
  PROVE  MajorInv'
<1>1. tickets \in Nat /\ unsaved \subseteq 1 .. tickets
  BY DEF TypeInv, TypeOK, MajorInv
<1>2. /\ Undone \subseteq Undone' /\ Played \subseteq Played' /\ unsaved \subseteq unsaved'
      /\ unsaved' \subseteq 1 .. tickets'
  <2>1. \A n \in 0 .. tickets : n \in 0 .. tickets'
    BY <1>1
  <2>2. \A n \in 1 .. tickets : n \in 1 .. tickets'
    BY <1>1
  <2>3. QED BY <1>1, <2>1, <2>2 DEF Undone, Played
<1>3. /\ SafeOrders \subseteq SafeOrders' /\ SafeCommands \subseteq SafeCommands'
      /\ SafeResponses \subseteq SafeResponses' /\ SafeEntries \subseteq SafeEntries'
  BY <1>1, <1>2, SafeStays
<1>4. /\ inbox \in Seq(SafeOrders) /\ outbox \in Seq(SafeResponses)
      /\ queue \in Seq(SafeCommands)
      /\ slots \in [SlotNames -> SafeEntries \cup {None}]
      /\ newest \in SafeEntries \cup {None}
      /\ SavedFirst(inbox, unsaved) /\ MajorsDiffer(inbox)
      /\ (game # None => game.applied \subseteq Played)
  BY DEF MajorInv
<1>5. /\ inbox \in Seq(SafeOrders') /\ outbox \in Seq(SafeResponses')
      /\ queue' \in Seq(SafeCommands')
  BY <1>3, <1>4, SeqMonotonic
<1>6. outbox' \in Seq(SafeResponses')
  BY <1>5, HeadTailProperties
<1>7. /\ inbox' \in Seq(SafeOrders')
      /\ SavedFirst(inbox', unsaved) /\ MajorsDiffer(inbox')
  <2>1. CASE inbox' = inbox
    BY <1>4, <1>5, <2>1
  <2>2. ASSUME NEW m \in SafeOrders', inbox' = Append(inbox, m), ~IsMajor(m),
               m.type = "COMMAND" => m.ticket \notin unsaved
        PROVE  /\ inbox' \in Seq(SafeOrders')
               /\ SavedFirst(inbox', unsaved) /\ MajorsDiffer(inbox')
    <3>1. inbox' \in Seq(SafeOrders')
      BY <1>5, <2>2, AppendProperties
    <3>2. SavedFirst(inbox', unsaved) /\ MajorsDiffer(inbox')
      BY <1>4, <1>5, <2>2, FirstAppend
    <3>3. QED BY <3>1, <3>2
  <2>3. QED BY <2>1, <2>2
<1>8. /\ slots' \in [SlotNames -> SafeEntries' \cup {None}]
      /\ newest' \in SafeEntries' \cup {None}
  BY <1>3, <1>4 DEF storage
<1>9. game' # None => game'.applied \subseteq Played'
  BY <1>2, <1>4
<1>10. QED BY <1>2, <1>5, <1>6, <1>7, <1>8, <1>9 DEF MajorInv

\* The worker handles a message that is no request for a save, or none.
LEMMA MajorHandled ==
  ASSUME TypeInv, MajorInv, UNCHANGED <<unsaved, tickets, storage>>,
         \/ inbox' = inbox
         \/ inbox # <<>> /\ inbox' = Tail(inbox) /\ Head(inbox).type # "REQUEST_SAVE",
         \E said \in Seq(Said) : outbox' = outbox \o said,
         game' # None => game'.applied \subseteq Played,
         queue' \in Seq(SafeCommands)
  PROVE  MajorInv'
<1>1. /\ SafeOrders' = SafeOrders /\ SafeCommands' = SafeCommands
      /\ SafeResponses' = SafeResponses /\ SafeEntries' = SafeEntries /\ Played' = Played
  BY DEF SafeOrders, SafeCommands, SafeResponses, SafeEntries, SafeSave, Played, Undone
<1>2. /\ inbox \in Seq(SafeOrders) /\ outbox \in Seq(SafeResponses)
      /\ slots \in [SlotNames -> SafeEntries \cup {None}]
      /\ newest \in SafeEntries \cup {None}
      /\ SavedFirst(inbox, unsaved) /\ MajorsDiffer(inbox)
      /\ unsaved \subseteq 1 .. tickets
  BY DEF MajorInv
<1>3. /\ inbox' \in Seq(SafeOrders)
      /\ SavedFirst(inbox', unsaved) /\ MajorsDiffer(inbox')
  <2>1. CASE inbox' = inbox
    BY <1>2, <2>1
  <2>2. CASE inbox # <<>> /\ inbox' = Tail(inbox) /\ Head(inbox).type # "REQUEST_SAVE"
    BY <1>2, <2>2, FirstTail, HeadTailProperties
  <2>3. QED BY <2>1, <2>2
<1>4. outbox' \in Seq(SafeResponses)
  <2>1. PICK said \in Seq(Said) : outbox' = outbox \o said
    OBVIOUS
  <2>2. Said \subseteq SafeResponses
    BY SayingsAre DEF Said, SafeResponses
  <2>3. said \in Seq(SafeResponses)
    BY <2>2, SeqMonotonic
  <2>4. QED BY <1>2, <2>1, <2>3, ConcatProperties
<1>5. QED BY <1>1, <1>2, <1>3, <1>4 DEF MajorInv, storage

\* A decision applies only commands that wait for no save.
LEMMA DecisionIsSafe ==
  ASSUME TypeInv, game # None, game.applied \subseteq Played,
         NEW q \in Seq(Commands), NEW yes \in SUBSET DOMAIN q,
         \A i \in 1 .. Len(q) : q[i].ticket \in Undone,
         NEW month, Decide(q, yes, month)
  PROVE  /\ game'.applied \subseteq Played /\ queue' \in Seq(SafeCommands)
         /\ UNCHANGED unsaved
<1>1. DOMAIN q = 1 .. Len(q)
  BY LenProperties
<1>2. /\ game'.applied = (game.applied \cup {q[i].ticket : i \in yes}) \ {0}
      /\ queue' = <<>> /\ UNCHANGED unsaved
  BY DEF Decide
<1>3. <<>> \in Seq(SafeCommands)
  OBVIOUS
<1>4. QED BY <1>1, <1>2, <1>3 DEF Played

\* A major action waits behind its save everywhere on its way.
LEMMA MajorInvariant == Spec => []MajorInv
<1>1. ASSUME Init PROVE MajorInv
  <2>1. /\ inbox = <<[type |-> "INIT_GAME"]>> /\ outbox = <<>> /\ queue = <<>>
        /\ slots = [s \in SlotNames |-> None] /\ newest = None
        /\ game = None /\ unsaved = {}
    BY <1>1 DEF Init
  <2>2. inbox \in Seq(SafeOrders)
    <3>1. [type |-> "INIT_GAME"] \in SafeOrders
      BY DEF SafeOrders, Orders, PlainOrders, IsMajor
    <3>2. QED BY <2>1, <3>1
  <2>3. outbox \in Seq(SafeResponses) /\ queue \in Seq(SafeCommands)
    BY <2>1
  <2>4. SavedFirst(inbox, unsaved) /\ MajorsDiffer(inbox)
    BY <2>1 DEF SavedFirst, MajorsDiffer, IsMajor
  <2>5. QED BY <2>1, <2>2, <2>3, <2>4 DEF MajorInv
<1>2. ASSUME TypeInv, MajorInv, [Next]_vars PROVE MajorInv'
  <2> USE <1>2
  <2>1. /\ tickets \in 0 .. MaxCommands /\ tickets \in Nat /\ MaxCommands \in Nat
        /\ unsaved \subseteq 1 .. tickets /\ 0 \notin unsaved /\ 0 \in 0 .. tickets
        /\ game \in Games \cup {None}
    BY StoreAssumption DEF TypeInv, TypeOK, MajorInv
  <2>2. ASSUME UNCHANGED <<unsaved, game, queue, storage, tickets>>,
               outbox' = outbox \/ (outbox # <<>> /\ outbox' = Tail(outbox)),
               \/ inbox' = inbox
               \/ \E m \in SafeOrders : /\ inbox' = Append(inbox, m) /\ ~IsMajor(m)
                                        /\ m.type = "COMMAND" => m.ticket \notin unsaved
        PROVE  MajorInv'
    <3>1. SafeOrders' = SafeOrders
      BY <2>2 DEF SafeOrders, Played, Undone
    <3>2. tickets' \in Nat /\ tickets <= tickets'
      BY <2>1, <2>2
    <3>3. QED BY <2>2, <3>1, <3>2, MajorJoined
  <2>3. ASSUME NEW m \in SafeOrders, NEW minted, Posts(<<m>>, minted), ~IsMajor(m),
               m.type = "COMMAND" => m.ticket \notin unsaved,
               UNCHANGED <<unsaved, tickets>>
        PROVE  MajorInv'
    <3>1. inbox' = Append(inbox, m)
      BY <2>3, PostedOne DEF SafeOrders
    <3>2. UNCHANGED <<game, queue, outbox, storage>>
      BY <2>3 DEF Posts
    <3>3. QED BY <2>2, <2>3, <3>1, <3>2
  <2>4. CASE \E s \in {0, 1} : SetSpeed(s)
    <3>1. PICK s \in {0, 1} : SetSpeed(s)
      BY <2>4
    <3> DEFINE m == [type |-> "SET_SPEED", speed |-> s]
    <3>2. m \in SafeOrders /\ ~IsMajor(m) /\ m.type # "COMMAND"
      BY DEF SafeOrders, Orders, PlainOrders, IsMajor
    <3>3. Posts(<<m>>, 0) /\ UNCHANGED <<unsaved, tickets>>
      BY <3>1 DEF SetSpeed
    <3> HIDE DEF m
    <3>4. QED BY <2>3, <3>2, <3>3
  <2>5. CASE \E type \in {"PAUSE", "RESUME"} : RequestControl(type)
    <3>1. PICK type \in {"PAUSE", "RESUME"} : RequestControl(type)
      BY <2>5
    <3> DEFINE m == [type |-> type, request |-> NextRequest]
    <3>2. NextRequest \in Requests
      BY <3>1, Minted DEF RequestControl
    <3>3. m \in SafeOrders /\ ~IsMajor(m) /\ m.type # "COMMAND"
      BY <3>2 DEF SafeOrders, Orders, ControlOrders, IsMajor
    <3>4. Posts(<<m>>, 1) /\ UNCHANGED <<unsaved, tickets>>
      BY <3>1 DEF RequestControl
    <3> HIDE DEF m
    <3>5. QED BY <2>3, <3>3, <3>4
  <2>6. CASE Save("manual")
    <3> DEFINE m == SaveRequest(NextRequest, Purpose("manual", 0, TRUE))
    <3>1. NextRequest \in Requests /\ "manual" \in SlotNames /\ 0 \in 0 .. MaxCommands
      BY <2>1, <2>6, Minted DEF Save, SlotNames
    <3>2. Purpose("manual", 0, TRUE) \in Purposes
      BY <3>1, PurposesAre
    <3>3. m \in SafeOrders /\ ~IsMajor(m) /\ m.type # "COMMAND"
      BY <2>1, <3>1, <3>2
         DEF SaveRequest, SaveRequests, Purpose, SafeOrders, Orders, IsMajor
    <3>4. Posts(<<m>>, 1) /\ UNCHANGED <<unsaved, tickets>>
      BY <2>6 DEF Save
    <3> HIDE DEF m
    <3>5. QED BY <2>3, <3>3, <3>4
  <2>7. CASE SendMinor
    <3> DEFINE m == Command(NextRequest, tickets + 1)
    <3>1. NextRequest \in Requests /\ tickets < MaxCommands /\ tickets' = tickets + 1
      BY <2>7, Minted DEF SendMinor
    <3>2. /\ tickets + 1 \in 0 .. MaxCommands /\ tickets' \in Nat /\ tickets <= tickets'
          /\ tickets + 1 \in 0 .. tickets' /\ tickets + 1 \notin unsaved
      BY <2>1, <3>1
    <3>3. /\ m \in SafeOrders' /\ ~IsMajor(m) /\ m.ticket \notin unsaved
      BY <3>1, <3>2 DEF Command, Commands, SafeOrders, Orders, IsMajor
    <3>4. m \in Orders
      BY <3>3 DEF SafeOrders
    <3>5. /\ Posts(<<m>>, 1) /\ UNCHANGED unsaved
      BY <2>7 DEF SendMinor
    <3> HIDE DEF m
    <3>6. inbox' = Append(inbox, m)
      BY <3>4, <3>5, PostedOne
    <3>7. UNCHANGED <<game, queue, outbox, storage>>
      BY <3>5 DEF Posts
    <3>8. QED BY <3>2, <3>3, <3>5, <3>6, <3>7, MajorJoined
  <2>8. CASE SendMajor
    <3> DEFINE m == PreSave(NextRequest)
               n == Command(NextRequest + 1, tickets + 1)
    <3>1. /\ NextRequest \in Requests /\ NextRequest + 1 \in Requests
          /\ tickets < MaxCommands /\ tickets' = tickets + 1
          /\ unsaved' = unsaved \cup {tickets + 1}
      BY <2>8, Minted DEF SendMajor
    <3>2. /\ tickets + 1 \in 0 .. MaxCommands /\ tickets' \in Nat /\ tickets <= tickets'
          /\ tickets + 1 \in 0 .. tickets' /\ tickets + 1 \notin unsaved
          /\ tickets + 1 \in 1 .. tickets' /\ tickets + 1 \notin 0 .. tickets
      BY <2>1, <3>1
    <3>3. /\ Undone' = Undone /\ Played' = Played /\ unsaved \subseteq unsaved'
          /\ unsaved' \subseteq 1 .. tickets'
      <4>1. 0 .. tickets' = (0 .. tickets) \cup {tickets + 1}
        BY <2>1, <3>1
      <4>2. 1 .. tickets \subseteq 1 .. tickets'
        BY <2>1, <3>1
      <4>3. QED BY <2>1, <3>1, <3>2, <4>1, <4>2 DEF Undone, Played
    <3>4. /\ SafeOrders \subseteq SafeOrders' /\ SafeCommands \subseteq SafeCommands'
          /\ SafeResponses \subseteq SafeResponses' /\ SafeEntries \subseteq SafeEntries'
      BY <2>1, <3>2, <3>3, SafeStays
    <3>5. Purpose("major-action", tickets + 1, TRUE) \in Purposes
      BY <3>2, PurposesAre DEF SlotNames
    <3>6. /\ m \in SafeOrders' /\ m.type = "REQUEST_SAVE" /\ m.purpose.ticket = tickets + 1
      BY <3>1, <3>2, <3>5
         DEF PreSave, SaveRequest, SaveRequests, Purpose, SafeOrders, Orders, IsMajor
    <3>7. /\ n \in SafeOrders' /\ n.type = "COMMAND" /\ n.ticket = tickets + 1
      BY <3>1, <3>2 DEF Command, Commands, SafeOrders, Orders, IsMajor
    <3>8. Posts(<<m, n>>, 2)
      BY <2>8 DEF SendMajor
    <3> HIDE DEF m, n
    <3> DEFINE s == Append(inbox, m)
    <3>9. inbox' = Append(s, n)
      BY <3>6, <3>7, <3>8, PostedTwo DEF SafeOrders
    <3>10. inbox \in Seq(SafeOrders) /\ inbox \in Seq(SafeOrders')
      BY <3>4, SeqMonotonic DEF MajorInv
    <3>11. \A i \in 1 .. Len(inbox) :
              /\ inbox[i].type = "COMMAND" => inbox[i].ticket # tickets + 1
              /\ inbox[i].type = "REQUEST_SAVE" => inbox[i].purpose.ticket # tickets + 1
      <4>1. \A i \in 1 .. Len(inbox) : inbox[i] \in SafeOrders
        BY <3>10, ElementOfSeq
      <4>2. QED BY <3>2, <4>1 DEF SafeOrders
    <3>12. SavedFirst(inbox, unsaved') /\ MajorsDiffer(inbox)
      BY <3>1, <3>11 DEF MajorInv, SavedFirst
    <3>13. s \in Seq(SafeOrders') /\ SavedFirst(s, unsaved') /\ MajorsDiffer(s)
      BY <3>6, <3>10, <3>11, <3>12, FirstAppend, AppendProperties
    <3>14. \E i \in 1 .. Len(s) : s[i].type = "REQUEST_SAVE" /\ s[i].purpose.ticket = n.ticket
      <4>1. Len(s) = Len(inbox) + 1 /\ s[Len(inbox) + 1] = m /\ Len(inbox) \in Nat
        BY <3>6, <3>10, AppendProperties, LenProperties
      <4> HIDE DEF s
      <4>2. Len(inbox) + 1 \in 1 .. Len(s)
        BY <4>1
      <4>3. QED BY <3>6, <3>7, <4>1, <4>2
    <3> HIDE DEF s
    <3>15. ~IsMajor(n)
      BY <3>7 DEF IsMajor
    <3>16. inbox' \in Seq(SafeOrders') /\ SavedFirst(inbox', unsaved') /\ MajorsDiffer(inbox')
      BY <3>7, <3>9, <3>13, <3>14, <3>15, FirstAppend, AppendProperties
    <3>17. UNCHANGED <<game, queue, outbox, storage>>
      BY <3>8 DEF Posts
    <3>18. /\ queue' \in Seq(SafeCommands') /\ outbox' \in Seq(SafeResponses')
           /\ (game' # None => game'.applied \subseteq Played')
      BY <3>3, <3>4, <3>17, SeqMonotonic DEF MajorInv
    <3>19. /\ slots' \in [SlotNames -> SafeEntries' \cup {None}]
           /\ newest' \in SafeEntries' \cup {None}
      BY <3>4, <3>17 DEF MajorInv, storage
    <3>20. QED BY <3>3, <3>16, <3>18, <3>19 DEF MajorInv
  <2>9. CASE AcknowledgeAlert
    <3> DEFINE m == Command(NextRequest, 0)
    <3>1. NextRequest \in Requests
      BY <2>9, Minted DEF AcknowledgeAlert
    <3>2. m \in SafeOrders /\ ~IsMajor(m) /\ m.ticket \notin unsaved
      BY <2>1, <3>1 DEF Command, Commands, SafeOrders, Orders, IsMajor
    <3>3. Posts(<<m>>, 1) /\ UNCHANGED <<unsaved, tickets>>
      BY <2>9 DEF AcknowledgeAlert
    <3> HIDE DEF m
    <3>4. QED BY <2>3, <3>2, <3>3
  <2>10. Offered("manual") # None =>
           Offered("manual") \in Entries /\ Offered("manual").save.applied \subseteq Played
    BY DEF Offered, MajorInv, SafeEntries, SafeSave, SlotNames
  <2>11. CASE Load("manual")
    <3> DEFINE m == [type |-> "LOAD_GAME", save |-> Offered("manual").save]
    <3>1. /\ Offered("manual").save \in Games
          /\ Offered("manual").save.applied \subseteq Played
      BY <2>10, <2>11 DEF Load, Entries
    <3>2. m \in SafeOrders /\ ~IsMajor(m) /\ m.type # "COMMAND"
      BY <3>1 DEF SafeOrders, Orders, LoadGames, IsMajor
    <3>3. Posts(<<m>>, 0) /\ UNCHANGED <<unsaved, tickets>>
      BY <2>11 DEF Load
    <3> HIDE DEF m
    <3>4. QED BY <2>3, <3>2, <3>3
  <2>12. CASE Restart
    <3> DEFINE m == [type |-> "INIT_GAME"]
    <3>1. m \in SafeOrders /\ ~IsMajor(m) /\ m.type # "COMMAND"
      BY DEF SafeOrders, Orders, PlainOrders, IsMajor
    <3>2. Posts(<<m>>, 0) /\ UNCHANGED <<unsaved, tickets>>
      BY <2>12 DEF Restart
    <3> HIDE DEF m
    <3>3. QED BY <2>3, <3>1, <3>2
  <2>13. CASE RecoverFromWorkerFailure
    <3> DEFINE load == [type |-> "LOAD_GAME", save |-> Offered("manual").save]
               start == [type |-> "INIT_GAME"]
    <3>1. /\ Offered("manual").save \in Games
          /\ Offered("manual").save.applied \subseteq Played
      BY <2>10, <2>13 DEF RecoverFromWorkerFailure, Entries
    <3>2. start \in SafeOrders /\ load \in SafeOrders
      BY <3>1 DEF SafeOrders, Orders, LoadGames, PlainOrders, IsMajor
    <3>3. /\ inbox' = <<start, load>> /\ outbox' = <<>> /\ queue' = <<>> /\ game' = None
          /\ UNCHANGED <<storage, unsaved, tickets>>
      BY <2>13 DEF RecoverFromWorkerFailure
    <3>4. /\ start.type \notin {"REQUEST_SAVE", "COMMAND"}
          /\ load.type \notin {"REQUEST_SAVE", "COMMAND"}
      OBVIOUS
    <3> HIDE DEF load, start
    <3>5. /\ SafeOrders' = SafeOrders /\ SafeEntries' = SafeEntries
      BY <3>3 DEF SafeOrders, SafeEntries, SafeSave, Played, Undone
    <3>6. /\ inbox' \in Seq(SafeOrders') /\ outbox' \in Seq(SafeResponses')
          /\ queue' \in Seq(SafeCommands')
      BY <3>2, <3>3, <3>5
    <3>7. \A i \in 1 .. Len(inbox') : inbox'[i].type \notin {"REQUEST_SAVE", "COMMAND"}
      BY <3>3, <3>4
    <3>8. SavedFirst(inbox', unsaved') /\ MajorsDiffer(inbox')
      BY <3>7 DEF SavedFirst, MajorsDiffer
    <3>9. QED BY <2>1, <3>3, <3>5, <3>6, <3>8 DEF MajorInv, storage
  <2>14. CASE WorkerStops
    BY <2>2, <2>14 DEF WorkerStops, worker
  <2>15. CASE OnSnapshot
    <3>1. /\ outbox # <<>> /\ outbox' = Tail(outbox)
          /\ UNCHANGED <<unsaved, game, queue, storage, tickets>>
      BY <2>15 DEF OnSnapshot, Receives, worker
    <3>2. PICK reason \in {None, "year", "month"} : Autosave(reason)
      BY <2>15, ReasonsAre DEF OnSnapshot
    <3>3. CASE reason = None
      BY <2>2, <3>1, <3>2, <3>3 DEF Autosave
    <3>4. CASE reason # None
      <4> DEFINE timely == lastLine = Head(outbox).line
                 m == SaveRequest(NextRequest, Purpose(reason, 0, timely))
      <4>1. NextRequest \in Requests /\ inbox' = Append(inbox, m)
        BY <3>2, <3>4 DEF Autosave
      <4>2. reason \in SlotNames /\ reason # "major-action" /\ 0 \in 0 .. MaxCommands
        BY <2>1, <3>4 DEF SlotNames
      <4>3. timely \in BOOLEAN
        OBVIOUS
      <4> HIDE DEF timely
      <4>4. Purpose(reason, 0, timely) \in Purposes
        BY <4>2, <4>3, PurposesAre
      <4>5. m \in SafeOrders /\ ~IsMajor(m) /\ m.type # "COMMAND"
        BY <2>1, <4>1, <4>2, <4>4
           DEF SaveRequest, SaveRequests, Purpose, SafeOrders, Orders, IsMajor
      <4> HIDE DEF m
      <4>6. QED BY <2>2, <3>1, <4>1, <4>5
    <3>5. QED BY <3>3, <3>4
  <2>16. CASE OnVerdict("COMMAND_ACCEPTED", "accepted") \/ OnVerdict("COMMAND_REJECTED", "rejected")
    BY <2>2, <2>16 DEF OnVerdict, Receives, worker
  <2>17. CASE OnSimulationError
    BY <2>2, <2>17 DEF OnSimulationError, Receives, worker
  <2>18. CASE UNCHANGED vars
    BY <2>2, <2>18 DEF vars, worker, ui, storage
  <2>19. ASSUME WorkerHandles \/ WorkerTick \/ WorkerThrows, ~SavesNow
         PROVE  \E said \in Seq(Said) : outbox' = outbox \o said
    BY <2>19, WorkerSays
  <2>20. queue \in Seq(SafeCommands) /\ <<>> \in Seq(SafeCommands)
    BY DEF MajorInv
  <2>21. /\ queue \in Seq(Commands) /\ Len(queue) \in Nat
         /\ \A i \in 1 .. Len(queue) : queue[i].ticket \in Undone
    <3>1. \A i \in 1 .. Len(queue) : queue[i] \in SafeCommands
      BY <2>20, ElementOfSeq
    <3>2. QED BY <2>20, <3>1, QueueIs, LenProperties DEF SafeCommands
  <2>22. ASSUME NEW type, type # "REQUEST_SAVE", Handles(type)
         PROVE  /\ inbox # <<>> /\ inbox' = Tail(inbox) /\ Head(inbox).type # "REQUEST_SAVE"
                /\ Head(inbox) \in SafeOrders /\ Head(inbox).type = type
                /\ UNCHANGED <<tickets, storage>> /\ ~SavesNow
    <3>1. inbox \in Seq(SafeOrders)
      BY DEF MajorInv
    <3>2. Head(inbox).type = type /\ inbox # <<>>
      BY <2>22 DEF Handles
    <3>3. Head(inbox) \in SafeOrders
      BY <3>1, <3>2, HeadTailProperties
    <3>4. ~SavesNow
      BY <2>22, <3>2 DEF SavesNow, WorkerSave, Handles
    <3>5. QED BY <2>22, <3>2, <3>3, <3>4 DEF Handles
  <2>23. Handles("COMMAND") => Head(inbox).ticket \in Undone
    <3>1. SUFFICES ASSUME Handles("COMMAND") PROVE Head(inbox).ticket \in Undone
      OBVIOUS
    <3>2. inbox \in Seq(SafeOrders) /\ SavedFirst(inbox, unsaved) /\ MajorsDiffer(inbox)
      BY DEF MajorInv
    <3>3. Head(inbox).ticket \in 0 .. tickets
      BY <2>22, <3>1 DEF SafeOrders
    <3>4. Head(inbox).ticket \notin unsaved
      BY <2>22, <3>1, <3>2, FirstTail
    <3>5. QED BY <3>3, <3>4 DEF Undone
  <2>24. CASE WorkerInit
    <3>1. game'.applied = {} /\ queue' = <<>> /\ UNCHANGED unsaved
      BY <2>24 DEF WorkerInit, StartsGame
    <3>2. Handles("INIT_GAME")
      BY <2>24 DEF WorkerInit
    <3>3. QED
      BY <2>19, <2>20, <2>22, <2>24, <3>1, <3>2, MajorHandled DEF WorkerHandles
  <2>25. CASE WorkerLoad
    <3>1. game' = Head(inbox).save /\ queue' = <<>> /\ UNCHANGED unsaved
      BY <2>25 DEF WorkerLoad, StartsGame
    <3>2. Handles("LOAD_GAME")
      BY <2>25 DEF WorkerLoad
    <3>3. game'.applied \subseteq Played
      BY <2>22, <3>1, <3>2 DEF SafeOrders
    <3>4. QED
      BY <2>19, <2>20, <2>22, <2>25, <3>1, <3>2, <3>3, MajorHandled DEF WorkerHandles
  <2>26. game # None => game.applied \subseteq Played
    BY DEF MajorInv
  <2>27. CASE WorkerRefusesLoad \/ WorkerRefusesCommand
    <3>1. \E type \in {"LOAD_GAME", "COMMAND"} : Handles(type)
      BY <2>27 DEF WorkerRefusesLoad, WorkerRefusesCommand
    <3>2. UNCHANGED <<game, queue, unsaved>>
      BY <2>27 DEF WorkerRefusesLoad, WorkerRefusesCommand, worker
    <3>3. QED
      BY <2>19, <2>20, <2>22, <2>26, <2>27, <3>1, <3>2, MajorHandled DEF WorkerHandles
  <2>28. CASE WorkerQueuesCommand
    <3>1. /\ Handles("COMMAND") /\ queue' = Append(queue, Head(inbox))
          /\ UNCHANGED <<game, unsaved>>
      BY <2>28 DEF WorkerQueuesCommand
    <3>2. Head(inbox) \in SafeCommands
      BY <2>23, <3>1, Handled, OrdersAre DEF SafeCommands
    <3>3. queue' \in Seq(SafeCommands)
      BY <2>20, <3>1, <3>2, AppendProperties
    <3>4. QED
      BY <2>19, <2>22, <2>26, <2>28, <3>1, <3>3, MajorHandled DEF WorkerHandles
  <2>29. CASE WorkerDecidesCommand
    <3> DEFINE q == Append(queue, Head(inbox))
    <3>1. Handles("COMMAND") /\ game # None
      BY <2>29 DEF WorkerDecidesCommand
    <3>2. PICK yes \in SUBSET DOMAIN q : Decide(q, yes, game.month)
      BY <2>29 DEF WorkerDecidesCommand
    <3>3. /\ q \in Seq(Commands) /\ Len(q) = Len(queue) + 1
          /\ \A i \in 1 .. Len(queue) : q[i] = queue[i]
          /\ q[Len(queue) + 1] = Head(inbox)
      BY <3>1, QueueJoined
    <3> HIDE DEF q
    <3>4. \A i \in 1 .. Len(q) : i \in 1 .. Len(queue) \/ i = Len(queue) + 1
      BY <2>21, <3>3
    <3>5. \A i \in 1 .. Len(q) : q[i].ticket \in Undone
      BY <2>21, <2>23, <3>1, <3>3, <3>4
    <3>6. game'.applied \subseteq Played /\ queue' \in Seq(SafeCommands) /\ UNCHANGED unsaved
      BY <2>26, <3>1, <3>2, <3>3, <3>5, DecisionIsSafe
    <3>7. QED
      BY <2>19, <2>22, <2>29, <3>1, <3>6, MajorHandled DEF WorkerHandles
  <2>30. CASE WorkerSetSpeed \/ \E type \in {"PAUSE", "RESUME"} : WorkerControl(type)
    <3>1. \E type \in {"SET_SPEED", "PAUSE", "RESUME"} : Handles(type)
      BY <2>30 DEF WorkerSetSpeed, WorkerControl
    <3>2. UNCHANGED <<game, queue, unsaved>>
      BY <2>30 DEF WorkerSetSpeed, WorkerControl
    <3>3. QED
      BY <2>19, <2>20, <2>22, <2>26, <2>30, <3>1, <3>2, MajorHandled DEF WorkerHandles
  <2>31. CASE WorkerTick
    <3>1. PICK yes \in SUBSET DOMAIN queue, months \in {0, 1} :
            Decide(queue, yes, game.month + months)
      BY <2>31 DEF WorkerTick
    <3>2. /\ game # None
          /\ UNCHANGED <<inbox, counter, refs, ui, workerFailure, storage, tickets>>
      BY <2>31 DEF WorkerTick
    <3>3. game'.applied \subseteq Played /\ queue' \in Seq(SafeCommands) /\ UNCHANGED unsaved
      BY <2>21, <2>26, <3>1, <3>2, DecisionIsSafe
    <3>4. QED
      <4>1. CASE SavesNow
        BY <3>2, <4>1, Handled, HeadTailProperties DEF SavesNow, WorkerSave
      <4>2. CASE ~SavesNow
        BY <2>19, <2>31, <3>2, <3>3, <4>2, MajorHandled
      <4>3. QED BY <4>1, <4>2
  <2>32. CASE WorkerThrows
    <3>1. /\ queue' = <<>> /\ UNCHANGED <<game, unsaved, inbox, storage, tickets>>
          /\ outbox' = Append(outbox, Error)
      BY <2>32 DEF WorkerThrows
    <3>2. ~SavesNow
      <4>1. inbox' = inbox /\ inbox \in Seq(Orders)
        BY <3>1 DEF TypeInv
      <4>2. SavesNow => inbox # <<>> /\ inbox' = Tail(inbox)
        BY Handled DEF SavesNow, WorkerSave
      <4>3. QED BY <4>1, <4>2, HeadTailProperties
    <3>3. QED
      BY <2>19, <2>20, <2>26, <2>32, <3>1, <3>2, MajorHandled
  <2>33. CASE WorkerSave
    <3> DEFINE ticket == Head(inbox).purpose.ticket
               m == [type |-> "SAVE_DATA", request |-> Head(inbox).request,
                     save |-> game, purpose |-> Head(inbox).purpose]
    <3>1. /\ inbox # <<>> /\ inbox' = Tail(inbox) /\ Head(inbox).type = "REQUEST_SAVE"
          /\ Head(inbox) \in SaveRequests /\ UNCHANGED <<tickets, storage>>
      BY <2>33, Handled, OrdersAre DEF WorkerSave
    <3>2. /\ unsaved' = unsaved \ {ticket} /\ UNCHANGED <<game, queue>>
          /\ \/ game # None /\ outbox' = Append(outbox, m)
             \/ outbox' = Append(outbox, Error)
      BY <2>33 DEF WorkerSave
    <3>3. /\ inbox \in Seq(SafeOrders) /\ outbox \in Seq(SafeResponses)
          /\ SavedFirst(inbox, unsaved) /\ MajorsDiffer(inbox)
          /\ slots \in [SlotNames -> SafeEntries \cup {None}]
          /\ newest \in SafeEntries \cup {None}
      BY DEF MajorInv
    <3>4. Head(inbox) \in SafeOrders /\ Tail(inbox) \in Seq(SafeOrders)
      BY <3>1, <3>3, HeadTailProperties
    <3>5. /\ Undone \subseteq Undone' /\ Played \subseteq Played'
          /\ unsaved' \subseteq 1 .. tickets' /\ unsaved' \in SUBSET unsaved
          /\ ticket \notin unsaved'
      BY <2>1, <3>1, <3>2 DEF Undone, Played
    <3>6. /\ SavedFirst(inbox', unsaved') /\ MajorsDiffer(inbox')
          /\ \A i \in 1 .. Len(Tail(inbox)) :
               IsMajor(Tail(inbox)[i]) => Tail(inbox)[i].purpose.ticket # ticket
      BY <3>1, <3>3, <3>5, FirstTail
    <3>7. /\ SafeCommands \subseteq SafeCommands' /\ SafeResponses \subseteq SafeResponses'
          /\ SafeEntries \subseteq SafeEntries'
      BY <3>5 DEF SafeCommands, SafeResponses, SafeEntries, SafeSave
    <3>8. inbox' \in Seq(SafeOrders')
      <4> DEFINE t == Tail(inbox)
      <4>1. ASSUME NEW i \in 1 .. Len(t) PROVE t[i] \in SafeOrders'
        <5>1. t[i] \in SafeOrders /\ (IsMajor(t[i]) => t[i].purpose.ticket # ticket)
          BY <3>4, <3>6, ElementOfSeq
        <5>2. IsMajor(t[i]) => t[i].purpose.ticket \in unsaved'
          BY <3>2, <5>1 DEF SafeOrders
        <5> HIDE DEF t
        <5>3. QED BY <3>1, <3>5, <5>1, <5>2 DEF SafeOrders
      <4>2. t \in Seq(SafeOrders')
        BY <3>4, <4>1, SeqOf
      <4>3. QED BY <3>1, <4>2
    <3>9. outbox' \in Seq(SafeResponses')
      <4>1. outbox \in Seq(SafeResponses')
        BY <3>3, <3>7, SeqMonotonic
      <4>2. Error \in SafeResponses'
        BY DEF Error, SafeResponses, Responses, Errors
      <4>3. game # None => m \in SafeResponses'
        <5>1. SUFFICES ASSUME game # None PROVE m \in SafeResponses'
          OBVIOUS
        <5>2. m \in SaveDatas
          BY <2>1, <3>1, <5>1 DEF SaveRequests, SaveDatas
        <5>3. m.save.applied \subseteq Played /\ m.save.applied \subseteq Played'
          BY <2>26, <3>5, <5>1
        <5>4. m.purpose.slot = "major-action" => m.purpose.ticket \in unsaved
          BY <3>1, <3>4 DEF SafeOrders, IsMajor
        <5>5. m.purpose.slot = "major-action" => m.purpose.ticket \notin m.save.applied
          BY <5>3, <5>4 DEF Played, Undone
        <5> HIDE DEF m
        <5>6. QED BY <5>2, <5>3, <5>5 DEF SafeResponses, SafeSave, Responses
      <4> HIDE DEF m
      <4>4. QED BY <3>2, <4>1, <4>2, <4>3, AppendProperties
    <3>10. /\ queue' \in Seq(SafeCommands')
           /\ (game' # None => game'.applied \subseteq Played')
      BY <2>20, <2>26, <3>2, <3>5, <3>7, SeqMonotonic
    <3>11. /\ slots' \in [SlotNames -> SafeEntries' \cup {None}]
           /\ newest' \in SafeEntries' \cup {None}
      BY <3>1, <3>3, <3>7 DEF storage
    <3>12. QED BY <3>5, <3>6, <3>8, <3>9, <3>10, <3>11 DEF MajorInv
  <2>34. CASE OnSaveData
    <3> DEFINE slot == IF pendingSlots[Head(outbox).request] = None THEN "manual"
                       ELSE pendingSlots[Head(outbox).request]
               entry == [save |-> Head(outbox).save, purpose |-> Head(outbox).purpose]
    <3>1. /\ outbox # <<>> /\ outbox' = Tail(outbox) /\ Head(outbox).type = "SAVE_DATA"
          /\ UNCHANGED <<unsaved, game, queue, tickets, inbox>>
          /\ \/ slots' = [slots EXCEPT ![slot] = entry] /\ newest' = entry
             \/ UNCHANGED storage
      BY <2>34 DEF OnSaveData, Receives, worker
    <3>2. outbox \in Seq(SafeResponses)
      BY DEF MajorInv
    <3>3. Head(outbox) \in SafeResponses /\ outbox' \in Seq(SafeResponses)
      BY <3>1, <3>2, HeadTailProperties
    <3>4. Head(outbox) \in SaveDatas /\ SafeSave(Head(outbox))
      BY <3>1, <3>3, ResponsesAre DEF SafeResponses
    <3>5. entry \in SafeEntries
      BY <3>4 DEF SaveDatas, Entries, SafeEntries, SafeSave
    <3>6. /\ SafeOrders' = SafeOrders /\ SafeCommands' = SafeCommands
          /\ SafeResponses' = SafeResponses /\ SafeEntries' = SafeEntries /\ Played' = Played
      BY <3>1 DEF SafeOrders, SafeCommands, SafeResponses, SafeEntries, SafeSave, Played, Undone
    <3> HIDE DEF slot, entry
    <3>7. /\ slots' \in [SlotNames -> SafeEntries \cup {None}]
          /\ newest' \in SafeEntries \cup {None}
      BY <3>1, <3>5 DEF MajorInv, storage
    <3>8. QED BY <3>1, <3>3, <3>6, <3>7 DEF MajorInv
  <2>35. QED
    BY <2>4, <2>5, <2>6, <2>7, <2>8, <2>9, <2>11, <2>12, <2>13, <2>14, <2>15, <2>16, <2>17,
       <2>18, <2>24, <2>25, <2>27, <2>28, <2>29, <2>30, <2>31, <2>32, <2>33, <2>34
       DEF Next, Player, WorkerHandles, Listens
<1>3. QED BY <1>1, <1>2, TypeInvariant, PTL DEF Spec

\* An action worth a save is not in the game, nor in the save that was made for it,
\* before that save is answered.
THEOREM MajorIsSavedFirst == Spec => []MajorActionSavedFirst
<1>1. ASSUME TypeInv, SlotsInv, MajorInv PROVE MajorActionSavedFirst
  <2>1. game # None => game.applied \cap unsaved = {}
    BY <1>1 DEF MajorInv, Played, Undone
  <2>2. "major-action" \in SlotNames
    BY DEF SlotNames
  <2>3. slots["major-action"] # None =>
          /\ slots["major-action"].purpose.slot = "major-action"
          /\ slots["major-action"] \in SafeEntries
    BY <1>1, <2>2 DEF SlotsInv, SaveLandsInItsSlot, MajorInv
  <2>4. QED BY <2>1, <2>3 DEF MajorActionSavedFirst, SafeEntries, SafeSave
<1>2. QED BY <1>1, TypeInvariant, SlotsInvariant, MajorInvariant, PTL

-----------------------------------------------------------------------------
\* Before the worker stops, requests are numbered upwards: whatever is on its way to it,
\* waits in its queue or is answered under the newest command's number is that command,
\* and carries its ticket.
Newest(m) == m.request <= counter /\ (m.request = current => m.ticket = tickets)

NewestOrders ==
  {m \in Orders :
     /\ m.type = "COMMAND" => Newest(m)
     /\ m.type \in {"PAUSE", "RESUME"} => m.request <= counter /\ m.request # current}

NewestCommands == {c \in Commands : Newest(c)}

NewestResponses ==
  {m \in Responses : m.type \in {"COMMAND_ACCEPTED", "COMMAND_REJECTED"} => Newest(m)}

NewestIsKept ==
  /\ ~workerFailure
  /\ current # None => current <= counter
  /\ inbox \in Seq(NewestOrders)
  /\ queue \in Seq(NewestCommands) /\ owed \in Seq(NewestCommands)
  /\ outbox \in Seq(NewestResponses)
  /\ commandStatus \in {"accepted", "rejected"} => answered.command = tickets

NewestInv == Working => NewestIsKept

\* A worker that has stopped once has stopped.
LEMMA WorkedBefore ==
  ASSUME TypeInv, NEW what \in Kinds, NEW bound,
         Spend(what, bound) \/ UNCHANGED spent, Working'
  PROVE  Working
<1>1. spent \in [Kinds -> Nat] /\ "stops" \in Kinds
  BY DEF TypeInv, Kinds
<1>2. CASE UNCHANGED spent
  BY <1>2 DEF Working
<1>3. CASE Spend(what, bound)
  <2>1. spent' = [spent EXCEPT ![what] = spent[what] + 1]
    BY <1>3 DEF Spend
  <2>2. spent'["stops"] \in {spent["stops"], spent["stops"] + 1} /\ spent["stops"] \in Nat
    BY <1>1, <2>1
  <2>3. QED BY <2>2 DEF Working
<1>4. QED BY <1>2, <1>3

\* While the newest command is the same, messages stay as good as they were.
LEMMA NewestStays ==
  ASSUME UNCHANGED <<current, tickets>>, counter \in Nat, counter' \in Nat,
         counter <= counter', Requests \subseteq Nat
  PROVE  /\ NewestOrders \subseteq NewestOrders' /\ NewestCommands \subseteq NewestCommands'
         /\ NewestResponses \subseteq NewestResponses'
<1>1. \A r \in Requests : r <= counter => r <= counter'
  <2>1. \A r \in Nat : r <= counter => r <= counter'
    OBVIOUS
  <2>2. QED BY <2>1
<1>2. ASSUME NEW m, m.request \in Requests, Newest(m) PROVE Newest(m)'
  BY <1>1, <1>2 DEF Newest
<1>3. NewestCommands \subseteq NewestCommands'
  BY <1>2 DEF NewestCommands, Commands
<1>4. NewestOrders \subseteq NewestOrders'
  <2>1. SUFFICES ASSUME NEW m \in NewestOrders PROVE m \in NewestOrders'
    OBVIOUS
  <2>2. m \in Orders
    BY DEF NewestOrders
  <2>3. m.type = "COMMAND" => Newest(m)'
    BY <1>2, <2>2, OrdersAre DEF NewestOrders, Commands
  <2>4. m.type \in {"PAUSE", "RESUME"} => m.request <= counter' /\ m.request # current'
    BY <1>1, <2>2, OrdersAre DEF NewestOrders, ControlOrders
  <2>5. QED BY <2>2, <2>3, <2>4 DEF NewestOrders
<1>5. NewestResponses \subseteq NewestResponses'
  <2>1. SUFFICES ASSUME NEW m \in NewestResponses PROVE m \in NewestResponses'
    OBVIOUS
  <2>2. m \in Responses
    BY DEF NewestResponses
  <2>3. m.type \in {"COMMAND_ACCEPTED", "COMMAND_REJECTED"} => Newest(m)'
    BY <1>2, <2>2, ResponsesAre DEF NewestResponses, VerdictMessages
  <2>4. QED BY <2>2, <2>3 DEF NewestResponses
<1>6. QED BY <1>3, <1>4, <1>5

\* A message joins the requests, or the page has read an answer, and the newest command is
\* the same.
LEMMA NewestJoined ==
  ASSUME TypeInv, NewestIsKept, UNCHANGED <<current, tickets, queue, owed, workerFailure>>,
         counter \in Nat, counter' \in Nat, counter <= counter', Requests \subseteq Nat,
         outbox' = outbox \/ (outbox # <<>> /\ outbox' = Tail(outbox)),
         inbox' = inbox \/ \E m \in NewestOrders' : inbox' = Append(inbox, m),
         commandStatus' \in {"accepted", "rejected"} => answered'.command = tickets
  PROVE  NewestIsKept'
<1>1. /\ NewestOrders \subseteq NewestOrders' /\ NewestCommands \subseteq NewestCommands'
      /\ NewestResponses \subseteq NewestResponses'
  BY NewestStays
<1>2. /\ inbox \in Seq(NewestOrders') /\ outbox \in Seq(NewestResponses')
      /\ queue' \in Seq(NewestCommands') /\ owed' \in Seq(NewestCommands')
  BY <1>1, SeqMonotonic DEF NewestIsKept
<1>3. inbox' \in Seq(NewestOrders')
  <2>1. \A m \in NewestOrders' : Append(inbox, m) \in Seq(NewestOrders')
    BY <1>2, AppendProperties
  <2>2. QED BY <1>2, <2>1
<1>4. outbox' \in Seq(NewestResponses')
  BY <1>2, HeadTailProperties
<1>5. current' # None => current' <= counter'
  <2>1. current \in Requests \cup {None}
    BY DEF TypeInv, TypeOK
  <2>2. QED BY <2>1 DEF NewestIsKept
<1>6. QED BY <1>2, <1>3, <1>4, <1>5 DEF NewestIsKept

\* What the worker says under the newest command's number, it says of that command.
LEMMA SaidOfNewest ==
  ASSUME TypeInv, NewestIsKept
  PROVE  \A m \in Sayings : m \in NewestResponses
<1>1. SUFFICES ASSUME NEW m \in Sayings, m.type \in {"COMMAND_ACCEPTED", "COMMAND_REJECTED"}
               PROVE  Newest(m)
  BY SayingsAre DEF NewestResponses
<1>2. Answers(m)
  BY <1>1, SayingsAre
<1>3. ASSUME NEW q \in {queue, owed}, NEW i \in 1 .. Len(q), m.request = q[i].request,
             m.ticket = q[i].ticket
      PROVE  Newest(m)
  <2>1. q[i] \in NewestCommands
    BY ElementOfSeq DEF NewestIsKept
  <2>2. QED BY <1>3, <2>1 DEF NewestCommands, Newest
<1>4. inbox # <<>> => Head(inbox) \in NewestOrders
  BY HeadTailProperties DEF NewestIsKept
<1>5. QED BY <1>2, <1>3, <1>4 DEF Answers, NewestOrders, Newest

\* The worker handles a request, decides its queue or fails.
LEMMA NewestHandled ==
  ASSUME TypeInv, NewestIsKept, WorkerHandles \/ WorkerTick \/ WorkerThrows,
         queue' \in Seq(NewestCommands), owed' \in Seq(NewestCommands)
  PROVE  NewestIsKept'
<1>1. /\ UNCHANGED <<counter, refs, ui, workerFailure, storage, tickets>>
      /\ inbox' = inbox \/ (inbox # <<>> /\ inbox' = Tail(inbox))
  <2>1. ASSUME NEW type, Handles(type)
        PROVE  /\ UNCHANGED <<counter, refs, ui, workerFailure, storage, tickets>>
               /\ inbox # <<>> /\ inbox' = Tail(inbox)
    BY <2>1, Handled
  <2>2. CASE WorkerHandles
    <3>1. \E type : Handles(type)
      BY <2>2 DEF WorkerHandles, WorkerInit, WorkerLoad, WorkerRefusesLoad,
           WorkerRefusesCommand, WorkerQueuesCommand, WorkerDecidesCommand, WorkerSetSpeed,
           WorkerControl, WorkerSave
    <3>2. QED BY <2>1, <3>1
  <2>3. CASE WorkerTick \/ WorkerThrows
    BY <2>3 DEF WorkerTick, WorkerThrows
  <2>4. QED BY <2>2, <2>3
<1>2. /\ NewestOrders' = NewestOrders /\ NewestCommands' = NewestCommands
      /\ NewestResponses' = NewestResponses
  BY <1>1 DEF NewestOrders, NewestCommands, NewestResponses, Newest, ui
<1>3. inbox' \in Seq(NewestOrders)
  BY <1>1, HeadTailProperties DEF NewestIsKept
<1>4. outbox' \in Seq(NewestResponses)
  <2>1. outbox \in Seq(NewestResponses)
    BY DEF NewestIsKept
  <2>2. CASE \E said \in Seq(Said) : outbox' = outbox \o said
    <3>1. PICK said \in Seq(Said) : outbox' = outbox \o said
      BY <2>2
    <3>2. Said \subseteq NewestResponses
      BY SaidOfNewest DEF Said
    <3>3. said \in Seq(NewestResponses)
      BY <3>2, SeqMonotonic
    <3>4. QED BY <2>1, <3>1, <3>3, ConcatProperties
  <2>3. CASE SavesNow
    <3> DEFINE m == [type |-> "SAVE_DATA", request |-> Head(inbox).request,
                     save |-> game, purpose |-> Head(inbox).purpose]
    <3>1. Head(inbox) \in SaveRequests /\ game \in Games
      BY <2>3, Handled, OrdersAre DEF SavesNow, WorkerSave, TypeInv, TypeOK
    <3>2. m \in NewestResponses
      BY <3>1 DEF SaveRequests, SaveDatas, Responses, NewestResponses
    <3>3. outbox' = Append(outbox, m)
      BY <2>3 DEF SavesNow
    <3> HIDE DEF m
    <3>4. QED BY <2>1, <3>2, <3>3, AppendProperties
  <2>4. QED BY <2>2, <2>3, WorkerSays
<1>5. QED BY <1>1, <1>2, <1>3, <1>4 DEF NewestIsKept, ui

\* Until the worker stops, the newest command's number leads to nothing but that command.
LEMMA NewestInvariant == Spec => []NewestInv
<1>1. ASSUME Init PROVE NewestInv
  <2>1. /\ inbox = <<[type |-> "INIT_GAME"]>> /\ outbox = <<>> /\ queue = <<>>
        /\ owed = <<>> /\ ~workerFailure /\ current = None /\ commandStatus = "idle"
    BY <1>1 DEF Init
  <2>2. inbox \in Seq(NewestOrders)
    <3>1. [type |-> "INIT_GAME"] \in NewestOrders
      BY DEF NewestOrders, Orders, PlainOrders
    <3>2. QED BY <2>1, <3>1
  <2>3. /\ outbox \in Seq(NewestResponses)
        /\ queue \in Seq(NewestCommands) /\ owed \in Seq(NewestCommands)
    BY <2>1
  <2>4. QED BY <2>1, <2>2, <2>3 DEF NewestInv, NewestIsKept
<1>2. ASSUME TypeInv, NewestInv, [Next]_vars PROVE NewestInv'
  <2> USE <1>2
  <2>1. SUFFICES ASSUME Working' PROVE NewestIsKept'
    BY DEF NewestInv
  <2>2. Requests \subseteq Nat /\ None \notin Requests
    BY NoneAssumption DEF Requests
  <2>3. /\ counter \in Nat /\ tickets \in Nat /\ (current # None => current \in Nat)
        /\ spent \in [Kinds -> Nat]
    <3>1. /\ counter \in Requests \cup {0} /\ tickets \in 0 .. MaxCommands
          /\ current \in Requests \cup {None} /\ spent \in [Kinds -> Nat]
      BY <1>2 DEF TypeInv, TypeOK
    <3>2. QED BY ONLY <2>2, <3>1
  <2>4. ASSUME NEW what \in Kinds, NEW bound, Spend(what, bound) \/ UNCHANGED spent
        PROVE  NewestIsKept
    BY <2>1, <2>4, WorkedBefore DEF NewestInv
  <2>5. ASSUME NewestIsKept, NEW m \in Orders, NEW minted \in {0, 1},
               Posts(<<m>>, minted), UNCHANGED <<current, tickets, commandStatus, answered>>,
               m.type \in {"COMMAND", "PAUSE", "RESUME"} =>
                 minted = 1 /\ m.request = counter + 1
        PROVE  NewestIsKept'
    <3>1. /\ inbox' = Append(inbox, m) /\ counter' = counter + minted
          /\ UNCHANGED <<queue, owed, outbox, workerFailure>>
      BY <2>5, PostedOne DEF Posts
    <3>2. counter' \in Nat /\ counter <= counter' /\ (minted = 1 => counter + 1 <= counter')
      BY <2>3, <3>1
    <3>3. minted = 1 => current # counter + 1
      <4>1. current # None => current <= counter
        BY <2>5 DEF NewestIsKept
      <4>2. minted = 1 => counter + 1 \in Requests
        BY <2>5, Minted DEF NextRequest
      <4>3. QED BY <2>2, <2>3, <4>1, <4>2
    <3>4. m \in NewestOrders'
      BY <2>5, <3>2, <3>3 DEF NewestOrders, Newest
    <3>5. commandStatus' \in {"accepted", "rejected"} => answered'.command = tickets
      BY <2>5 DEF NewestIsKept
    <3>6. QED BY <2>2, <2>3, <2>5, <3>1, <3>2, <3>4, <3>5, NewestJoined
  <2>6. CASE \E s \in {0, 1} : SetSpeed(s)
    <3>1. PICK s \in {0, 1} : SetSpeed(s)
      BY <2>6
    <3> DEFINE m == [type |-> "SET_SPEED", speed |-> s]
    <3>2. m \in Orders /\ m.type \notin {"COMMAND", "PAUSE", "RESUME"}
      BY DEF Orders, PlainOrders
    <3>3. /\ Posts(<<m>>, 0) /\ Spend("inputs", MaxInputs)
          /\ UNCHANGED <<current, tickets, commandStatus, answered>>
      BY <3>1 DEF SetSpeed
    <3> HIDE DEF m
    <3>4. NewestIsKept
      BY <2>4, <3>3 DEF Kinds
    <3>5. QED BY <2>5, <3>2, <3>3, <3>4
  <2>7. CASE \E type \in {"PAUSE", "RESUME"} : RequestControl(type)
    <3>1. PICK type \in {"PAUSE", "RESUME"} : RequestControl(type)
      BY <2>7
    <3> DEFINE m == [type |-> type, request |-> NextRequest]
    <3>2. NextRequest \in Requests
      BY <3>1, Minted DEF RequestControl
    <3>3. m \in Orders /\ m.request = counter + 1
      BY <3>2 DEF Orders, ControlOrders, NextRequest
    <3>4. /\ Posts(<<m>>, 1) /\ Spend("inputs", MaxInputs)
          /\ UNCHANGED <<current, tickets, commandStatus, answered>>
      BY <3>1 DEF RequestControl
    <3> HIDE DEF m
    <3>5. NewestIsKept
      BY <2>4, <3>4 DEF Kinds
    <3>6. QED BY <2>5, <3>3, <3>4, <3>5
  <2>8. CASE Save("manual")
    <3> DEFINE m == SaveRequest(NextRequest, Purpose("manual", 0, TRUE))
    <3>1. NextRequest \in Requests /\ "manual" \in SlotNames /\ 0 \in 0 .. MaxCommands
      BY <2>8, Minted, StoreAssumption DEF Save, SlotNames
    <3>2. Purpose("manual", 0, TRUE) \in Purposes
      BY <3>1, PurposesAre
    <3>3. m \in Orders /\ m.type \notin {"COMMAND", "PAUSE", "RESUME"}
      BY <3>1, <3>2 DEF SaveRequest, SaveRequests, Orders
    <3>4. /\ Posts(<<m>>, 1) /\ Spend("inputs", MaxInputs)
          /\ UNCHANGED <<current, tickets, commandStatus, answered>>
      BY <2>8 DEF Save, ui
    <3> HIDE DEF m
    <3>5. NewestIsKept
      BY <2>4, <3>4 DEF Kinds
    <3>6. QED BY <2>5, <3>3, <3>4, <3>5
  <2>9. CASE AcknowledgeAlert
    <3> DEFINE m == Command(NextRequest, 0)
    <3>1. NextRequest \in Requests /\ 0 \in 0 .. MaxCommands
      BY <2>9, Minted, StoreAssumption DEF AcknowledgeAlert
    <3>2. m \in Orders /\ m.request = counter + 1
      BY <3>1 DEF Command, Commands, Orders, NextRequest
    <3>3. /\ Posts(<<m>>, 1) /\ Spend("inputs", MaxInputs)
          /\ UNCHANGED <<current, tickets, commandStatus, answered>>
      BY <2>9 DEF AcknowledgeAlert, ui
    <3> HIDE DEF m
    <3>4. NewestIsKept
      BY <2>4, <3>3 DEF Kinds
    <3>5. QED BY <2>5, <3>2, <3>3, <3>4
  <2>10. CASE Load("manual")
    <3> DEFINE m == [type |-> "LOAD_GAME", save |-> Offered("manual").save]
    <3>1. Offered("manual").save \in Games
      BY <2>10 DEF Load, Offered, TypeInv, TypeOK, Entries, SlotNames
    <3>2. m \in Orders /\ m.type \notin {"COMMAND", "PAUSE", "RESUME"}
      BY <3>1 DEF Orders, LoadGames
    <3>3. /\ Posts(<<m>>, 0) /\ Spend("loads", MaxLoads)
          /\ UNCHANGED <<current, tickets, commandStatus, answered>>
      BY <2>10 DEF Load, ui
    <3> HIDE DEF m
    <3>4. NewestIsKept
      BY <2>4, <3>3 DEF Kinds
    <3>5. QED BY <2>5, <3>2, <3>3, <3>4
  <2>11. CASE Restart
    <3> DEFINE m == [type |-> "INIT_GAME"]
    <3>1. m \in Orders /\ m.type \notin {"COMMAND", "PAUSE", "RESUME"}
      BY DEF Orders, PlainOrders
    <3>2. /\ Posts(<<m>>, 0) /\ Spend("restarts", MaxRestarts)
          /\ UNCHANGED <<current, tickets, commandStatus, answered>>
      BY <2>11 DEF Restart
    <3> HIDE DEF m
    <3>3. NewestIsKept
      BY <2>4, <3>2 DEF Kinds
    <3>4. QED BY <2>5, <3>1, <3>2, <3>3
  <2>12. CASE RecoverFromWorkerFailure \/ WorkerStops
    <3>1. CASE RecoverFromWorkerFailure
      <4>1. UNCHANGED spent /\ workerFailure
        BY <3>1 DEF RecoverFromWorkerFailure
      <4>2. NewestIsKept
        BY <2>4, <4>1 DEF Kinds
      <4>3. QED BY <4>1, <4>2 DEF NewestIsKept
    <3>2. CASE WorkerStops
      <4>1. spent'["stops"] = spent["stops"] + 1
        BY <2>3, <3>2 DEF WorkerStops, Spend, Kinds
      <4>2. spent["stops"] \in Nat
        BY <2>3 DEF Kinds
      <4>3. spent'["stops"] # 0
        BY <4>1, <4>2
      <4>4. QED BY <2>1, <4>3 DEF Working
    <3>3. QED BY <2>12, <3>1, <3>2
  <2>13. ASSUME NewestIsKept, NEW r \in Requests, counter < r, counter' = r, current' = r,
                UNCHANGED <<queue, owed, outbox, workerFailure>>, commandStatus' = "pending",
                NEW c \in Commands, c.request = r, c.ticket = tickets',
                NEW s \in Seq(NewestOrders \cup NewestOrders'), inbox' = Append(s, c)
         PROVE  NewestIsKept'
    <3>1. \A q \in Requests : q <= counter => q <= counter' /\ q # current'
      BY <2>2, <2>3, <2>13
    <3>2. NewestCommands \subseteq NewestCommands'
      BY <3>1 DEF NewestCommands, Commands, Newest
    <3>3. NewestOrders \subseteq NewestOrders'
      <4>1. SUFFICES ASSUME NEW m \in NewestOrders PROVE m \in NewestOrders'
        OBVIOUS
      <4>2. m \in Orders
        BY DEF NewestOrders
      <4>3. m.type = "COMMAND" => Newest(m)'
        BY <3>1, <4>2, OrdersAre DEF NewestOrders, Commands, Newest
      <4>4. m.type \in {"PAUSE", "RESUME"} => m.request <= counter' /\ m.request # current'
        BY <3>1, <4>2, OrdersAre DEF NewestOrders, ControlOrders
      <4>5. QED BY <4>2, <4>3, <4>4 DEF NewestOrders
    <3>4. NewestResponses \subseteq NewestResponses'
      <4>1. SUFFICES ASSUME NEW m \in NewestResponses PROVE m \in NewestResponses'
        OBVIOUS
      <4>2. m \in Responses
        BY DEF NewestResponses
      <4>3. m.type \in {"COMMAND_ACCEPTED", "COMMAND_REJECTED"} => Newest(m)'
        BY <3>1, <4>2, ResponsesAre DEF NewestResponses, VerdictMessages, Newest
      <4>4. QED BY <4>2, <4>3 DEF NewestResponses
    <3>5. c \in NewestOrders'
      <4>1. c \in Orders /\ c.type = "COMMAND"
        BY <2>13 DEF Commands, Orders
      <4>2. r <= r
        BY <2>2, <2>13
      <4>3. QED BY <2>13, <4>1, <4>2 DEF NewestOrders, Newest
    <3>6. s \in Seq(NewestOrders')
      BY <2>13, <3>3, SeqMonotonic
    <3>7. inbox' \in Seq(NewestOrders')
      BY <2>13, <3>5, <3>6, AppendProperties
    <3>8. /\ queue' \in Seq(NewestCommands') /\ owed' \in Seq(NewestCommands')
          /\ outbox' \in Seq(NewestResponses')
      BY <2>13, <3>2, <3>4, SeqMonotonic DEF NewestIsKept
    <3>9. current' <= counter'
      BY <2>2, <2>13
    <3>10. QED BY <2>13, <3>7, <3>8, <3>9 DEF NewestIsKept
  <2>14. CASE SendMinor
    <3> DEFINE c == Command(NextRequest, tickets + 1)
    <3>1. /\ NextRequest \in Requests /\ tickets < MaxCommands /\ tickets' = tickets + 1
          /\ current' = NextRequest /\ commandStatus' = "pending" /\ UNCHANGED spent
          /\ Posts(<<c>>, 1)
      BY <2>14, Minted DEF SendMinor
    <3>2. counter < NextRequest /\ counter' = NextRequest /\ tickets' \in 0 .. MaxCommands
      <4>1. counter' = counter + 1
        BY <3>1 DEF Posts
      <4>2. MaxCommands \in Nat
        BY StoreAssumption
      <4>3. QED BY <2>3, <3>1, <4>1, <4>2 DEF NextRequest
    <3>3. c \in Commands /\ c \in Orders /\ c.request = NextRequest /\ c.ticket = tickets'
      BY <3>1, <3>2 DEF Command, Commands, Orders
    <3> HIDE DEF c
    <3>4. inbox' = Append(inbox, c) /\ UNCHANGED <<queue, owed, outbox, workerFailure>>
      BY <3>1, <3>3, PostedOne DEF Posts
    <3>5. NewestIsKept
      BY <2>4, <3>1 DEF Kinds
    <3>6. inbox \in Seq(NewestOrders \cup NewestOrders')
      BY <3>5, SeqMonotonic DEF NewestIsKept
    <3>7. QED BY <2>13, <3>1, <3>2, <3>3, <3>4, <3>5, <3>6
  <2>15. CASE SendMajor
    <3> DEFINE m == PreSave(NextRequest)
               c == Command(NextRequest + 1, tickets + 1)
    <3>1. /\ NextRequest \in Requests /\ NextRequest + 1 \in Requests
          /\ tickets < MaxCommands /\ tickets' = tickets + 1
          /\ current' = NextRequest + 1 /\ commandStatus' = "pending" /\ UNCHANGED spent
          /\ Posts(<<m, c>>, 2)
      BY <2>15, Minted DEF SendMajor
    <3>2. /\ counter < NextRequest + 1 /\ counter' = NextRequest + 1
          /\ tickets' \in 0 .. MaxCommands
      <4>1. counter' = counter + 2
        BY <3>1 DEF Posts
      <4>2. MaxCommands \in Nat
        BY StoreAssumption
      <4>3. QED BY <2>3, <3>1, <4>1, <4>2 DEF NextRequest
    <3>3. /\ c \in Commands /\ c \in Orders /\ c.request = NextRequest + 1
          /\ c.ticket = tickets'
      BY <3>1, <3>2 DEF Command, Commands, Orders
    <3>4. m \in NewestOrders' /\ m \in Orders
      <4>1. tickets + 1 \in 0 .. MaxCommands /\ "major-action" \in SlotNames
        BY <3>1, <3>2 DEF SlotNames
      <4>2. Purpose("major-action", tickets + 1, TRUE) \in Purposes
        BY <4>1, PurposesAre
      <4>3. QED BY <3>1, <4>2 DEF PreSave, SaveRequest, SaveRequests, NewestOrders, Orders
    <3> HIDE DEF m, c
    <3> DEFINE s == Append(inbox, m)
    <3>5. inbox' = Append(s, c) /\ UNCHANGED <<queue, owed, outbox, workerFailure>>
      BY <3>1, <3>3, <3>4, PostedTwo DEF Posts
    <3>6. NewestIsKept
      BY <2>4, <3>1 DEF Kinds
    <3>7. inbox \in Seq(NewestOrders \cup NewestOrders')
      BY <3>6, SeqMonotonic DEF NewestIsKept
    <3>8. s \in Seq(NewestOrders \cup NewestOrders')
      BY <3>4, <3>7, AppendProperties
    <3> HIDE DEF s
    <3>9. QED BY <2>13, <3>1, <3>2, <3>3, <3>5, <3>6, <3>8
  <2>16. ASSUME NewestIsKept, WorkerHandles \/ WorkerTick \/ WorkerThrows,
                UNCHANGED queue \/ queue' = <<>>,
                UNCHANGED owed \/ owed' = <<>> \/ owed' = owed \o queue
         PROVE  NewestIsKept'
    <3>1. queue' \in Seq(NewestCommands) /\ owed' \in Seq(NewestCommands)
      <4>1. queue \in Seq(NewestCommands) /\ owed \in Seq(NewestCommands)
        BY <2>16 DEF NewestIsKept
      <4>2. <<>> \in Seq(NewestCommands) /\ owed \o queue \in Seq(NewestCommands)
        BY <4>1, ConcatProperties
      <4>3. QED BY <2>16, <4>1, <4>2
    <3>2. QED BY <2>16, <3>1, NewestHandled
  <2>17. CASE WorkerHandles
    <3>1. PICK type : Handles(type)
      BY <2>17 DEF WorkerHandles, WorkerInit, WorkerLoad, WorkerRefusesLoad,
           WorkerRefusesCommand, WorkerQueuesCommand, WorkerDecidesCommand, WorkerSetSpeed,
           WorkerControl, WorkerSave
    <3>2. NewestIsKept
      BY <2>4, <3>1 DEF Kinds, Handles
    <3>3. CASE WorkerQueuesCommand
      <4>1. /\ queue' = Append(queue, Head(inbox)) /\ UNCHANGED owed /\ inbox # <<>>
            /\ Head(inbox).type = "COMMAND" /\ Head(inbox) \in Commands
        BY <3>3, Handled, OrdersAre DEF WorkerQueuesCommand
      <4>2. /\ queue \in Seq(NewestCommands) /\ owed \in Seq(NewestCommands)
            /\ inbox \in Seq(NewestOrders)
        BY <3>2 DEF NewestIsKept
      <4>3. Head(inbox) \in NewestOrders
        BY <4>1, <4>2, HeadTailProperties
      <4>4. Head(inbox) \in NewestCommands
        BY <4>1, <4>3 DEF NewestOrders, NewestCommands
      <4>5. queue' \in Seq(NewestCommands) /\ owed' \in Seq(NewestCommands)
        BY <4>1, <4>2, <4>4, AppendProperties
      <4>6. QED BY <2>17, <3>2, <4>5, NewestHandled
    <3>4. CASE ~WorkerQueuesCommand
      <4>1. /\ UNCHANGED queue \/ queue' = <<>>
            /\ UNCHANGED owed \/ owed' = <<>> \/ owed' = owed \o queue
        BY <2>17, <3>4 DEF WorkerHandles, WorkerInit, WorkerLoad, StartsGame,
             WorkerRefusesLoad, WorkerRefusesCommand, WorkerDecidesCommand, Decide,
             WorkerSetSpeed, WorkerControl, WorkerSave, worker
      <4>2. QED BY <2>16, <2>17, <3>2, <4>1
    <3>5. QED BY <3>3, <3>4
  <2>18. CASE WorkerTick
    <3>1. UNCHANGED spent \/ Spend("ticks", MaxTicks)
      BY <2>18 DEF WorkerTick
    <3>2. queue' = <<>> /\ UNCHANGED owed
      BY <2>18 DEF WorkerTick, Decide
    <3>3. NewestIsKept
      BY <2>4, <3>1 DEF Kinds
    <3>4. QED BY <2>16, <2>18, <3>2, <3>3
  <2>19. CASE WorkerThrows
    <3>1. queue' = <<>> /\ owed' = owed \o queue /\ Spend("throws", MaxThrows)
      BY <2>19 DEF WorkerThrows
    <3>2. NewestIsKept
      BY <2>4, <3>1 DEF Kinds
    <3>3. QED BY <2>16, <2>19, <3>1, <3>2
  <2>20. ASSUME NEW type, Receives(type)
         PROVE  /\ NewestIsKept /\ UNCHANGED <<tickets, queue, owed, workerFailure>>
                /\ outbox # <<>> /\ outbox' = Tail(outbox) /\ Head(outbox).type = type
                /\ Head(outbox) \in NewestResponses
    <3>1. NewestIsKept
      BY <2>4, <2>20 DEF Kinds, Receives
    <3>2. outbox \in Seq(NewestResponses)
      BY <3>1 DEF NewestIsKept
    <3>3. outbox # <<>>
      BY <2>20 DEF Receives
    <3>4. Head(outbox) \in NewestResponses
      BY <3>2, <3>3, HeadTailProperties
    <3>5. QED BY <2>20, <3>1, <3>4 DEF Receives, worker
  <2>21. CASE OnSnapshot
    <3>1. /\ Receives("SNAPSHOT") /\ UNCHANGED <<current, commandStatus, answered>>
      BY <2>21 DEF OnSnapshot, ui
    <3>2. PICK reason \in {None, "year", "month"} : Autosave(reason)
      BY <2>21, ReasonsAre DEF OnSnapshot
    <3>3. commandStatus' \in {"accepted", "rejected"} => answered'.command = tickets
      BY <2>20, <3>1 DEF NewestIsKept
    <3>4. CASE reason = None
      <4>1. UNCHANGED <<inbox, counter>> /\ counter <= counter'
        BY <2>3, <3>2, <3>4 DEF Autosave
      <4>2. QED BY <2>2, <2>3, <2>20, <3>1, <3>3, <4>1, NewestJoined
    <3>5. CASE reason # None
      <4> DEFINE timely == lastLine = Head(outbox).line
                 m == SaveRequest(NextRequest, Purpose(reason, 0, timely))
      <4>1. NextRequest \in Requests /\ inbox' = Append(inbox, m) /\ counter' = NextRequest
        BY <3>2, <3>5 DEF Autosave
      <4>2. reason \in SlotNames /\ 0 \in 0 .. MaxCommands
        BY <3>5, StoreAssumption DEF SlotNames
      <4>3. timely \in BOOLEAN
        OBVIOUS
      <4> HIDE DEF timely
      <4>4. Purpose(reason, 0, timely) \in Purposes
        BY <4>2, <4>3, PurposesAre
      <4>5. m \in NewestOrders'
        BY <4>1, <4>4 DEF SaveRequest, SaveRequests, NewestOrders, Orders
      <4> HIDE DEF m
      <4>6. counter' \in Nat /\ counter <= counter'
        BY <2>3, <4>1 DEF NextRequest
      <4>7. QED BY <2>2, <2>3, <2>20, <3>1, <3>3, <4>1, <4>5, <4>6, NewestJoined
    <3>6. QED BY <3>4, <3>5
  <2>22. ASSUME NEW type \in {"COMMAND_ACCEPTED", "COMMAND_REJECTED"}, NEW status,
                OnVerdict(type, status)
         PROVE  NewestIsKept'
    <3>1. Receives(type) /\ UNCHANGED <<current, inbox, counter>>
      BY <2>22 DEF OnVerdict
    <3>2. Head(outbox).request \in Requests /\ Newest(Head(outbox))
      BY <2>20, <3>1, ResponsesAre DEF NewestResponses, VerdictMessages
    <3>3. answered \in [control : 0 .. MaxCommands \cup {None},
                        command : 0 .. MaxCommands \cup {None}]
      BY DEF TypeInv, TypeOK
    <3>4. commandStatus' \in {"accepted", "rejected"} => answered'.command = tickets
      <4>1. CASE Settles \/ current # Head(outbox).request
        <5>1. commandStatus' = commandStatus /\ answered'.command = answered.command
          BY <2>22, <3>3, <4>1 DEF OnVerdict, ui
        <5>2. QED BY <2>20, <3>1, <5>1 DEF NewestIsKept
      <4>2. CASE ~Settles /\ current = Head(outbox).request
        <5>1. answered'.command = Head(outbox).ticket
          BY <2>22, <3>3, <4>2 DEF OnVerdict
        <5>2. QED BY <3>2, <4>2, <5>1 DEF Newest
      <4>3. QED BY <4>1, <4>2
    <3>5. counter' \in Nat /\ counter <= counter'
      BY <2>3, <3>1
    <3>6. QED BY <2>2, <2>3, <2>20, <3>1, <3>4, <3>5, NewestJoined
  <2>23. CASE OnSimulationError \/ OnSaveData
    <3>1. PICK type \in {"SIMULATION_ERROR", "SAVE_DATA"} : Receives(type)
      BY <2>23 DEF OnSimulationError, OnSaveData
    <3>2. UNCHANGED <<inbox, counter, current, commandStatus, answered>>
      BY <2>23 DEF OnSimulationError, OnSaveData, ui
    <3>3. commandStatus' \in {"accepted", "rejected"} => answered'.command = tickets
      BY <2>20, <3>1, <3>2 DEF NewestIsKept
    <3>4. counter' \in Nat /\ counter <= counter'
      BY <2>3, <3>2
    <3>5. QED BY <2>2, <2>3, <2>20, <3>1, <3>2, <3>3, <3>4, NewestJoined
  <2>24. CASE UNCHANGED vars
    <3>1. /\ UNCHANGED <<inbox, outbox, queue, owed, counter, current, tickets, commandStatus,
                         answered, workerFailure, spent>>
      BY <2>24 DEF vars, worker, ui
    <3>2. NewestIsKept
      BY <2>4, <3>1 DEF Kinds
    <3>3. commandStatus' \in {"accepted", "rejected"} => answered'.command = tickets
      BY <3>1, <3>2 DEF NewestIsKept
    <3>4. counter' \in Nat /\ counter <= counter'
      BY <2>3, <3>1
    <3>5. QED BY <2>2, <2>3, <3>1, <3>2, <3>3, <3>4, NewestJoined
  <2>25. QED
    BY <2>6, <2>7, <2>8, <2>9, <2>10, <2>11, <2>12, <2>14, <2>15, <2>17, <2>18, <2>19,
       <2>21, <2>22, <2>23, <2>24 DEF Next, Player, Listens
<1>3. QED BY <1>1, <1>2, TypeInvariant, PTL DEF Spec

\* Until the worker stops, the verdict shown is the one on the newest command, whatever
\* else was asked and answered meanwhile.
THEOREM StatusOfNewest == Spec => []StatusIsOfNewestCommand
<1>1. NewestInv => StatusIsOfNewestCommand
  BY DEF NewestInv, NewestIsKept, StatusIsOfNewestCommand
<1>2. QED BY <1>1, NewestInvariant, PTL

\* Every variable of the page, of the worker and of the saves keeps its type.
THEOREM TypeCorrect == Spec => []TypeOK
<1>1. TypeInv => TypeOK
  BY DEF TypeInv
<1>2. QED BY <1>1, TypeInvariant, PTL
=============================================================================
