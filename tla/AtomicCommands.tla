---------------------------- MODULE AtomicCommands ----------------------------
(***************************************************************************)
(* What the mutation boundary promises, with no draft, no queue and no     *)
(* streams: a command is decided in one step, which either moves the hotel *)
(* on by one version or changes nothing but the record of the refusal.     *)
(***************************************************************************)
EXTENDS Integers, Sequences

CONSTANTS
  Ids,     \* command ids
  Hotels,  \* values of the hotel
  None     \* no save

VARIABLES
  hotel,    \* the hotel a reader may be shown
  rng,      \* how many random numbers the hotel has used
  emitted,  \* how many events the hotel has emitted
  version,  \* the state version
  verdicts, \* every verdict so far: an id and whether it was accepted
  saved     \* the career as it was last saved

world == <<hotel, rng, emitted>>
career == <<hotel, rng, emitted, version, verdicts>>
vars == <<hotel, rng, emitted, version, verdicts, saved>>

Init ==
  /\ hotel \in Hotels
  /\ rng = 0
  /\ emitted = 0
  /\ version = 0
  /\ verdicts = <<>>
  /\ saved = None

\* The hotel changes; used random numbers and emitted events stay used.
Moves ==
  /\ hotel' \in Hotels
  /\ rng' \in Nat /\ rng' >= rng
  /\ emitted' \in Nat /\ emitted' >= emitted

Accept(id) ==
  /\ Moves
  /\ version' = version + 1
  /\ verdicts' = Append(verdicts, [id |-> id, accepted |-> TRUE])
  /\ UNCHANGED saved

Refuse(id) ==
  /\ verdicts' = Append(verdicts, [id |-> id, accepted |-> FALSE])
  /\ UNCHANGED <<world, version, saved>>

\* Time passes: the version counts commands, so it does not move.
PassTime ==
  /\ Moves
  /\ UNCHANGED <<version, verdicts, saved>>

Save ==
  /\ saved' = career
  /\ UNCHANGED career

Restore ==
  /\ saved # None
  /\ career' = saved
  /\ UNCHANGED saved

Next ==
  \/ \E id \in Ids : Accept(id) \/ Refuse(id)
  \/ PassTime
  \/ Save
  \/ Restore

Spec == Init /\ [][Next]_vars
=============================================================================
