----------------------------- MODULE SaveRecovery -----------------------------
(***************************************************************************)
(* Where save data goes: its slot, then the recovery ladder of the last    *)
(* few saves, in one IndexedDB store whose transactions are atomic and     *)
(* each of which the page awaits.  A rotation of the ladder is a chain of  *)
(* such transactions; slot writes, a load, a refused transaction, a        *)
(* damaged entry and the end of the page may fall between any two.         *)
(*                                                                         *)
(* A save is the number of the SAVE_DATA it came in: a larger one is newer.*)
(***************************************************************************)
EXTENDS Integers, Sequences, FiniteSets

CONSTANTS
  Slots,              \* the slots saves are asked for: manual and autosave
  Generations,        \* RECOVERY_GENERATIONS
  None,               \* no candidate
  MaxSaves,           \* bound: SAVE_DATA received
  MaxLoads,           \* bound: loads started
  MaxWriteFailures,   \* bound: transactions that abort
  MaxReadFailures,    \* bound: reads that fail though the entry is sound
  MaxDamage,          \* bound: entries damaged
  MaxCrashes          \* bound: times the page ends

ASSUME RecoveryAssumption ==
  /\ Generations \in Nat \ {0}
  /\ Slots \cap (0 .. Generations - 1) = {}
  /\ None \notin Slots \cup (0 .. Generations - 1)
  /\ {MaxSaves, MaxLoads, MaxWriteFailures, MaxReadFailures, MaxDamage,
      MaxCrashes} \subseteq Nat

Ladder == 0 .. Generations - 1        \* recovery:0 is the newest
Keys == Slots \cup Ladder

VARIABLES
  store,       \* the entry under each key
  made,        \* SAVE_DATA received so far
  writing,     \* slot writes on their way to the store, in order
  rotations,   \* the saves waiting to enter the ladder; the first is being rotated
  generation,  \* the generation the rotation is at
  older,       \* the entry it has read for that generation, not yet written
  reader,      \* the load in progress, or the last one
  spent,       \* how much of each bound is used up
  rotated,     \* ghost: the saves whose rotation completed, in order
  given_up,    \* ghost: the saves whose own rotation failed or died with the page
  before       \* ghost: the saves in the ladder when the last rotation began

rotation == <<rotations, generation, older, rotated, given_up, before>>
vars == <<store, made, writing, rotation, reader, spent>>

Missing == [save |-> 0, sound |-> TRUE]
Sound(n) == [save |-> n, sound |-> TRUE]

\* load resolves to a save: there is one and validateEnvelope accepts it.
Readable(entry) == entry.save # 0 /\ entry.sound

InLadder == {store[g].save : g \in {h \in Ladder : Readable(store[h])}}

\* What is bounded, and how much of each bound is used.
Counters == {"loads", "writes", "reads", "damage", "crashes"}

Count(what) == spent' = [spent EXCEPT ![what] = @ + 1]
-----------------------------------------------------------------------------
Init ==
  /\ store = [k \in Keys |-> Missing]
  /\ made = 0
  /\ writing = <<>>
  /\ rotations = <<>>
  /\ generation = Generations - 1
  /\ older = Missing
  /\ reader = None
  /\ spent = [what \in Counters |-> 0]
  /\ rotated = <<>>
  /\ given_up = {}
  /\ before = {}

(***************************************************************************)
(* A slot write, then its place in the queue of rotations.  Writes to the  *)
(* one object store are done in the order they were asked for.             *)
(***************************************************************************)
SaveData(slot) ==
  /\ made < MaxSaves
  /\ made' = made + 1
  /\ writing' = Append(writing, [slot |-> slot, save |-> made + 1])
  /\ UNCHANGED <<store, rotation, reader, spent>>

WriteSlot ==
  /\ writing # <<>>
  /\ store' = [store EXCEPT ![Head(writing).slot] = Sound(Head(writing).save)]
  /\ rotations' = Append(rotations, Head(writing).save)
  /\ writing' = Tail(writing)
  /\ UNCHANGED <<made, generation, older, rotated, given_up, before, reader, spent>>

\* A save that could not be written to its slot is not rotated either.
WriteSlotFails ==
  /\ writing # <<>>
  /\ spent["writes"] < MaxWriteFailures
  /\ Count("writes")
  /\ writing' = Tail(writing)
  /\ UNCHANGED <<store, made, rotation, reader>>

(***************************************************************************)
(* rotateNow: from the oldest generation down, read the next newer one and *)
(* copy it; then write the save as generation 0.                           *)
(***************************************************************************)
Starting == generation = Generations - 1 /\ older = Missing

Remember == before' = IF Starting THEN InLadder ELSE before

Rotating == rotations # <<>>

\* Slip: the entry copied is the generation's own.
ReadOlderReadsSame ==
  /\ Rotating /\ generation > 0 /\ older = Missing
  /\ IF Readable(store[generation])
     THEN older' = store[generation] /\ UNCHANGED generation
     ELSE generation' = generation - 1 /\ UNCHANGED older
  /\ Remember
  /\ UNCHANGED <<store, made, writing, rotations, rotated, given_up, reader, spent>>

\* A generation that is missing or does not read is passed over.
ReadOlder ==
  /\ Rotating /\ generation > 0 /\ older = Missing
  /\ IF Readable(store[generation - 1])
     THEN older' = store[generation - 1] /\ UNCHANGED generation
     ELSE generation' = generation - 1 /\ UNCHANGED older
  /\ Remember
  /\ UNCHANGED <<store, made, writing, rotations, rotated, given_up, reader, spent>>

\* So is one whose read fails just now.
ReadOlderFails ==
  /\ Rotating /\ generation > 0 /\ older = Missing
  /\ Readable(store[generation - 1])
  /\ spent["reads"] < MaxReadFailures
  /\ Count("reads")
  /\ generation' = generation - 1
  /\ Remember
  /\ UNCHANGED <<store, made, writing, rotations, older, rotated, given_up, reader>>

WriteOlder ==
  /\ Rotating /\ generation > 0 /\ older # Missing
  /\ store' = [store EXCEPT ![generation] = older]
  /\ generation' = generation - 1
  /\ older' = Missing
  /\ UNCHANGED <<made, writing, rotations, rotated, given_up, before, reader, spent>>

WriteNewest ==
  /\ Rotating /\ generation = 0
  /\ store' = [store EXCEPT ![0] = Sound(Head(rotations))]
  /\ rotations' = Tail(rotations)
  /\ rotated' = Append(rotated, Head(rotations))
  /\ generation' = Generations - 1
  /\ Remember
  /\ UNCHANGED <<made, writing, older, given_up, reader, spent>>

\* Slips: a rotation goes on past a write that failed; a failed rotation
\* blocks every rotation after it.
RotationFailsGoesOn ==
  /\ Rotating
  /\ older # Missing
  /\ spent["writes"] < MaxWriteFailures
  /\ Count("writes")
  /\ generation' = generation - 1
  /\ older' = Missing
  /\ UNCHANGED <<store, made, writing, rotations, rotated, given_up, before, reader>>

RotationFailsForAll ==
  /\ Rotating
  /\ older # Missing \/ generation = 0
  /\ spent["writes"] < MaxWriteFailures
  /\ Count("writes")
  /\ rotations' = <<>>
  /\ given_up' = given_up \cup {Head(rotations)}
  /\ generation' = Generations - 1
  /\ older' = Missing
  /\ UNCHANGED <<store, made, writing, rotated, before, reader>>

RotationFails ==
  /\ Rotating
  /\ older # Missing \/ generation = 0
  /\ spent["writes"] < MaxWriteFailures
  /\ Count("writes")
  /\ rotations' = Tail(rotations)
  /\ given_up' = given_up \cup {Head(rotations)}
  /\ generation' = Generations - 1
  /\ older' = Missing
  /\ UNCHANGED <<store, made, writing, rotated, before, reader>>

(***************************************************************************)
(* loadWithRecovery: the slot asked for, then the ladder from the newest;  *)
(* the first candidate that reads and validates is offered.  The ghost     *)
(* steady holds the candidates that were trustworthy when the load began   *)
(* and have neither been damaged nor refused a read since.                 *)
(***************************************************************************)
Loading == reader # None /\ ~reader.done

StartLoad(slot) ==
  /\ ~Loading
  /\ spent["loads"] < MaxLoads
  /\ Count("loads")
  /\ reader' = [want |-> slot, at |-> slot, done |-> FALSE, from |-> None, save |-> 0,
                steady |-> {[key |-> k, save |-> store[k].save] :
                              k \in {h \in Ladder \cup {slot} : Readable(store[h])}}]
  /\ UNCHANGED <<store, made, writing, rotation>>

\* Slip: the ladder is searched from the oldest generation.
RefusedFromOldest ==
  IF reader.at = 0
  THEN [reader EXCEPT !.done = TRUE]
  ELSE [reader EXCEPT !.at = IF @ = reader.want THEN Generations - 1 ELSE @ - 1]

\* Where the load goes when the candidate it is at cannot be trusted.
Refused ==
  IF reader.at = Generations - 1
  THEN [reader EXCEPT !.done = TRUE]
  ELSE [reader EXCEPT !.at = IF @ = reader.want THEN 0 ELSE @ + 1]

Unsteady(r, key) == [r EXCEPT !.steady = {c \in @ : c.key # key}]

ReadCandidate ==
  /\ Loading
  /\ reader' = IF Readable(store[reader.at])
               THEN [reader EXCEPT !.done = TRUE, !.from = reader.at,
                                   !.save = store[reader.at].save]
               ELSE Refused
  /\ UNCHANGED <<store, made, writing, rotation, spent>>

ReadCandidateFails ==
  /\ Loading
  /\ Readable(store[reader.at])
  /\ spent["reads"] < MaxReadFailures
  /\ Count("reads")
  /\ reader' = Unsteady(Refused, reader.at)
  /\ UNCHANGED <<store, made, writing, rotation>>

(***************************************************************************)
(* The environment: an entry is damaged; the page ends and starts again.   *)
(***************************************************************************)
Damage(key) ==
  /\ Readable(store[key])
  /\ spent["damage"] < MaxDamage
  /\ Count("damage")
  /\ store' = [store EXCEPT ![key].sound = FALSE]
  /\ before' = IF key \in Ladder THEN before \ {store[key].save} ELSE before
  /\ reader' = IF Loading THEN Unsteady(reader, key) ELSE reader
  /\ UNCHANGED <<made, writing, rotations, generation, older, rotated, given_up>>

Crash ==
  /\ spent["crashes"] < MaxCrashes
  /\ Count("crashes")
  /\ writing' = <<>>
  /\ rotations' = <<>>
  /\ given_up' = given_up \cup {rotations[i] : i \in DOMAIN rotations}
  /\ generation' = Generations - 1
  /\ older' = Missing
  /\ reader' = None
  /\ UNCHANGED <<store, made, rotated, before>>

Rotate == ReadOlder \/ WriteOlder \/ WriteNewest

Next ==
  \/ \E slot \in Slots : SaveData(slot) \/ StartLoad(slot)
  \/ WriteSlot
  \/ WriteSlotFails
  \/ Rotate
  \/ ReadOlderFails
  \/ RotationFails
  \/ ReadCandidate
  \/ ReadCandidateFails
  \/ \E key \in Keys : Damage(key)
  \/ Crash

Spec == Init /\ [][Next]_vars

\* A transaction that was asked for completes or fails.
FairSpec == Spec /\ WF_vars(WriteSlot) /\ WF_vars(Rotate) /\ WF_vars(ReadCandidate)
-----------------------------------------------------------------------------
Saves == 1 .. MaxSaves
Entries == [save : 0 .. MaxSaves, sound : BOOLEAN]
SlotWrites == [slot : Slots, save : Saves]
Loads == [want : Slots, at : Keys, done : BOOLEAN, from : Keys \cup {None},
          save : 0 .. MaxSaves, steady : SUBSET [key : Keys, save : Saves]]
Spent == [Counters -> Nat]

TypeOK ==
  /\ store \in [Keys -> Entries]
  /\ made \in 0 .. MaxSaves
  /\ writing \in Seq(SlotWrites)
  /\ rotations \in Seq(Saves)
  /\ generation \in Ladder
  /\ older \in Entries /\ older.sound
  /\ reader \in {None} \cup Loads
  /\ spent \in Spent
  /\ rotated \in Seq(Saves)
  /\ given_up \subseteq Saves
  /\ before \subseteq Saves

\* Down the ladder no entry is newer than the one above it, at every point of a
\* rotation and after any failure.
NewestFirst ==
  \A g \in Ladder : \A h \in 0 .. g :
    store[g].save # 0 => store[h].save >= store[g].save

\* When nothing went wrong and no rotation is under way, the ladder is exactly
\* the last saves, newest first.
Untroubled == \A what \in {"writes", "reads", "damage", "crashes"} : spent[what] = 0

LadderIsTheLastSaves ==
  Untroubled /\ Starting =>
    \A g \in Ladder :
      store[g] = IF g < Len(rotated) THEN Sound(rotated[Len(rotated) - g]) ELSE Missing

(***************************************************************************)
(* Generation 0 is always the newest (recovery.ts:24), and rotations that  *)
(* overlap neither copy a save into two generations nor drop one           *)
(* (recovery.ts:29).                                                       *)
(***************************************************************************)
LadderInOrder == NewestFirst /\ LadderIsTheLastSaves

(***************************************************************************)
(* A rotation, finished, failed half-way or cut off by the end of the      *)
(* page, costs the ladder at most one of the saves it held (recovery.ts:25)*)
(* This is so only while every read of a sound entry succeeds.             *)
(***************************************************************************)
LosesAtMostOne == Cardinality(before \ InLadder) <= 1

LosesAtMostOneIfReadable == spent["reads"] = 0 => LosesAtMostOne

(***************************************************************************)
(* A corrupt write and a corrupt predecessor still leave something to go   *)
(* back to (recovery.ts:8): copying entries down the ladder never spreads  *)
(* damage.  Once the ladder was filled, no more generations are unreadable *)
(* than entries were damaged and reads failed, not even mid-rotation.      *)
(***************************************************************************)
SomethingToGoBackTo ==
  Len(rotated) >= Generations =>
    Cardinality({g \in Ladder : ~Readable(store[g])}) <= spent["damage"] + spent["reads"]

(***************************************************************************)
(* A load that runs while the ladder rotates offers the slot that was      *)
(* asked for if it can be trusted, else nothing older than the best        *)
(* generation there was, and comes back empty only if nothing held; and    *)
(* there is something to go back to (SomethingToGoBackTo).                 *)
(***************************************************************************)
LoadFallsBackToNewest ==
  /\ SomethingToGoBackTo
  /\ reader # None /\ reader.done =>
       \A c \in reader.steady :
         /\ reader.from # None
         /\ c.key = reader.want => reader.from = reader.want
         /\ c.key \in Ladder /\ reader.from \in Ladder => reader.save >= c.save

(***************************************************************************)
(* A failed rotation must not block every rotation after it                *)
(* (recovery.ts:46): every save waiting to enter the ladder enters it,     *)
(* unless its own rotation fails or the page ends.                         *)
(***************************************************************************)
QueuedIsRotated ==
  \A n \in Saves :
    (\E i \in DOMAIN rotations : rotations[i] = n) ~>
      (n \in given_up \/ \E i \in DOMAIN rotated : rotated[i] = n)
=============================================================================
