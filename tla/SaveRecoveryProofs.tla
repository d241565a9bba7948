-------------------------- MODULE SaveRecoveryProofs --------------------------
(***************************************************************************)
(* Theorems about SaveRecovery, for every number of generations and every  *)
(* bound: the ladder stays in order, a rotation costs it at most one save, *)
(* and a load that runs meanwhile falls back to the newest.                *)
(*                                                                         *)
(* None of the three is inductive.  Each speaks of the ladder between      *)
(* rotations, and the proofs say what holds half-way through one: which    *)
(* entries are already copied, which one is about to be overwritten, how   *)
(* many may be unreadable, and which candidates a load still has ahead.    *)
(***************************************************************************)
EXTENDS SaveRecovery, SequenceTheorems, FiniteSetTheorems, TLAPS

-----------------------------------------------------------------------------
\* The saves on their way are in the order they were made: those waiting for the
\* ladder, then those waiting for their slot; and they are newer than the ladder.
WritesLined == \A i, j \in 1 .. Len(writing) : i < j => writing[i].save < writing[j].save
RotationsLined == \A i, j \in 1 .. Len(rotations) : i < j => rotations[i] < rotations[j]
RotationsFirst ==
  \A i \in 1 .. Len(rotations), j \in 1 .. Len(writing) : rotations[i] < writing[j].save
MadeLast ==
  /\ \A i \in 1 .. Len(rotations) : rotations[i] <= made
  /\ \A j \in 1 .. Len(writing) : writing[j].save <= made
LadderBehind ==
  \A g \in Ladder :
    /\ store[g].save <= made
    /\ \A i \in 1 .. Len(rotations) : store[g].save < rotations[i]
    /\ \A j \in 1 .. Len(writing) : store[g].save < writing[j].save

Lined == WritesLined /\ RotationsLined /\ RotationsFirst /\ MadeLast /\ LadderBehind

\* The copy a rotation holds is of the entry above the one it will replace.
Copying ==
  older # Missing =>
    /\ generation > 0
    /\ older.save # 0
    /\ older.save = store[generation - 1].save

\* The k-th newest of the saves whose rotation completed.
Latest(k) == IF k < Len(rotated) THEN Sound(rotated[Len(rotated) - k]) ELSE Missing

\* Half-way down nothing went wrong: below the generation the rotation is at
\* every entry has moved down by one.
Shifted ==
  Untroubled =>
    /\ \A k \in Ladder :
         store[k] = IF k > generation THEN Latest(k - 1) ELSE Latest(k)
    /\ older # Missing => older = store[generation - 1]

\* The entry about to be overwritten is in the ladder once more, further down.
CopiedDown ==
  store[generation].save \in before =>
    \E k \in Ladder :
      k > generation /\ Readable(store[k]) /\ store[k].save = store[generation].save

\* A rotation that has not yet written has lost nothing, and the one that has
\* loses no second save.
Kept ==
  spent["reads"] = 0 =>
    /\ \E x \in 0 .. MaxSaves : before \ InLadder \subseteq {x}
    /\ generation = Generations - 1 /\ older # Missing => before \subseteq InLadder
    /\ generation < Generations - 1 /\ Readable(store[generation]) => CopiedDown

\* The generations that hold nothing, and how many a ladder not yet filled has.
Unreadable == {g \in Ladder : ~Readable(store[g])}
Due(n) == IF Generations - Len(rotated) > n THEN Generations - Len(rotated) - n ELSE 0

\* Mid-rotation one generation fewer is left to fill, if every one that holds
\* nothing lies below.
Filled ==
  /\ Cardinality(Unreadable) <= Due(0) + spent["damage"] + spent["reads"]
  /\ (\A h \in 0 .. generation : Readable(store[h])) =>
       Cardinality(Unreadable) <= Due(1) + spent["damage"] + spent["reads"]

\* What a load has yet to look at: the candidates that were sound when it began
\* are ahead of it, and hold nothing older than they did.
Ahead(c) ==
  /\ Readable(store[c.key])
  /\ c.key = reader.want \/ c.key \in Ladder
  /\ c.key = reader.want => reader.at = reader.want
  /\ c.key \in Ladder =>
       /\ store[c.key].save >= c.save
       /\ reader.at = reader.want \/ reader.at <= c.key

Searched == Loading => \A c \in reader.steady : Ahead(c)

\* What a load that is over has found.
Found ==
  reader # None /\ reader.done =>
    \A c \in reader.steady :
      /\ reader.from # None
      /\ c.key = reader.want => reader.from = reader.want
      /\ c.key \in Ladder /\ reader.from \in Ladder => reader.save >= c.save

\* A load is at the slot it was asked for, at no other, or on the ladder.
Somewhere == reader # None => reader.at = reader.want \/ reader.at \in Ladder

TypeInv == TypeOK /\ Somewhere

OrderInv == Lined /\ Copying /\ NewestFirst

-----------------------------------------------------------------------------
\* Every action keeps every variable in its type, and a load where it can be.
LEMMA TypeInvariant == Spec => []TypeInv
<1> USE RecoveryAssumption
<1>1. ASSUME Init PROVE TypeInv
  BY <1>1 DEF Init, TypeInv, TypeOK, Somewhere, Missing, Entries, Keys, Ladder, Saves, Spent
<1>2. ASSUME TypeInv, [Next]_vars PROVE TypeInv'
  <2> USE <1>2 DEF TypeInv, TypeOK, rotation
  <2>a. /\ Count("loads") => spent' \in Spent
        /\ Count("writes") => spent' \in Spent
        /\ Count("reads") => spent' \in Spent
        /\ Count("damage") => spent' \in Spent
        /\ Count("crashes") => spent' \in Spent
    <3>1. ASSUME NEW what \in Counters, Count(what) PROVE spent' \in Spent
      BY SMTT(40), <3>1 DEF Count, Spent
    <3>2. {"loads", "writes", "reads", "damage", "crashes"} = Counters
      BY DEF Counters
    <3>3. QED BY <3>1, <3>2
  <2>b. InLadder \subseteq Saves
    BY DEF InLadder, Readable, Entries, Saves, Keys
  <2>c. /\ Missing \in Entries /\ Missing.sound
        /\ Generations - 1 \in Ladder
    BY DEF Missing, Entries, Ladder
  <2>1. ASSUME NEW slot \in Slots, SaveData(slot) PROVE TypeInv'
    <3>1. made + 1 \in 0 .. MaxSaves /\ made + 1 \in Saves
      BY <2>1 DEF SaveData, Saves
    <3>2. [slot |-> slot, save |-> made + 1] \in SlotWrites
      BY <3>1 DEF SlotWrites
    <3>3. writing' \in Seq(SlotWrites)
      BY <2>1, <3>2, AppendProperties DEF SaveData
    <3>4. QED BY <2>1, <3>1, <3>3 DEF SaveData, Somewhere
  <2>2. ASSUME NEW slot \in Slots, StartLoad(slot) PROVE TypeInv'
    <3>1. \A k \in Keys : Readable(store[k]) => store[k].save \in Saves
      BY DEF Readable, Entries, Saves
    <3>2. reader' \in Loads /\ reader'.at = reader'.want
      BY <2>2, <3>1 DEF StartLoad, Loads, Keys
    <3>3. spent' \in Spent
      BY <2>2, <2>a DEF StartLoad
    <3>4. QED BY <2>2, <3>2, <3>3 DEF StartLoad, Somewhere
  <2>3. CASE WriteSlot
    <3>1. Head(writing) \in SlotWrites /\ Tail(writing) \in Seq(SlotWrites)
      BY <2>3, HeadTailProperties DEF WriteSlot
    <3>2. Head(writing).slot \in Keys /\ Head(writing).save \in Saves
      BY <3>1 DEF SlotWrites, Keys
    <3>3. rotations' \in Seq(Saves)
      BY <2>3, <3>2, AppendProperties DEF WriteSlot
    <3>4. store' \in [Keys -> Entries]
      BY SMTT(40), <2>3, <3>2 DEF WriteSlot, Sound, Entries, Saves
    <3>5. QED BY <2>3, <3>1, <3>3, <3>4 DEF WriteSlot, Somewhere
  <2>4. CASE WriteSlotFails
    <3>1. Tail(writing) \in Seq(SlotWrites)
      BY <2>4, HeadTailProperties DEF WriteSlotFails
    <3>2. QED BY <2>4, <3>1, <2>a DEF WriteSlotFails, Somewhere
  <2>5. ASSUME generation > 0 PROVE generation - 1 \in Ladder
    BY <2>5 DEF Ladder
  <2>6. Remember => before' \subseteq Saves
    BY <2>b DEF Remember
  <2>7. CASE ReadOlder
    <3>1. generation' \in Ladder
      BY <2>7, <2>5 DEF ReadOlder
    <3>2. store[generation - 1] \in Entries
      BY <2>7, <2>5 DEF ReadOlder, Keys
    <3>3. older' \in Entries /\ older'.sound
      BY <2>7, <3>2 DEF ReadOlder, Readable
    <3>4. QED BY <2>7, <2>6, <3>1, <3>3 DEF ReadOlder, Somewhere
  <2>8. CASE ReadOlderFails
    BY <2>8, <2>5, <2>6, <2>a DEF ReadOlderFails, Somewhere
  <2>9. CASE WriteOlder
    BY <2>9, <2>5, <2>c DEF WriteOlder, Somewhere
  <2>10. CASE WriteNewest
    <3>1. Head(rotations) \in Saves /\ Tail(rotations) \in Seq(Saves)
      BY <2>10, HeadTailProperties DEF WriteNewest, Rotating
    <3>2. rotated' \in Seq(Saves)
      BY <2>10, <3>1, AppendProperties DEF WriteNewest
    <3>3. store' \in [Keys -> Entries]
      BY SMTT(40), <2>10, <3>1 DEF WriteNewest, Sound, Entries, Saves, Keys, Ladder
    <3>4. QED BY <2>10, <2>6, <2>c, <3>1, <3>2, <3>3 DEF WriteNewest, Somewhere
  <2>11. CASE RotationFails
    <3>1. Head(rotations) \in Saves /\ Tail(rotations) \in Seq(Saves)
      BY <2>11, HeadTailProperties DEF RotationFails, Rotating
    <3>2. QED BY <2>11, <2>a, <2>c, <3>1 DEF RotationFails, Somewhere
  <2>12. Loading => /\ reader \in Loads
                    /\ Refused \in Loads
                    /\ Refused.at = Refused.want \/ Refused.at \in Ladder
                    /\ \A r \in Loads, k \in Keys :
                         /\ Unsteady(r, k) \in Loads
                         /\ Unsteady(r, k).at = r.at /\ Unsteady(r, k).want = r.want
    <3>1. SUFFICES ASSUME Loading
                   PROVE  /\ Refused \in Loads
                          /\ Refused.at = Refused.want \/ Refused.at \in Ladder
      BY DEF Loading, Unsteady, Loads
    <3>2. reader \in Loads
      BY <3>1 DEF Loading
    <3>3. CASE reader.at = Generations - 1
      BY <2>c, <3>2, <3>3 DEF Refused, Loads
    <3>4. CASE reader.at # Generations - 1
      <4>1. (IF reader.at = reader.want THEN 0 ELSE reader.at + 1) \in Ladder
        BY SMTT(40), <3>1, <3>4 DEF Somewhere, Loading, Ladder
      <4>2. QED BY <3>2, <3>4, <4>1 DEF Refused, Loads, Keys
    <3>5. QED BY <3>3, <3>4
  <2>13. CASE ReadCandidate
    <3>1. reader.at \in Keys /\ store[reader.at].save \in 0 .. MaxSaves
      BY <2>13, <2>12 DEF ReadCandidate, Loads, Entries
    <3>2. reader' \in Loads
      BY <2>13, <2>12, <3>1 DEF ReadCandidate, Loads
    <3>3. Somewhere'
      BY <2>13, <2>12 DEF ReadCandidate, Somewhere, Loads, Loading
    <3>4. QED BY <2>13, <3>2, <3>3 DEF ReadCandidate
  <2>14. CASE ReadCandidateFails
    <3>1. reader.at \in Keys
      BY <2>14, <2>12 DEF ReadCandidateFails, Loads
    <3>2. reader' \in Loads
      BY <2>14, <2>12, <3>1 DEF ReadCandidateFails
    <3>3. Somewhere'
      BY <2>14, <2>12, <3>1, <3>2 DEF ReadCandidateFails, Somewhere, Unsteady
    <3>4. QED BY <2>14, <2>a, <3>2, <3>3 DEF ReadCandidateFails
  <2>15. ASSUME NEW key \in Keys, Damage(key) PROVE TypeInv'
    <3>1. store' \in [Keys -> Entries]
      BY <2>15 DEF Damage, Entries
    <3>2. reader' \in {None} \cup Loads
      BY <2>15, <2>12 DEF Damage
    <3>3. Somewhere'
      <4>1. CASE Loading
        BY <2>15, <2>12, <4>1 DEF Damage, Somewhere, Loading
      <4>2. CASE ~Loading
        BY <2>15, <4>2 DEF Damage, Somewhere
      <4>3. QED BY <4>1, <4>2
    <3>4. QED BY <2>15, <2>a, <3>1, <3>2, <3>3 DEF Damage
  <2>16. CASE Crash
    <3>1. \A i \in DOMAIN rotations : rotations[i] \in Saves
      BY ElementOfSeq, LenProperties
    <3>2. QED BY <2>16, <2>a, <2>c, <3>1 DEF Crash, Somewhere
  <2>17. CASE UNCHANGED vars
    BY <2>17 DEF vars, Somewhere
  <2>18. QED
    BY <2>1, <2>2, <2>3, <2>4, <2>7, <2>8, <2>9, <2>10, <2>11, <2>13, <2>14, <2>15,
       <2>16, <2>17 DEF Next, Rotate
<1>3. QED BY <1>1, <1>2, PTL DEF Spec

\* Every variable keeps to its type: a generation never leaves the ladder, and no
\* copy is made of an entry that does not read.
THEOREM TypeCorrect == Spec => []TypeOK
<1>1. TypeInv => TypeOK
  BY DEF TypeInv
<1>2. QED BY <1>1, TypeInvariant, PTL

-----------------------------------------------------------------------------
(***************************************************************************)
(* The ladder is in order.                                                 *)
(***************************************************************************)

\* Numbers on their way, and in the ladder, are numbers.
LEMMA Numbers ==
  ASSUME TypeInv
  PROVE  /\ Len(writing) \in Nat /\ Len(rotations) \in Nat /\ Len(rotated) \in Nat
         /\ \A i \in 1 .. Len(writing) :
              writing[i].save \in Saves /\ writing[i].slot \in Slots
         /\ \A i \in 1 .. Len(rotations) : rotations[i] \in Saves
         /\ \A i \in 1 .. Len(rotated) : rotated[i] \in Saves
         /\ \A k \in Keys : store[k].save \in Nat /\ store[k].sound \in BOOLEAN
         /\ made \in Nat /\ MaxSaves \in Nat /\ generation \in Nat
         /\ generation <= Generations - 1 /\ Generations \in Nat
<1> USE RecoveryAssumption DEF TypeInv, TypeOK
<1>1. Len(writing) \in Nat /\ Len(rotations) \in Nat /\ Len(rotated) \in Nat
  BY LenProperties
<1>2. ASSUME NEW i \in 1 .. Len(writing)
      PROVE  writing[i].save \in Saves /\ writing[i].slot \in Slots
  <2>1. writing[i] \in SlotWrites
    BY <1>1, ElementOfSeq
  <2>2. QED BY <2>1 DEF SlotWrites
<1>3. \A i \in 1 .. Len(rotations) : rotations[i] \in Saves
  BY <1>1, ElementOfSeq
<1>4. \A i \in 1 .. Len(rotated) : rotated[i] \in Saves
  BY <1>1, ElementOfSeq
<1>5. \A k \in Keys : store[k] \in Entries
  OBVIOUS
<1>6. \A e \in Entries : e.save \in Nat /\ e.sound \in BOOLEAN
  BY DEF Entries
<1>7. QED BY <1>1, <1>2, <1>3, <1>4, <1>5, <1>6 DEF Ladder

\* What is left of a queue when its head is taken.
LEMMA TailOfQueue ==
  ASSUME NEW S, NEW s \in Seq(S), s # <<>>
  PROVE  /\ Len(s) \in Nat \ {0} /\ Head(s) = s[1]
         /\ Len(Tail(s)) = Len(s) - 1
         /\ \A i \in 1 .. Len(Tail(s)) : Tail(s)[i] = s[i + 1]
<1>1. Len(s) \in Nat \ {0} /\ Head(s) = s[1]
  BY EmptySeq, LenProperties
<1>2. Len(Tail(s)) = Len(s) - 1 /\ \A i \in 1 .. Len(Tail(s)) : Tail(s)[i] = s[i + 1]
  BY HeadTailProperties
<1>3. QED BY <1>1, <1>2

\* A queue that has grown.
LEMMA EndOfQueue ==
  ASSUME NEW S, NEW s \in Seq(S), NEW x \in S
  PROVE  /\ Len(s) \in Nat /\ Len(Append(s, x)) = Len(s) + 1
         /\ \A i \in 1 .. Len(s) : Append(s, x)[i] = s[i]
         /\ Append(s, x)[Len(s) + 1] = x
<1>1. Len(s) \in Nat
  BY LenProperties
<1>2. QED BY <1>1, AppendProperties

\* The ladder and the queues stay in order through every step.
LEMMA OrderInvariant == Spec => []OrderInv
<1> USE RecoveryAssumption
<1>1. ASSUME Init PROVE OrderInv
  <2>1. Len(writing) = 0 /\ Len(rotations) = 0 /\ older = Missing
    BY <1>1 DEF Init
  <2>2. \A g \in Ladder : store[g].save = 0 /\ made = 0
    BY <1>1 DEF Init, Keys, Missing
  <2>3. QED BY <2>1, <2>2
     DEF OrderInv, Lined, WritesLined, RotationsLined, RotationsFirst,
         MadeLast, LadderBehind, Copying, NewestFirst
<1>2. ASSUME TypeInv, TypeInv', OrderInv, [Next]_vars PROVE OrderInv'
  <2> USE <1>2
  <2>a. Lined /\ Copying /\ NewestFirst
    BY DEF OrderInv
  <2>b. \A g \in Ladder : g \in Keys /\ g \in Nat /\ g \notin Slots
    BY DEF Keys, Ladder
  <2>1. ASSUME NEW slot \in Slots, SaveData(slot) PROVE OrderInv'
    <3>1. /\ Len(writing') = Len(writing) + 1 /\ Len(writing) \in Nat
          /\ \A i \in 1 .. Len(writing) : writing'[i] = writing[i]
          /\ writing'[Len(writing) + 1].save = made + 1
      <4>1. made + 1 \in Saves /\ writing \in Seq(SlotWrites)
        BY <2>1, Numbers DEF SaveData, Saves, TypeInv, TypeOK
      <4>2. [slot |-> slot, save |-> made + 1] \in SlotWrites
        BY <4>1 DEF SlotWrites
      <4>3. QED BY <2>1, <4>1, <4>2, EndOfQueue DEF SaveData
    <3>2. /\ made' = made + 1 /\ rotations' = rotations /\ store' = store
          /\ older' = older /\ generation' = generation
      BY <2>1 DEF SaveData, rotation
    <3>3. WritesLined'
      <4> SUFFICES ASSUME NEW i \in 1 .. Len(writing'), NEW j \in 1 .. Len(writing'), i < j
                   PROVE  writing'[i].save < writing'[j].save
        BY DEF WritesLined
      <4>1. i \in 1 .. Len(writing) /\ writing'[i] = writing[i]
        BY <3>1
      <4>2. CASE j = Len(writing) + 1
        BY SMTT(40), <2>a, <3>1, <4>1, <4>2, Numbers DEF Lined, MadeLast, Saves
      <4>3. CASE j # Len(writing) + 1
        <5>1. j \in 1 .. Len(writing) /\ writing'[j] = writing[j]
          BY <3>1, <4>3
        <5>2. QED BY <2>a, <4>1, <5>1 DEF Lined, WritesLined
      <4>4. QED BY <4>2, <4>3
    <3>4. \A j \in 1 .. Len(writing') :
            \/ writing'[j].save = made + 1
            \/ \E k \in 1 .. Len(writing) : writing'[j].save = writing[k].save
      BY <3>1
    <3>5. RotationsLined' /\ RotationsFirst' /\ MadeLast'
      <4>1. /\ RotationsLined /\ made \in Nat
            /\ \A i \in 1 .. Len(rotations) : rotations[i] \in Nat /\ rotations[i] <= made
            /\ \A j \in 1 .. Len(writing) : writing[j].save \in Nat /\ writing[j].save <= made
        <5>1. RotationsLined /\ MadeLast
          BY <2>a DEF Lined
        <5>2. /\ made \in Nat /\ Saves \subseteq Nat
              /\ \A i \in 1 .. Len(rotations) : rotations[i] \in Saves
              /\ \A j \in 1 .. Len(writing) : writing[j].save \in Saves
          BY SMTT(40), Numbers DEF Saves
        <5>3. QED BY <5>1, <5>2 DEF MadeLast
      <4>2. RotationsFirst
        BY <2>a DEF Lined
      <4>3. RotationsLined'
        BY <3>2, <4>1 DEF RotationsLined
      <4>4. RotationsFirst' /\ MadeLast'
        <5>1. ASSUME NEW j \in 1 .. Len(writing')
              PROVE  /\ writing'[j].save <= made + 1
                     /\ \A i \in 1 .. Len(rotations) : rotations[i] < writing'[j].save
          <6>1. CASE writing'[j].save = made + 1
            BY SMTT(40), <4>1, <6>1
          <6>2. CASE \E k \in 1 .. Len(writing) : writing'[j].save = writing[k].save
            <7>1. PICK k \in 1 .. Len(writing) : writing'[j].save = writing[k].save
              BY <6>2
            <7>2. writing'[j].save \in Nat /\ writing'[j].save <= made
              BY <4>1, <7>1
            <7>3. \A i \in 1 .. Len(rotations) : rotations[i] < writing'[j].save
              BY <4>2, <7>1 DEF RotationsFirst
            <7>4. QED BY <4>1, <7>2, <7>3
          <6>3. QED BY <3>4, <6>1, <6>2
        <5>2. \A i \in 1 .. Len(rotations) : rotations[i] <= made + 1
          BY <4>1
        <5>3. QED BY <3>2, <5>1, <5>2 DEF RotationsFirst, MadeLast
      <4>5. QED BY <4>3, <4>4
    <3>6. LadderBehind'
      <4> SUFFICES ASSUME NEW g \in Ladder
                   PROVE  /\ store[g].save <= made + 1
                          /\ \A i \in 1 .. Len(rotations) : store[g].save < rotations[i]
                          /\ \A j \in 1 .. Len(writing') : store[g].save < writing'[j].save
        BY <3>2 DEF LadderBehind
      <4>1. /\ store[g].save <= made /\ made \in Nat /\ store[g].save \in Nat
            /\ \A i \in 1 .. Len(rotations) : store[g].save < rotations[i]
            /\ \A j \in 1 .. Len(writing) : store[g].save < writing[j].save
        BY <2>a, <2>b, Numbers DEF Lined, LadderBehind
      <4>2. ASSUME NEW j \in 1 .. Len(writing') PROVE store[g].save < writing'[j].save
        <5>1. CASE writing'[j].save = made + 1
          BY SMTT(40), <4>1, <5>1
        <5>2. CASE \E k \in 1 .. Len(writing) : writing'[j].save = writing[k].save
          BY <4>1, <5>2
        <5>3. QED BY <3>4, <5>1, <5>2
      <4>3. store[g].save <= made + 1
        BY <4>1
      <4>4. QED BY <4>1, <4>2, <4>3
    <3>7. QED BY <2>a, <3>2, <3>3, <3>5, <3>6 DEF OrderInv, Lined, Copying, NewestFirst
  <2>2. CASE WriteSlot
    <3>1. /\ Len(writing) \in Nat \ {0} /\ Len(writing') = Len(writing) - 1
          /\ \A i \in 1 .. Len(writing') : writing'[i] = writing[i + 1]
          /\ Head(writing) = writing[1]
      BY <2>2, TailOfQueue DEF WriteSlot, TypeInv, TypeOK
    <3>2. /\ Len(rotations) \in Nat /\ Len(rotations') = Len(rotations) + 1
          /\ \A i \in 1 .. Len(rotations) : rotations'[i] = rotations[i]
          /\ rotations'[Len(rotations) + 1] = writing[1].save
      <4>1. writing[1].save \in Saves /\ rotations \in Seq(Saves)
        BY SMTT(40), <3>1, Numbers DEF TypeInv, TypeOK
      <4>2. rotations' = Append(rotations, writing[1].save)
        BY <2>2, <3>1 DEF WriteSlot
      <4>3. QED BY <4>1, <4>2, EndOfQueue
    <3>3. writing[1].slot \in Slots
      BY SMTT(40), <3>1, Numbers
    <3>4. \A g \in Ladder : store'[g] = store[g]
      BY <2>2, <2>b, <3>1, <3>3 DEF WriteSlot, TypeInv, TypeOK
    <3>5. made' = made /\ older' = older /\ generation' = generation
      BY <2>2 DEF WriteSlot
    <3>a. \A i \in 1 .. Len(writing') : i + 1 \in 1 .. Len(writing) /\ 1 < i + 1
      BY <3>1
    <3>b. \A i \in 1 .. Len(rotations') :
            \/ rotations'[i] = writing[1].save /\ i = Len(rotations) + 1
            \/ i \in 1 .. Len(rotations) /\ rotations'[i] = rotations[i]
      BY <3>2
    <3>c. WritesLined'
      <4> SUFFICES ASSUME NEW i \in 1 .. Len(writing'), NEW j \in 1 .. Len(writing'), i < j
                   PROVE  writing'[i].save < writing'[j].save
        BY DEF WritesLined
      <4>1. i + 1 \in 1 .. Len(writing) /\ j + 1 \in 1 .. Len(writing) /\ i + 1 < j + 1
        BY <3>1
      <4>2. writing[i + 1].save < writing[j + 1].save
        BY <2>a, <4>1 DEF Lined, WritesLined
      <4>3. QED BY <3>1, <4>2
    <3>d. RotationsLined'
      <4>1. \A i \in 1 .. Len(rotations) : rotations[i] < writing[1].save
        BY <2>a, <3>1 DEF Lined, RotationsFirst
      <4>2. QED BY SMTT(40), <2>a, <3>2, <3>b, <4>1 DEF Lined, RotationsLined
    <3>e. RotationsFirst'
      <4>1. \A j \in 1 .. Len(writing') : writing[1].save < writing'[j].save
        BY SMTT(40), <2>a, <3>1, <3>a DEF Lined, WritesLined
      <4>2. \A i \in 1 .. Len(rotations), j \in 1 .. Len(writing') :
              rotations[i] < writing'[j].save
        BY <2>a, <3>1, <3>a DEF Lined, RotationsFirst
      <4>3. QED BY <3>b, <4>1, <4>2 DEF RotationsFirst
    <3>f. MadeLast'
      <4>1. /\ writing[1].save <= made
            /\ \A i \in 1 .. Len(rotations) : rotations[i] <= made
            /\ \A j \in 1 .. Len(writing) : writing[j].save <= made
        BY <2>a, <3>1 DEF Lined, MadeLast
      <4>2. QED BY <3>1, <3>5, <3>a, <3>b, <4>1 DEF MadeLast
    <3>g. LadderBehind'
      <4> SUFFICES ASSUME NEW g \in Ladder
                   PROVE  /\ store[g].save <= made
                          /\ \A i \in 1 .. Len(rotations') : store[g].save < rotations'[i]
                          /\ \A j \in 1 .. Len(writing') : store[g].save < writing'[j].save
        BY <3>4, <3>5 DEF LadderBehind
      <4>1. /\ store[g].save <= made /\ store[g].save < writing[1].save
            /\ \A i \in 1 .. Len(rotations) : store[g].save < rotations[i]
            /\ \A j \in 1 .. Len(writing) : store[g].save < writing[j].save
        BY SMTT(40), <2>a, <3>1 DEF Lined, LadderBehind
      <4>2. QED BY <3>1, <3>a, <3>b, <4>1
    <3>6. Lined'
      BY <3>c, <3>d, <3>e, <3>f, <3>g DEF Lined
    <3>7. generation > 0 => generation - 1 \in Ladder
      BY SMTT(40), Numbers DEF Ladder
    <3>8. Copying' /\ NewestFirst'
      BY <2>a, <3>4, <3>5, <3>7 DEF Copying, NewestFirst, Ladder
    <3>9. QED BY <3>6, <3>8 DEF OrderInv
  <2>3. CASE WriteSlotFails
    <3>1. /\ Len(writing) \in Nat \ {0} /\ Len(writing') = Len(writing) - 1
          /\ \A i \in 1 .. Len(writing') : writing'[i] = writing[i + 1]
      BY <2>3, TailOfQueue DEF WriteSlotFails, TypeInv, TypeOK
    <3>2. /\ store' = store /\ rotations' = rotations /\ made' = made
          /\ older' = older /\ generation' = generation
      BY <2>3 DEF WriteSlotFails, rotation
    <3>a. \A i \in 1 .. Len(writing') : i + 1 \in 1 .. Len(writing)
      BY <3>1
    <3>b. WritesLined'
      <4> SUFFICES ASSUME NEW i \in 1 .. Len(writing'), NEW j \in 1 .. Len(writing'), i < j
                   PROVE  writing'[i].save < writing'[j].save
        BY DEF WritesLined
      <4>1. i + 1 \in 1 .. Len(writing) /\ j + 1 \in 1 .. Len(writing) /\ i + 1 < j + 1
        BY <3>1
      <4>2. writing[i + 1].save < writing[j + 1].save
        BY <2>a, <4>1 DEF Lined, WritesLined
      <4>3. QED BY <3>1, <4>2
    <3>c. RotationsLined' /\ RotationsFirst' /\ MadeLast'
      BY <2>a, <3>1, <3>2, <3>a DEF Lined, RotationsLined, RotationsFirst, MadeLast
    <3>d. LadderBehind'
      BY <2>a, <3>1, <3>2, <3>a DEF Lined, LadderBehind
    <3>3. Lined'
      BY <3>b, <3>c, <3>d DEF Lined
    <3>4. QED BY <2>a, <3>2, <3>3 DEF OrderInv, Copying, NewestFirst
  <2>4. CASE ReadOlder \/ ReadOlderFails
    <3>1. /\ UNCHANGED <<store, made, writing, rotations>>
          /\ generation > 0 /\ older = Missing
          /\ \/ older' = store[generation - 1] /\ generation' = generation
                /\ store[generation - 1].save # 0
             \/ older' = older
      BY <2>4 DEF ReadOlder, ReadOlderFails, Readable
    <3>2. Lined' /\ NewestFirst'
      BY <2>a, <3>1
         DEF Lined, WritesLined, RotationsLined, RotationsFirst,
             MadeLast, LadderBehind, NewestFirst
    <3>3. Copying'
      BY <3>1 DEF Copying, Missing
    <3>4. QED BY <3>2, <3>3 DEF OrderInv
  <2>5. CASE WriteOlder
    <3>1. /\ UNCHANGED <<made, writing, rotations>>
          /\ older # Missing /\ older' = Missing
          /\ generation \in Ladder /\ generation - 1 \in Ladder
          /\ generation \in Nat \ {0}
      BY SMTT(40), <2>5, Numbers DEF WriteOlder, Ladder
    <3>2. \A g \in Ladder : store'[g] = IF g = generation THEN older ELSE store[g]
      BY <2>5, <2>b DEF WriteOlder, TypeInv, TypeOK
    <3>3. older.save = store[generation - 1].save
      BY <2>a, <3>1 DEF Copying
    <3>4. \A g \in Ladder :
            store'[g].save = IF g = generation THEN store[generation - 1].save
                                               ELSE store[g].save
      BY <3>2, <3>3
    <3>5. Lined'
      BY <2>a, <3>1, <3>4
         DEF Lined, WritesLined, RotationsLined, RotationsFirst,
             MadeLast, LadderBehind
    <3>6. NewestFirst'
      <4> SUFFICES ASSUME NEW g \in Ladder, NEW h \in 0 .. g, store'[g].save # 0
                   PROVE  store'[h].save >= store'[g].save
        BY DEF NewestFirst
      <4>1. h \in Ladder /\ h <= g /\ g \in Nat /\ h \in Nat
        BY DEF Ladder
      <4>2. \A k \in Ladder : store[k].save \in Nat
        BY <2>b, Numbers
      <4>3. \A k, l \in Ladder : k <= l /\ store[l].save # 0
                                   => store[k].save >= store[l].save
        BY <2>a DEF NewestFirst, Ladder
      <4>4. CASE g = generation /\ h = generation
        BY <3>1, <3>4, <4>2, <4>4
      <4>5. CASE g = generation /\ h # generation
        BY <3>1, <3>4, <4>1, <4>3, <4>5
      <4>6. CASE g # generation /\ h = generation
        <5>1. store[g].save # 0 /\ generation - 1 <= g
          BY <3>1, <3>4, <4>1, <4>6
        <5>2. QED BY <3>1, <3>4, <4>3, <4>6, <5>1
      <4>7. CASE g # generation /\ h # generation
        BY <3>4, <4>1, <4>3, <4>7
      <4>8. QED BY <4>4, <4>5, <4>6, <4>7
    <3>7. QED BY <3>1, <3>5, <3>6 DEF OrderInv, Copying
  <2>6. CASE WriteNewest
    <3>1. /\ Len(rotations) \in Nat \ {0} /\ Len(rotations') = Len(rotations) - 1
          /\ \A i \in 1 .. Len(rotations') : rotations'[i] = rotations[i + 1]
          /\ Head(rotations) = rotations[1]
      BY <2>6, TailOfQueue DEF WriteNewest, Rotating, TypeInv, TypeOK
    <3>2. \A g \in Ladder :
            store'[g].save = IF g = 0 THEN rotations[1] ELSE store[g].save
      BY <2>6, <2>b, <3>1 DEF WriteNewest, TypeInv, TypeOK, Sound
    <3>3. UNCHANGED <<made, writing, older>> /\ generation = 0
      BY <2>6 DEF WriteNewest
    <3>4. older = Missing
      BY <2>a, <3>3 DEF Copying
    <3>a. \A i \in 1 .. Len(rotations') : i + 1 \in 1 .. Len(rotations) /\ 1 < i + 1
      BY <3>1
    <3>b. WritesLined'
      BY <2>a, <3>3 DEF Lined, WritesLined
    <3>c. RotationsLined'
      <4> SUFFICES ASSUME NEW i \in 1 .. Len(rotations'), NEW j \in 1 .. Len(rotations'), i < j
                   PROVE  rotations'[i] < rotations'[j]
        BY DEF RotationsLined
      <4>1. i + 1 \in 1 .. Len(rotations) /\ j + 1 \in 1 .. Len(rotations) /\ i + 1 < j + 1
        BY <3>1
      <4>2. rotations[i + 1] < rotations[j + 1]
        BY <2>a, <4>1 DEF Lined, RotationsLined
      <4>3. QED BY <3>1, <4>2
    <3>d. RotationsFirst' /\ MadeLast'
      BY <2>a, <3>1, <3>3, <3>a DEF Lined, RotationsFirst, MadeLast
    <3>e. LadderBehind'
      <4>1. /\ rotations[1] <= made
            /\ \A i \in 1 .. Len(rotations') : rotations[1] < rotations'[i]
            /\ \A j \in 1 .. Len(writing) : rotations[1] < writing[j].save
        BY SMTT(40), <2>a, <3>1, <3>a DEF Lined, MadeLast, RotationsLined, RotationsFirst
      <4>2. \A g \in Ladder : /\ store[g].save <= made
                              /\ \A i \in 1 .. Len(rotations') : store[g].save < rotations'[i]
                              /\ \A j \in 1 .. Len(writing) : store[g].save < writing[j].save
        BY <2>a, <3>1, <3>a DEF Lined, LadderBehind
      <4>3. QED BY <3>2, <3>3, <4>1, <4>2 DEF LadderBehind
    <3>5. Lined'
      BY <3>b, <3>c, <3>d, <3>e DEF Lined
    <3>6. NewestFirst'
      <4> SUFFICES ASSUME NEW g \in Ladder, NEW h \in 0 .. g, store'[g].save # 0
                   PROVE  store'[h].save >= store'[g].save
        BY DEF NewestFirst
      <4>1. h \in Ladder /\ h <= g /\ g \in Nat /\ h \in Nat
        BY DEF Ladder
      <4>2. rotations[1] \in Nat /\ store[g].save \in Nat /\ store[g].save < rotations[1]
        BY SMTT(40), <2>a, <2>b, <3>1, Numbers
           DEF Lined, WritesLined, RotationsLined, RotationsFirst,
               MadeLast, LadderBehind, Saves
      <4>3. CASE h = 0
        BY <3>2, <4>1, <4>2, <4>3
      <4>4. CASE h # 0
        <5>1. store'[g].save = store[g].save /\ store'[h].save = store[h].save
          BY <3>2, <4>1, <4>4
        <5>2. QED BY <2>a, <5>1 DEF NewestFirst
      <4>5. QED BY <4>3, <4>4
    <3>7. QED BY <3>3, <3>4, <3>5, <3>6 DEF OrderInv, Copying
  <2>7. CASE RotationFails
    <3>1. /\ Len(rotations) \in Nat \ {0} /\ Len(rotations') = Len(rotations) - 1
          /\ \A i \in 1 .. Len(rotations') : rotations'[i] = rotations[i + 1]
      BY <2>7, TailOfQueue DEF RotationFails, Rotating, TypeInv, TypeOK
    <3>2. UNCHANGED <<store, made, writing>> /\ older' = Missing
      BY <2>7 DEF RotationFails
    <3>a. \A i \in 1 .. Len(rotations') : i + 1 \in 1 .. Len(rotations)
      BY <3>1
    <3>b. RotationsLined'
      <4> SUFFICES ASSUME NEW i \in 1 .. Len(rotations'), NEW j \in 1 .. Len(rotations'), i < j
                   PROVE  rotations'[i] < rotations'[j]
        BY DEF RotationsLined
      <4>1. i + 1 \in 1 .. Len(rotations) /\ j + 1 \in 1 .. Len(rotations) /\ i + 1 < j + 1
        BY <3>1
      <4>2. rotations[i + 1] < rotations[j + 1]
        BY <2>a, <4>1 DEF Lined, RotationsLined
      <4>3. QED BY <3>1, <4>2
    <3>c. WritesLined' /\ RotationsFirst' /\ MadeLast'
      BY <2>a, <3>1, <3>2, <3>a DEF Lined, WritesLined, RotationsFirst, MadeLast
    <3>d. LadderBehind'
      BY <2>a, <3>1, <3>2, <3>a DEF Lined, LadderBehind
    <3>3. Lined'
      BY <3>b, <3>c, <3>d DEF Lined
    <3>4. QED BY <2>a, <3>2, <3>3 DEF OrderInv, Copying, NewestFirst
  <2>8. ASSUME NEW key \in Keys, Damage(key) PROVE OrderInv'
    <3>1. UNCHANGED <<made, writing, rotations, generation, older>>
      BY <2>8 DEF Damage
    <3>2. \A g \in Ladder : store'[g].save = store[g].save
      BY <2>8, <2>b DEF Damage, TypeInv, TypeOK
    <3>3. generation > 0 => generation - 1 \in Ladder
      BY Numbers DEF Ladder
    <3>a. \A g \in Ladder : \A h \in 0 .. g : h \in Ladder
      BY DEF Ladder
    <3>4. Lined' /\ NewestFirst'
      BY <2>a, <3>1, <3>2, <3>a
         DEF Lined, WritesLined, RotationsLined, RotationsFirst, MadeLast, LadderBehind,
             NewestFirst
    <3>5. Copying'
      BY <2>a, <3>1, <3>2, <3>3 DEF Copying
    <3>6. QED BY <3>4, <3>5 DEF OrderInv
  <2>9. CASE Crash
    <3>1. Len(writing') = 0 /\ Len(rotations') = 0 /\ older' = Missing
      BY <2>9 DEF Crash
    <3>2. store' = store /\ made' = made
      BY <2>9 DEF Crash
    <3>3. Lined'
      BY <2>a, <3>1, <3>2
         DEF Lined, WritesLined, RotationsLined, RotationsFirst,
             MadeLast, LadderBehind
    <3>4. QED BY <2>a, <3>1, <3>2, <3>3 DEF OrderInv, Copying, NewestFirst
  <2>10. CASE \/ \E slot \in Slots : StartLoad(slot)
              \/ ReadCandidate \/ ReadCandidateFails \/ UNCHANGED vars
    <3>1. UNCHANGED <<store, made, writing, rotations, generation, older>>
      BY <2>10 DEF StartLoad, ReadCandidate, ReadCandidateFails, vars, rotation
    <3>2. QED BY <2>a, <3>1
       DEF OrderInv, Lined, WritesLined, RotationsLined, RotationsFirst,
           MadeLast, LadderBehind, Copying, NewestFirst
  <2>11. QED
    BY <2>1, <2>2, <2>3, <2>4, <2>5, <2>6, <2>7, <2>8, <2>9, <2>10 DEF Next, Rotate
<1>3. QED BY <1>1, <1>2, TypeInvariant, PTL DEF Spec

-----------------------------------------------------------------------------
(***************************************************************************)
(* What the ladder holds.                                                  *)
(***************************************************************************)

\* Counting one thing counts no other.
LEMMA Counted ==
  ASSUME TypeInv, NEW what \in Counters, Count(what)
  PROVE  /\ \A w \in Counters : spent[w] \in Nat
         /\ \A w \in Counters : spent'[w] = IF w = what THEN spent[w] + 1 ELSE spent[w]
  BY DEF TypeInv, TypeOK, Spent, Count

\* What each counter is called.
LEMMA CounterNames ==
  /\ "loads" \in Counters /\ "writes" \in Counters /\ "reads" \in Counters
  /\ "damage" \in Counters /\ "crashes" \in Counters
  BY DEF Counters

\* Only a rotation writes to the ladder, and damage makes unsound what it strikes.
LEMMA LadderWrites ==
  ASSUME TypeInv
  PROVE  /\ \A g \in Ladder : g \in Keys /\ g \in Nat /\ g \notin Slots
         /\ WriteSlot => \A g \in Ladder : store'[g] = store[g]
         /\ WriteOlder => \A g \in Ladder :
              store'[g] = IF g = generation THEN older ELSE store[g]
         /\ WriteNewest => \A g \in Ladder :
              store'[g] = IF g = 0 THEN Sound(rotations[1]) ELSE store[g]
         /\ \A key \in Keys : Damage(key) => \A g \in Ladder :
              store'[g] = IF g = key THEN [store[g] EXCEPT !.sound = FALSE] ELSE store[g]
<1> USE RecoveryAssumption DEF TypeInv, TypeOK
<1>1. \A g \in Ladder : g \in Keys /\ g \in Nat /\ g \notin Slots
  BY SMTT(40) DEF Keys, Ladder
<1>2. WriteSlot => \A g \in Ladder : store'[g] = store[g]
  <2> SUFFICES ASSUME WriteSlot, NEW g \in Ladder PROVE store'[g] = store[g]
    OBVIOUS
  <2>1. Head(writing) = writing[1] /\ writing # <<>>
    BY TailOfQueue DEF WriteSlot
  <2>2. Len(writing) \in Nat \ {0}
    BY <2>1, TailOfQueue
  <2>3. writing[1].slot \in Slots
    BY <2>2, Numbers
  <2>4. QED BY <1>1, <2>1, <2>3 DEF WriteSlot
<1>3. WriteOlder => \A g \in Ladder :
        store'[g] = IF g = generation THEN older ELSE store[g]
  BY <1>1 DEF WriteOlder
<1>4. WriteNewest => \A g \in Ladder :
        store'[g] = IF g = 0 THEN Sound(rotations[1]) ELSE store[g]
  <2>1. WriteNewest => Head(rotations) = rotations[1]
    BY TailOfQueue DEF WriteNewest, Rotating
  <2>2. QED BY <1>1, <2>1 DEF WriteNewest
<1>5. \A key \in Keys : Damage(key) => \A g \in Ladder :
        store'[g] = IF g = key THEN [store[g] EXCEPT !.sound = FALSE] ELSE store[g]
  BY <1>1 DEF Damage
<1>6. QED BY <1>1, <1>2, <1>3, <1>4, <1>5

\* Half-way through a rotation the ladder is shifted as far as it has come.
LEMMA ShiftInvariant == Spec => []Shifted
<1> USE RecoveryAssumption, CounterNames
<1>1. ASSUME Init PROVE Shifted
  <2>1. Len(rotated) = 0 /\ older = Missing
    BY <1>1 DEF Init
  <2>2. \A g \in Ladder : store[g] = Missing /\ ~(g < 0) /\ ~(g - 1 < 0 /\ g > generation)
    BY <1>1 DEF Init, Keys, Ladder
  <2>3. QED BY <2>1, <2>2 DEF Shifted, Latest
<1>2. ASSUME TypeInv, TypeInv', OrderInv, Shifted, [Next]_vars PROVE Shifted'
  <2> SUFFICES ASSUME Untroubled'
               PROVE  /\ \A k \in Ladder :
                           store'[k] = (IF k > generation THEN Latest(k - 1) ELSE Latest(k))'
                      /\ older' # Missing => older' = store'[generation' - 1]
    BY DEF Shifted
  <2> USE <1>2
  <2>a. \A what \in {"writes", "reads", "damage", "crashes"} : ~Count(what)
    <3>1. ASSUME NEW what \in {"writes", "reads", "damage", "crashes"}, Count(what)
          PROVE  FALSE
      <4>1. what \in Counters
        OBVIOUS
      <4>2. spent'[what] = spent[what] + 1 /\ spent[what] \in Nat
        BY <3>1, <4>1, Counted
      <4>3. QED BY <4>2 DEF Untroubled
    <3>2. QED BY <3>1
  <2>b. Untroubled
    <3>1. spent' = spent \/ Count("loads")
      BY <2>a DEF Next, SaveData, StartLoad, WriteSlot, WriteSlotFails, Rotate, ReadOlder,
                  WriteOlder, WriteNewest, ReadOlderFails, RotationFails, ReadCandidate,
                  ReadCandidateFails, Damage, Crash, vars
    <3>2. ASSUME Count("loads"), NEW what \in {"writes", "reads", "damage", "crashes"}
          PROVE  spent'[what] = spent[what]
      BY <3>2, Counted
    <3>3. QED BY <3>1, <3>2 DEF Untroubled
  <2>c. /\ \A k \in Ladder :
             store[k] = IF k > generation THEN Latest(k - 1) ELSE Latest(k)
        /\ older # Missing => older = store[generation - 1]
    BY <2>b DEF Shifted
  <2>d. \A k \in Ladder : k \in Keys /\ k \in Nat /\ k <= Generations - 1
    BY DEF Keys, Ladder
  <2>1. CASE WriteSlot
    <3>1. UNCHANGED <<generation, older, rotated>>
      BY <2>1 DEF WriteSlot
    <3>2. \A k \in Ladder : store'[k] = store[k]
      BY <2>1, LadderWrites
    <3>3. older # Missing => generation - 1 \in Ladder
      BY SMTT(40), Numbers DEF OrderInv, Copying, Ladder
    <3>4. QED BY <2>c, <3>1, <3>2, <3>3 DEF Latest
  <2>2. CASE ReadOlder
    <3>1. /\ UNCHANGED <<store, rotated>> /\ older = Missing
          /\ generation \in Nat \ {0} /\ generation \in Ladder /\ generation - 1 \in Ladder
      BY SMTT(40), <2>2, Numbers DEF ReadOlder, Ladder
    <3>2. CASE Readable(store[generation - 1])
      <4>1. generation' = generation /\ older' = store[generation - 1]
        BY <2>2, <3>2 DEF ReadOlder
      <4>2. QED BY <2>c, <3>1, <4>1 DEF Latest
    <3>3. CASE ~Readable(store[generation - 1])
      <4>1. generation' = generation - 1 /\ older' = Missing
        BY <2>2, <3>1, <3>3 DEF ReadOlder
      <4>2. store[generation - 1] = Latest(generation - 1)
            /\ store[generation] = Latest(generation)
        BY <2>c, <3>1
      <4>3. Len(rotated) <= generation - 1
        <5>1. SUFFICES ASSUME generation - 1 < Len(rotated) PROVE FALSE
          BY <3>1, Numbers
        <5>2. Len(rotated) - (generation - 1) \in 1 .. Len(rotated)
          BY <3>1, <5>1, Numbers
        <5>3. rotated[Len(rotated) - (generation - 1)] \in Saves
          BY <5>2, Numbers
        <5>4. QED BY <3>3, <4>2, <5>1, <5>3 DEF Latest, Sound, Readable, Saves
      <4>4. Latest(generation - 1) = Missing /\ Latest(generation) = Missing
        BY SMTT(40), <3>1, <4>3, Numbers DEF Latest
      <4>5. ASSUME NEW k \in Ladder
            PROVE  store[k] = IF k > generation - 1 THEN Latest(k - 1) ELSE Latest(k)
        <5>1. CASE k = generation
          BY <3>1, <4>2, <4>4, <5>1
        <5>2. CASE k # generation
          <6>1. k > generation - 1 <=> k > generation
            BY <2>d, <3>1, <5>2
          <6>2. QED BY <2>c, <6>1
        <5>3. QED BY <5>1, <5>2
      <4>6. QED BY <3>1, <4>1, <4>5 DEF Latest
    <3>4. QED BY <3>2, <3>3
  <2>3. CASE WriteOlder
    <3>1. /\ generation' = generation - 1 /\ older' = Missing /\ older # Missing
          /\ rotated' = rotated
          /\ generation \in Nat \ {0} /\ generation \in Ladder /\ generation - 1 \in Ladder
      BY SMTT(40), <2>3, Numbers DEF WriteOlder, Ladder
    <3>2. older = Latest(generation - 1)
      BY <2>c, <3>1
    <3>3. \A k \in Ladder : store'[k] = IF k = generation THEN older ELSE store[k]
      BY <2>3, LadderWrites
    <3>4. ASSUME NEW k \in Ladder
          PROVE  store'[k] = IF k > generation - 1 THEN Latest(k - 1) ELSE Latest(k)
      <4>1. CASE k = generation
        BY <3>1, <3>2, <3>3, <4>1
      <4>2. CASE k # generation
        <5>1. k > generation - 1 <=> k > generation
          BY <2>d, <3>1, <4>2
        <5>2. QED BY <2>c, <3>3, <4>2, <5>1
      <4>3. QED BY <4>1, <4>2
    <3>5. QED BY <3>1, <3>4 DEF Latest
  <2>4. CASE WriteNewest
    <3>1. /\ generation = 0 /\ generation' = Generations - 1 /\ older' = older
          /\ older = Missing
      BY <2>4 DEF WriteNewest, OrderInv, Copying
    <3>2. \A k \in Ladder : store'[k] = IF k = 0 THEN Sound(rotations[1]) ELSE store[k]
      BY <2>4, LadderWrites
    <3>3. /\ Len(rotated) \in Nat /\ Len(rotated') = Len(rotated) + 1
          /\ \A i \in 1 .. Len(rotated) : rotated'[i] = rotated[i]
          /\ rotated'[Len(rotated) + 1] = rotations[1]
      <4>1. Len(rotations) \in Nat \ {0} /\ Head(rotations) = rotations[1]
        BY <2>4, TailOfQueue DEF WriteNewest, Rotating, TypeInv, TypeOK
      <4>2. rotations[1] \in Saves /\ rotated \in Seq(Saves)
        BY SMTT(40), <4>1, Numbers DEF TypeInv, TypeOK
      <4>3. rotated' = Append(rotated, rotations[1])
        BY <2>4, <4>1 DEF WriteNewest
      <4>4. QED BY <4>2, <4>3, EndOfQueue
    <3>4. ASSUME NEW k \in Ladder PROVE store'[k] = Latest(k)'
      <4>1. CASE k = 0
        <5>1. 0 < Len(rotated') /\ Len(rotated') - 0 = Len(rotated) + 1
          BY <3>3
        <5>2. Latest(0)' = Sound(rotations[1])
          BY <3>3, <5>1 DEF Latest, Sound
        <5>3. QED BY <3>2, <4>1, <5>2
      <4>2. CASE k # 0
        <5>1. store'[k] = Latest(k - 1)
          BY <2>c, <2>d, <3>1, <3>2, <4>2
        <5>2. CASE k - 1 < Len(rotated)
          <6> DEFINE i == Len(rotated) - (k - 1)
          <6>1. i \in 1 .. Len(rotated) /\ i = Len(rotated') - k /\ k < Len(rotated')
            BY SMTT(40), <2>d, <3>3, <4>2, <5>2
          <6>2. Latest(k - 1) = Sound(rotated[i])
            BY <5>2 DEF Latest
          <6>3. rotated'[i] = rotated[i]
            BY <3>3, <6>1
          <6> HIDE DEF i
          <6>4. QED BY <5>1, <6>1, <6>2, <6>3 DEF Latest, Sound
        <5>3. CASE ~(k - 1 < Len(rotated))
          BY <2>d, <3>3, <5>1, <5>3 DEF Latest, Missing
        <5>4. QED BY <5>2, <5>3
      <4>3. QED BY <4>1, <4>2
    <3>5. QED BY <2>d, <3>1, <3>4
  <2>5. CASE \/ \E slot \in Slots : SaveData(slot) \/ StartLoad(slot)
             \/ ReadCandidate \/ UNCHANGED vars
    <3>1. UNCHANGED <<store, generation, older, rotated>>
      BY <2>5 DEF SaveData, StartLoad, ReadCandidate, vars, rotation
    <3>2. QED BY <2>c, <3>1 DEF Latest
  <2>6. QED
    BY <2>a, <2>1, <2>2, <2>3, <2>4, <2>5
       DEF Next, Rotate, WriteSlotFails, ReadOlderFails, RotationFails, ReadCandidateFails,
           Damage, Crash
<1>3. QED BY <1>1, <1>2, TypeInvariant, OrderInvariant, PTL DEF Spec

\* Generation 0 is the newest, no entry is newer than the one above it, and while
\* nothing fails the ladder between rotations is exactly the last saves.
THEOREM NewestIsFirst == Spec => []LadderInOrder
<1>1. TypeInv /\ OrderInv /\ Shifted => LadderInOrder
  <2>1. TypeInv /\ Shifted => LadderIsTheLastSaves
    <3> SUFFICES ASSUME TypeInv, Shifted, Untroubled, Starting, NEW g \in Ladder
                 PROVE  store[g] = Latest(g)
      BY DEF LadderIsTheLastSaves, Latest
    <3>1. ~(g > generation)
      BY RecoveryAssumption DEF Starting, Ladder
    <3>2. QED BY <3>1 DEF Shifted
  <2>2. QED BY <2>1 DEF LadderInOrder, OrderInv
<1>2. QED BY <1>1, TypeInvariant, OrderInvariant, ShiftInvariant, PTL

-----------------------------------------------------------------------------
(***************************************************************************)
(* A rotation costs at most one save.                                      *)
(***************************************************************************)

\* A save is in the ladder when some generation that reads holds it.
LEMMA HeldBySome ==
  \A n : n \in InLadder <=> \E h \in Ladder : Readable(store[h]) /\ store[h].save = n
  BY DEF InLadder

\* Whatever a rotation writes over, at most one save it began with is gone from
\* the ladder.
LEMMA KeptInvariant == Spec => []Kept
<1> USE RecoveryAssumption, CounterNames
<1>1. ASSUME Init PROVE Kept
  <2>1. before = {} /\ older = Missing /\ generation = Generations - 1
    BY <1>1 DEF Init
  <2>2. 0 \in 0 .. MaxSaves
    OBVIOUS
  <2>3. QED BY <2>1, <2>2 DEF Kept
<1>2. ASSUME TypeInv, TypeInv', OrderInv, Kept, [Next]_vars PROVE Kept'
  <2> SUFFICES ASSUME spent'["reads"] = 0
               PROVE  /\ \E x \in 0 .. MaxSaves : \A n \in before' : n \in InLadder' \/ n = x
                      /\ generation' = Generations - 1 /\ older' # Missing
                           => before' \subseteq InLadder'
                      /\ generation' < Generations - 1 /\ Readable(store'[generation'])
                           => CopiedDown'
    BY DEF Kept
  <2> USE <1>2
  <2>a. ~Count("reads")
    <3>1. ASSUME Count("reads") PROVE FALSE
      BY <3>1, Counted
    <3>2. QED BY <3>1
  <2>b. spent["reads"] = 0
    <3>1. \/ spent' = spent \/ Count("loads") \/ Count("writes") \/ Count("damage")
          \/ Count("crashes")
      BY <2>a DEF Next, SaveData, StartLoad, WriteSlot, WriteSlotFails, Rotate, ReadOlder,
                  WriteOlder, WriteNewest, ReadOlderFails, RotationFails, ReadCandidate,
                  ReadCandidateFails, Damage, Crash, vars
    <3>2. ASSUME NEW what \in {"loads", "writes", "damage", "crashes"}, Count(what)
          PROVE  spent'["reads"] = spent["reads"]
      <4>1. what \in Counters /\ what # "reads"
        BY DEF Counters
      <4>2. QED BY <3>2, <4>1, Counted
    <3>3. QED BY <3>1, <3>2
  <2>c. PICK x \in 0 .. MaxSaves : \A n \in before : n \in InLadder \/ n = x
    BY <2>b DEF Kept
  <2>d. generation = Generations - 1 /\ older # Missing => before \subseteq InLadder
    BY <2>b DEF Kept
  <2>e. generation < Generations - 1 /\ Readable(store[generation]) => CopiedDown
    BY <2>b DEF Kept
  <2>f. /\ generation \in Ladder /\ generation \in Nat /\ generation <= Generations - 1
        /\ \A g \in Ladder : g \in Nat /\ store[g].save \in 0 .. MaxSaves
    <3>1. \A g \in Ladder : g \in Keys /\ g \in Nat
      BY DEF Keys, Ladder
    <3>2. QED BY <3>1, Numbers DEF TypeInv, TypeOK, Entries
  <2>g. \A g \in Ladder : g \notin Slots
    BY DEF Ladder
  \* What is left of the ladder when one entry of it is written over.
  <2>h. ASSUME NEW h \in Ladder, \A g \in Ladder \ {h} : store'[g] = store[g],
               NEW n \in InLadder, n # store[h].save \/ ~Readable(store[h])
        PROVE  n \in InLadder'
    <3>1. PICK g \in Ladder : Readable(store[g]) /\ store[g].save = n
      BY HeldBySome
    <3>2. g # h
      BY <2>h, <3>1
    <3>3. store'[g] = store[g]
      BY <2>h, <3>2
    <3>4. QED BY <3>1, <3>3 DEF InLadder, Readable
  <2>i. ASSUME \A g \in Ladder \ {generation} : store'[g] = store[g],
               generation < Generations - 1, NEW n \in before, n \in InLadder
        PROVE  n \in InLadder'
    <3>1. CASE n = store[generation].save /\ Readable(store[generation])
      <4>1. PICK k \in Ladder :
              /\ k > generation
              /\ Readable(store[k]) /\ store[k].save = store[generation].save
        BY <2>e, <2>i, <3>1 DEF CopiedDown
      <4>2. store'[k] = store[k]
        BY <2>f, <2>i, <4>1
      <4>3. QED BY <3>1, <4>1, <4>2 DEF InLadder, Readable
    <3>2. CASE ~(n = store[generation].save /\ Readable(store[generation]))
      BY <2>f, <2>h, <2>i, <3>2
    <3>3. QED BY <3>1, <3>2
  <2>1. CASE WriteSlot
    <3>1. UNCHANGED <<generation, older, before>> /\ \A g \in Ladder : store'[g] = store[g]
      BY <2>1, LadderWrites DEF WriteSlot
    <3>2. InLadder' = InLadder
      BY <3>1 DEF InLadder, Readable
    <3>3. CopiedDown => CopiedDown'
      BY <2>f, <3>1 DEF CopiedDown, Readable
    <3>4. Readable(store'[generation']) => Readable(store[generation])
      BY <2>f, <3>1
    <3>5. QED BY <2>c, <2>d, <2>e, <3>1, <3>2, <3>3, <3>4
  <2>2. CASE ReadOlder
    <3>1. /\ store' = store /\ generation \in Nat \ {0} /\ older = Missing
          /\ \/ generation' = generation /\ older' # Missing
             \/ generation' = generation - 1 /\ ~Readable(store[generation - 1])
                /\ older' = Missing
      BY <2>2, <2>f DEF ReadOlder, Readable, Missing
    <3>2. InLadder' = InLadder
      BY <3>1 DEF InLadder, Readable
    <3>3. CASE generation = Generations - 1
      <4>1. before' = InLadder
        BY <2>2, <3>1, <3>3 DEF ReadOlder, Remember, Starting
      <4>2. 0 \in 0 .. MaxSaves
        OBVIOUS
      <4>3. QED BY <3>1, <3>2, <3>3, <4>1, <4>2
    <3>4. CASE generation # Generations - 1
      <4>1. before' = before
        BY <2>2, <3>4 DEF ReadOlder, Remember, Starting
      <4>2. CopiedDown /\ generation' = generation => CopiedDown'
        BY <3>1, <4>1 DEF CopiedDown, Readable
      <4>3. generation' # Generations - 1
        BY <2>f, <3>1, <3>4
      <4>4. generation' < Generations - 1 /\ Readable(store'[generation']) => CopiedDown'
        BY <2>e, <2>f, <3>1, <3>4, <4>2
      <4>5. QED BY <2>c, <3>2, <4>1, <4>3, <4>4
    <3>5. QED BY <3>3, <3>4
  <2>3. CASE WriteOlder
    <3>1. /\ generation' = generation - 1 /\ older' = Missing /\ older # Missing
          /\ before' = before /\ generation \in Nat \ {0} /\ generation - 1 \in Ladder
      BY <2>3, <2>f DEF WriteOlder, Ladder
    <3>2. \A g \in Ladder : store'[g] = IF g = generation THEN older ELSE store[g]
      BY <2>3, LadderWrites
    <3>3. \A g \in Ladder \ {generation} : store'[g] = store[g]
      BY <3>2
    <3>4. \E y \in 0 .. MaxSaves : \A n \in before' : n \in InLadder' \/ n = y
      <4>1. CASE generation = Generations - 1
        <5>1. \A n \in before : n \in InLadder' \/ n = store[generation].save
          BY <2>d, <2>f, <2>h, <3>1, <3>3, <4>1
        <5>2. QED BY <2>f, <3>1, <5>1
      <4>2. CASE generation # Generations - 1
        <5>1. generation < Generations - 1
          BY <2>f, <4>2
        <5>2. \A n \in before : n \in InLadder' \/ n = x
          BY <2>c, <2>i, <3>3, <5>1
        <5>3. QED BY <3>1, <5>2
      <4>3. QED BY <4>1, <4>2
    <3>5. CopiedDown'
      <4>1. /\ older.save # 0 /\ older.save = store[generation - 1].save /\ older.sound
        BY <3>1 DEF OrderInv, Copying, TypeInv, TypeOK
      <4>2. store'[generation] = older /\ store'[generation - 1] = store[generation - 1]
        BY <2>f, <3>1, <3>2
      <4>3. Readable(store'[generation])
        BY <4>1, <4>2 DEF Readable
      <4>4. generation > generation'
        BY <3>1
      <4>5. QED BY <2>f, <3>1, <4>1, <4>2, <4>3, <4>4 DEF CopiedDown, Readable
    <3>6. QED BY <3>1, <3>4, <3>5
  <2>4. CASE WriteNewest
    <3>1. /\ generation = 0 /\ generation' = Generations - 1 /\ older' = Missing
          /\ older = Missing
      BY <2>4 DEF WriteNewest, OrderInv, Copying
    <3>2. \A g \in Ladder \ {generation} : store'[g] = store[g]
      BY <2>4, <3>1, LadderWrites
    <3>3. CASE Generations - 1 = 0
      <4>1. before' = InLadder
        BY <2>4, <3>1, <3>3 DEF WriteNewest, Remember, Starting
      <4>2. \A n \in before' : n \in InLadder' \/ n = store[generation].save
        BY <2>f, <2>h, <3>2, <4>1
      <4>3. QED BY <2>f, <3>1, <4>2
    <3>4. CASE Generations - 1 # 0
      <4>1. generation < Generations - 1 /\ before' = before
        BY <2>4, <2>f, <3>1, <3>4 DEF WriteNewest, Remember, Starting
      <4>2. \A n \in before' : n \in InLadder' \/ n = x
        BY <2>c, <2>i, <3>2, <4>1
      <4>3. QED BY <3>1, <4>2
    <3>5. QED BY <3>3, <3>4
  <2>5. ASSUME NEW key \in Keys, Damage(key), key \in Ladder
        PROVE  /\ \E y \in 0 .. MaxSaves : \A n \in before' : n \in InLadder' \/ n = y
               /\ generation' = Generations - 1 /\ older' # Missing
                    => before' \subseteq InLadder'
               /\ generation' < Generations - 1 /\ Readable(store'[generation'])
                    => CopiedDown'
    <3>1. /\ UNCHANGED <<generation, older>> /\ before' = before \ {store[key].save}
          /\ Readable(store[key])
      BY <2>5 DEF Damage
    <3>2. \A g \in Ladder : store'[g] = IF g = key THEN [store[g] EXCEPT !.sound = FALSE]
                                                  ELSE store[g]
      BY <2>5, LadderWrites
    <3>3. \A n \in before' : n \in InLadder => n \in InLadder'
      BY <2>5, <2>h, <3>1, <3>2
    <3>4. ~Readable(store'[key])
      <4>1. store[key] \in Entries
        BY <2>5 DEF TypeInv, TypeOK
      <4>2. [store[key] EXCEPT !.sound = FALSE].sound = FALSE
        BY <4>1 DEF Entries
      <4>3. QED BY <2>5, <3>2, <4>2 DEF Readable
    <3>5. ASSUME generation' < Generations - 1, Readable(store'[generation']),
                 store'[generation'].save \in before'
          PROVE  \E k \in Ladder : /\ k > generation' /\ Readable(store'[k])
                                   /\ store'[k].save = store'[generation'].save
      <4>1. generation # key /\ store'[generation] = store[generation]
        BY <2>f, <3>1, <3>2, <3>4, <3>5
      <4>2. PICK k \in Ladder :
              /\ k > generation
              /\ Readable(store[k]) /\ store[k].save = store[generation].save
        BY <2>e, <3>1, <3>5, <4>1 DEF CopiedDown
      <4>3. store[k].save # store[key].save
        BY <3>1, <3>5, <4>1, <4>2
      <4>4. store'[k] = store[k]
        BY <3>2, <4>2, <4>3
      <4>5. QED BY <3>1, <4>1, <4>2, <4>4
    <3>6. QED BY <2>c, <2>d, <3>1, <3>3, <3>5 DEF CopiedDown
  <2>6. ASSUME NEW key \in Keys, Damage(key), key \notin Ladder
        PROVE  /\ UNCHANGED <<generation, older, before>>
               /\ \A g \in Ladder : store'[g] = store[g]
    BY <2>6, LadderWrites DEF Damage
  <2>7. CASE RotationFails \/ Crash
    <3>1. UNCHANGED <<store, before>> /\ generation' = Generations - 1 /\ older' = Missing
      BY <2>7 DEF RotationFails, Crash
    <3>2. InLadder' = InLadder
      BY <3>1 DEF InLadder, Readable
    <3>3. QED BY <2>c, <3>1, <3>2
  <2>8. CASE \/ \E slot \in Slots : SaveData(slot) \/ StartLoad(slot)
             \/ WriteSlotFails \/ ReadCandidate \/ UNCHANGED vars
             \/ \E key \in Keys : Damage(key) /\ key \notin Ladder
    <3>1. UNCHANGED <<generation, older, before>> /\ \A g \in Ladder : store'[g] = store[g]
      BY <2>6, <2>8
         DEF SaveData, StartLoad, WriteSlotFails, ReadCandidate, vars, rotation
    <3>2. InLadder' = InLadder
      BY <3>1 DEF InLadder, Readable
    <3>3. CopiedDown => CopiedDown'
      BY <2>f, <3>1 DEF CopiedDown, Readable
    <3>4. Readable(store'[generation']) => Readable(store[generation])
      BY <2>f, <3>1
    <3>5. QED BY <2>c, <2>d, <2>e, <3>1, <3>2, <3>3, <3>4
  <2>9. QED
    BY <2>a, <2>1, <2>2, <2>3, <2>4, <2>5, <2>7, <2>8
       DEF Next, Rotate, ReadOlderFails, ReadCandidateFails
<1>3. QED BY <1>1, <1>2, TypeInvariant, OrderInvariant, PTL DEF Spec

\* While every read of a sound entry succeeds, a rotation (finished, failed half-way
\* or cut off) leaves at most one of the saves it began with out of the ladder.
THEOREM CostsOneSave == Spec => []LosesAtMostOneIfReadable
<1>1. Kept => LosesAtMostOneIfReadable
  <2> SUFFICES ASSUME Kept, spent["reads"] = 0
               PROVE  Cardinality(before \ InLadder) <= 1
    BY DEF LosesAtMostOneIfReadable, LosesAtMostOne
  <2>1. PICK x \in 0 .. MaxSaves : before \ InLadder \subseteq {x}
    BY DEF Kept
  <2>2. IsFiniteSet({x}) /\ Cardinality({x}) = 1
    BY FS_Singleton
  <2>3. Cardinality(before \ InLadder) <= Cardinality({x})
    BY <2>1, <2>2, FS_Subset
  <2>4. QED BY <2>2, <2>3
<1>2. QED BY <1>1, KeptInvariant, PTL

-----------------------------------------------------------------------------
(***************************************************************************)
(* There is something to go back to.                                       *)
(***************************************************************************)

\* How many generations hold nothing is a number, and changes by one with one entry.
LEMMA UnreadableCount ==
  ASSUME TypeInv, TypeInv'
  PROVE  /\ Cardinality(Unreadable) \in Nat /\ Cardinality(Unreadable') \in Nat
         /\ \A h \in Ladder :
              (\A g \in Ladder \ {h} : store'[g] = store[g]) =>
                Cardinality(Unreadable') =
                  Cardinality(Unreadable)
                    + (IF Readable(store'[h]) THEN 0 ELSE 1)
                    - (IF Readable(store[h]) THEN 0 ELSE 1)
<1> USE RecoveryAssumption
<1>1. IsFiniteSet(Ladder)
  <2>1. Generations - 1 \in Int
    OBVIOUS
  <2>2. QED BY <2>1, FS_Interval DEF Ladder
<1>2. IsFiniteSet(Unreadable) /\ IsFiniteSet(Unreadable')
  <2>1. Unreadable \subseteq Ladder /\ Unreadable' \subseteq Ladder
    BY DEF Unreadable
  <2>2. QED BY <1>1, <2>1, FS_Subset
<1>3. Cardinality(Unreadable) \in Nat /\ Cardinality(Unreadable') \in Nat
  BY <1>2, FS_CardinalityType
<1>4. ASSUME NEW h \in Ladder, \A g \in Ladder \ {h} : store'[g] = store[g]
      PROVE  Cardinality(Unreadable') =
               Cardinality(Unreadable)
                 + (IF Readable(store'[h]) THEN 0 ELSE 1)
                 - (IF Readable(store[h]) THEN 0 ELSE 1)
  <2>1. \A g \in Ladder \ {h} : g \in Unreadable' <=> g \in Unreadable
    BY <1>4 DEF Unreadable, Readable
  <2>2. /\ h \in Unreadable <=> ~Readable(store[h])
        /\ h \in Unreadable' <=> ~Readable(store'[h])
        /\ Unreadable \subseteq Ladder /\ Unreadable' \subseteq Ladder
    BY <1>4 DEF Unreadable, Readable
  <2>3. CASE h \in Unreadable /\ h \in Unreadable'
    <3>1. Unreadable' = Unreadable
      BY <2>1, <2>2, <2>3
    <3>2. QED BY <1>3, <2>2, <2>3, <3>1
  <2>4. CASE h \notin Unreadable /\ h \notin Unreadable'
    <3>1. Unreadable' = Unreadable
      BY <2>1, <2>2, <2>4
    <3>2. QED BY <1>3, <2>2, <2>4, <3>1
  <2>5. CASE h \in Unreadable /\ h \notin Unreadable'
    <3>1. Unreadable' = Unreadable \ {h}
      BY <2>1, <2>2, <2>5
    <3>2. Cardinality(Unreadable') = Cardinality(Unreadable) - 1
      BY <1>2, <2>5, <3>1, FS_RemoveElement
    <3>3. QED BY <1>3, <2>2, <2>5, <3>2
  <2>6. CASE h \notin Unreadable /\ h \in Unreadable'
    <3>1. Unreadable' = Unreadable \cup {h}
      BY <2>1, <2>2, <2>6
    <3>2. Cardinality(Unreadable') = Cardinality(Unreadable) + 1
      BY <1>2, <2>6, <3>1, FS_AddElement
    <3>3. QED BY <1>3, <2>2, <2>6, <3>2
  <2>7. QED BY <2>3, <2>4, <2>5, <2>6
<1>5. QED BY <1>3, <1>4

\* Copying entries down the ladder never leaves more of it unreadable.
LEMMA FilledInvariant == Spec => []Filled
<1> USE RecoveryAssumption, CounterNames
<1>1. ASSUME Init PROVE Filled
  <2>1. Len(rotated) = 0 /\ generation \in 0 .. generation /\ generation \in Ladder
        /\ spent["damage"] = 0 /\ spent["reads"] = 0
    BY <1>1 DEF Init, Ladder
  <2>2. ~Readable(store[generation]) /\ Unreadable = Ladder
    BY <1>1 DEF Init, Unreadable, Readable, Missing, Keys, Ladder
  <2>3. Cardinality(Ladder) = Generations
    <3>1. 0 \in Int /\ Generations - 1 \in Int
      OBVIOUS
    <3>2. Cardinality(Ladder)
            = IF 0 > Generations - 1 THEN 0 ELSE (Generations - 1) - 0 + 1
      BY <3>1, FS_Interval DEF Ladder
    <3>3. QED BY <3>2
  <2>4. QED BY <2>1, <2>2, <2>3 DEF Filled, Due
<1>2. ASSUME TypeInv, TypeInv', OrderInv, Filled, [Next]_vars PROVE Filled'
  <2> DEFINE n == Cardinality(Unreadable)
             m == Cardinality(Unreadable')
             d == spent["damage"]
             r == spent["reads"]
             due == Due(0)
             rest == Due(1)
             d1 == spent'["damage"]
             r1 == spent'["reads"]
             due1 == Due(0)'
             rest1 == Due(1)'
             All == \A h \in 0 .. generation : Readable(store[h])
             Whole == \A h \in 0 .. generation' : Readable(store'[h])
  <2> USE <1>2
  <2>a. /\ n \in Nat /\ m \in Nat /\ d \in Nat /\ r \in Nat /\ d1 \in Nat /\ r1 \in Nat
        /\ Len(rotated) \in Nat
    <3>1. \A w \in Counters : spent[w] \in Nat /\ spent'[w] \in Nat
      BY DEF TypeInv, TypeOK, Spent
    <3>2. QED BY <3>1, UnreadableCount, Numbers
  <2>b. n <= due + d + r /\ (All => n <= rest + d + r)
    BY DEF Filled
  <2>c. SUFFICES /\ m <= due1 + d1 + r1
                 /\ Whole => m <= rest1 + d1 + r1
    BY DEF Filled
  <2>d. /\ generation \in Ladder /\ generation \in Nat /\ generation <= Generations - 1
        /\ \A h \in 0 .. Generations - 1 : h \in Ladder
    BY Numbers DEF TypeInv, TypeOK, Ladder
  <2>e. due \in Nat /\ rest \in Nat /\ rest <= due /\ due <= rest + 1
    BY SMTT(40), <2>a DEF Due
  <2>f. rotated' = rotated => due1 = due /\ rest1 = rest
    BY DEF Due
  \* Between rotations the whole ladder is ahead of the next one.
  <2>g. generation' = Generations - 1 => (Whole => m = 0)
    <3>1. generation' = Generations - 1 /\ Whole => \A g \in Ladder : Readable(store'[g])
      BY DEF Ladder
    <3>2. (\A g \in Ladder : Readable(store'[g])) => Unreadable' = {}
      BY DEF Unreadable, Readable
    <3>3. Cardinality({}) = 0
      BY FS_EmptySet
    <3>4. QED BY <3>1, <3>2, <3>3
  <2>h. (\A g \in Ladder : store'[g] = store[g]) => m = n
    <3>1. (\A g \in Ladder : store'[g] = store[g]) => Unreadable' = Unreadable
      BY DEF Unreadable, Readable
    <3>2. QED BY <3>1
  <2>i. ASSUME NEW h \in Ladder, \A g \in Ladder \ {h} : store'[g] = store[g]
        PROVE  m = n + (IF Readable(store'[h]) THEN 0 ELSE 1)
                     - (IF Readable(store[h]) THEN 0 ELSE 1)
    BY <2>i, UnreadableCount
  <2> HIDE DEF n, m
  \* A step that completes no rotation.
  <2>j. ASSUME rotated' = rotated, d1 + r1 >= d + r, m <= n + (d1 + r1) - (d + r),
               Whole => All \/ m = 0 \/ m < n + (d1 + r1) - (d + r)
        PROVE  m <= due1 + d1 + r1 /\ (Whole => m <= rest1 + d1 + r1)
    <3>1. due1 = due /\ rest1 = rest
      BY <2>f, <2>j
    <3> HIDE DEF All, Whole, d, r, d1, r1, due, rest, due1, rest1
    <3>2. m <= due + d1 + r1
      BY <2>a, <2>b, <2>e, <2>j
    <3>3. ASSUME Whole PROVE m <= rest + d1 + r1
      <4>1. CASE All
        BY <2>a, <2>b, <2>e, <2>j, <4>1
      <4>2. CASE m = 0
        BY <2>a, <2>e, <4>2
      <4>3. CASE m < n + (d1 + r1) - (d + r)
        BY <2>a, <2>b, <2>e, <4>3
      <4>4. QED BY <2>j, <3>3, <4>1, <4>2, <4>3
    <3>4. QED BY <3>1, <3>2, <3>3
  <2>1. CASE WriteOlder
    <3>1. /\ generation' = generation - 1 /\ generation \in Nat \ {0}
          /\ UNCHANGED <<rotated, spent>> /\ older # Missing
      BY <2>1, <2>d DEF WriteOlder
    <3>2. \A g \in Ladder : store'[g] = IF g = generation THEN older ELSE store[g]
      BY <2>1, LadderWrites
    <3>3. Readable(store'[generation])
      BY <2>d, <3>1, <3>2 DEF OrderInv, Copying, TypeInv, TypeOK, Readable
    <3>4. m = n - (IF Readable(store[generation]) THEN 0 ELSE 1)
      <4>1. \A g \in Ladder \ {generation} : store'[g] = store[g]
        BY <3>2
      <4>2. m = n + (IF Readable(store'[generation]) THEN 0 ELSE 1)
                  - (IF Readable(store[generation]) THEN 0 ELSE 1)
        BY <2>d, <2>i, <4>1
      <4>3. QED BY <2>a, <3>3, <4>2
    <3>5. Whole /\ Readable(store[generation]) => All
      <4> SUFFICES ASSUME Whole, Readable(store[generation]), NEW h \in 0 .. generation
                   PROVE  Readable(store[h])
        OBVIOUS
      <4>1. CASE h = generation
        BY <4>1
      <4>2. CASE h # generation
        <5>1. h \in 0 .. generation' /\ h \in Ladder
          BY <2>d, <3>1, <4>2
        <5>2. QED BY <3>2, <4>2, <5>1
      <4>3. QED BY <4>1, <4>2
    <3>6. d1 = d /\ r1 = r /\ rotated' = rotated
      BY <3>1
    <3>7. /\ d1 + r1 >= d + r /\ m <= n + (d1 + r1) - (d + r)
          /\ Readable(store[generation]) \/ m < n + (d1 + r1) - (d + r)
      <4>1. CASE Readable(store[generation])
        <5>1. m = n
          BY <2>a, <3>4, <4>1
        <5>2. QED BY <2>a, <3>6, <4>1, <5>1
      <4>2. CASE ~Readable(store[generation])
        <5>1. m = n - 1
          BY <3>4, <4>2
        <5>2. QED BY SMTT(40), <2>a, <3>6, <5>1
      <4>3. QED BY <4>1, <4>2
    <3>8. QED BY <2>j, <3>5, <3>6, <3>7
  <2>2. CASE WriteNewest
    <3>1. /\ generation = 0 /\ generation' = Generations - 1 /\ UNCHANGED spent
      BY <2>2 DEF WriteNewest
    <3>2. Len(rotated') = Len(rotated) + 1 /\ rotations[1] \in Saves
      <4>1. Len(rotations) \in Nat \ {0} /\ Head(rotations) = rotations[1]
        BY <2>2, TailOfQueue DEF WriteNewest, Rotating, TypeInv, TypeOK
      <4>2. rotations[1] \in Saves /\ rotated \in Seq(Saves)
        BY <4>1, Numbers DEF TypeInv, TypeOK
      <4>3. rotated' = Append(rotated, rotations[1])
        BY <2>2, <4>1 DEF WriteNewest
      <4>4. QED BY <4>2, <4>3, EndOfQueue
    <3>3. \A g \in Ladder : store'[g] = IF g = 0 THEN Sound(rotations[1]) ELSE store[g]
      BY <2>2, LadderWrites
    <3>4. Readable(store'[0])
      BY <2>d, <3>1, <3>2, <3>3 DEF Sound, Readable, Saves
    <3>5. m = n - (IF Readable(store[0]) THEN 0 ELSE 1)
      BY <2>a, <2>d, <2>i, <3>1, <3>3, <3>4
    <3>6. Readable(store[0]) => All
      BY <3>1
    <3>7. due1 = rest /\ rest1 \in Nat
      BY SMTT(40), <2>a, <3>2 DEF Due
    <3>8. m <= rest + d + r
      <4> HIDE DEF All, d, r, d1, r1, due, rest, due1, rest1
      <4>1. CASE Readable(store[0])
        <5>1. m = n
          BY <2>a, <3>5, <4>1
        <5>2. QED BY <2>a, <2>b, <2>e, <3>6, <4>1, <5>1
      <4>2. CASE ~Readable(store[0])
        <5>1. m = n - 1
          BY <3>5, <4>2
        <5>2. QED BY <2>a, <2>b, <2>e, <5>1
      <4>3. QED BY <4>1, <4>2
    <3>9. Whole => m = 0
      BY <2>g, <3>1
    <3>10. d1 = d /\ r1 = r
      BY <3>1
    <3> HIDE DEF Whole, d, r, d1, r1, due, rest, due1, rest1
    <3>11. m <= due1 + d1 + r1
      BY <3>7, <3>8, <3>10
    <3>12. Whole => m <= rest1 + d1 + r1
      BY <2>a, <3>7, <3>9
    <3>13. QED BY <3>11, <3>12
  <2>3. CASE ReadOlder
    <3>1. /\ UNCHANGED <<store, rotated, spent>> /\ generation \in Nat \ {0}
          /\ \/ generation' = generation
             \/ generation' = generation - 1 /\ ~Readable(store[generation - 1])
      BY <2>3, <2>d DEF ReadOlder
    <3>2. Whole => All
      <4>1. CASE generation' = generation
        BY <3>1, <4>1
      <4>2. CASE generation' = generation - 1 /\ ~Readable(store[generation - 1])
        BY <3>1, <4>2
      <4>3. QED BY <3>1, <4>1, <4>2
    <3>3. d1 = d /\ r1 = r /\ m = n
      BY <2>h, <3>1
    <3>4. d1 + r1 >= d + r /\ m <= n + (d1 + r1) - (d + r)
      BY <2>a, <3>3
    <3>5. QED BY <2>j, <3>1, <3>2, <3>4
  <2>4. CASE ReadOlderFails
    <3>1. UNCHANGED <<store, rotated>> /\ d1 = d /\ r1 = r + 1
      BY <2>4, Counted DEF ReadOlderFails
    <3>2. m = n
      BY <2>h, <3>1
    <3>3. d1 + r1 >= d + r /\ m < n + (d1 + r1) - (d + r)
      <4> HIDE DEF d, r, d1, r1
      <4>1. QED BY <2>a, <3>1, <3>2
    <3>4. m <= n + (d1 + r1) - (d + r)
      BY SMTT(40), <2>a, <3>3
    <3>5. QED BY <2>j, <3>1, <3>3, <3>4
  <2>5. CASE RotationFails \/ Crash
    <3>1. /\ UNCHANGED <<store, rotated>> /\ generation' = Generations - 1
      BY <2>5 DEF RotationFails, Crash
    <3>2. d1 = d /\ r1 = r
      BY <2>5, Counted DEF RotationFails, Crash
    <3>3. Whole => m = 0
      BY <2>g, <3>1
    <3>4. m = n
      BY <2>h, <3>1
    <3>5. d1 + r1 >= d + r /\ m <= n + (d1 + r1) - (d + r)
      BY <2>a, <3>2, <3>4
    <3>6. QED BY <2>j, <3>1, <3>3, <3>5
  <2>6. ASSUME NEW key \in Keys, Damage(key)
        PROVE  /\ m <= due1 + d1 + r1
               /\ Whole => m <= rest1 + d1 + r1
    <3>1. /\ UNCHANGED <<generation, rotated>> /\ Readable(store[key])
          /\ d1 = d + 1 /\ r1 = r
      BY <2>6, Counted DEF Damage
    <3>2. \A g \in Ladder : store'[g] = IF g = key THEN [store[g] EXCEPT !.sound = FALSE]
                                                  ELSE store[g]
      BY <2>6, LadderWrites
    <3>3. m <= n + 1
      <4>1. CASE key \in Ladder
        <5>1. m = n + (IF Readable(store'[key]) THEN 0 ELSE 1)
                    - (IF Readable(store[key]) THEN 0 ELSE 1)
          BY <2>i, <3>2, <4>1
        <5>2. CASE Readable(store'[key])
          BY <2>a, <3>1, <5>1, <5>2
        <5>3. CASE ~Readable(store'[key])
          BY <2>a, <3>1, <5>1, <5>3
        <5>4. QED BY <5>2, <5>3
      <4>2. CASE key \notin Ladder
        <5>1. \A g \in Ladder : store'[g] = store[g]
          BY <3>2, <4>2
        <5>2. QED BY <2>a, <2>h, <5>1
      <4>3. QED BY <4>1, <4>2
    <3>4. Whole => All
      <4> SUFFICES ASSUME Whole, NEW h \in 0 .. generation PROVE Readable(store[h])
        OBVIOUS
      <4>1. Readable(store'[h]) /\ h \in Ladder
        BY <2>d, <3>1
      <4>2. QED BY <3>1, <3>2, <4>1
    <3>5. d1 + r1 >= d + r /\ m <= n + (d1 + r1) - (d + r)
      BY SMTT(40), <2>a, <3>1, <3>3
    <3>6. QED BY <2>j, <3>1, <3>4, <3>5
  <2>7. CASE \/ \E slot \in Slots : SaveData(slot) \/ StartLoad(slot)
             \/ WriteSlot \/ WriteSlotFails \/ ReadCandidate \/ ReadCandidateFails
             \/ UNCHANGED vars
    <3>1. /\ UNCHANGED <<generation, rotated>> /\ \A g \in Ladder : store'[g] = store[g]
      BY <2>7, LadderWrites
         DEF SaveData, StartLoad, WriteSlot, WriteSlotFails, ReadCandidate,
             ReadCandidateFails, vars, rotation
    <3>2. d1 = d /\ r1 >= r
      <4>1. \/ spent' = spent \/ Count("loads") \/ Count("writes") \/ Count("reads")
        BY <2>7 DEF SaveData, StartLoad, WriteSlot, WriteSlotFails, ReadCandidate,
                    ReadCandidateFails, vars
      <4>2. QED BY SMTT(40), <2>a, <4>1, Counted
    <3>3. Whole => All
      BY <2>d, <3>1
    <3>4. m = n
      BY <2>h, <3>1
    <3>5. d1 + r1 >= d + r /\ m <= n + (d1 + r1) - (d + r)
      BY SMTT(40), <2>a, <3>2, <3>4
    <3>6. QED BY <2>j, <3>1, <3>3, <3>5
  <2>8. QED
    BY <2>1, <2>2, <2>3, <2>4, <2>5, <2>6, <2>7 DEF Next, Rotate
<1>3. QED BY <1>1, <1>2, TypeInvariant, OrderInvariant, PTL DEF Spec

-----------------------------------------------------------------------------
(***************************************************************************)
(* A load falls back to the newest.                                        *)
(***************************************************************************)

\* A write leaves what could be read readable, and no generation older than it was.
LEMMA WritesRise ==
  ASSUME TypeInv, OrderInv, WriteSlot \/ WriteOlder \/ WriteNewest,
         NEW k \in Keys, Readable(store[k])
  PROVE  /\ Readable(store'[k])
         /\ k \in Ladder => store'[k].save >= store[k].save
<1> USE RecoveryAssumption
<1>1. store[k].save \in Nat /\ generation \in Ladder /\ \A g \in Ladder : g \in Nat
  BY Numbers DEF TypeInv, TypeOK, Ladder
<1>2. CASE WriteSlot
  <2>1. /\ Len(writing) \in Nat \ {0} /\ Head(writing) = writing[1]
    BY <1>2, TailOfQueue DEF WriteSlot, TypeInv, TypeOK
  <2>2. writing[1].save \in Saves
    BY <2>1, Numbers
  <2>3. store'[k] = store[k] \/ store'[k] = Sound(writing[1].save)
    BY <1>2, <2>1 DEF WriteSlot, TypeInv, TypeOK
  <2>4. Readable(Sound(writing[1].save))
    BY <2>2 DEF Readable, Sound, Saves
  <2>5. k \in Ladder => store'[k] = store[k]
    BY <1>2, LadderWrites
  <2>6. QED BY <1>1, <2>3, <2>4, <2>5
<1>3. CASE WriteOlder
  <2>1. store'[k] = IF k = generation THEN older ELSE store[k]
    BY <1>3 DEF WriteOlder, TypeInv, TypeOK
  <2>2. /\ Readable(older) /\ older.save = store[generation - 1].save
        /\ generation - 1 \in Ladder /\ generation - 1 \in 0 .. generation
    BY <1>1, <1>3, Numbers DEF WriteOlder, OrderInv, Copying, TypeInv, TypeOK, Readable, Ladder
  <2>3. k = generation => older.save >= store[k].save
    BY <1>1, <2>2 DEF OrderInv, NewestFirst, Readable
  <2>4. QED BY <1>1, <2>1, <2>2, <2>3
<1>4. CASE WriteNewest
  <2>1. Len(rotations) \in Nat \ {0} /\ Head(rotations) = rotations[1]
    BY <1>4, TailOfQueue DEF WriteNewest, Rotating, TypeInv, TypeOK
  <2>2. rotations[1] \in Saves
    BY <2>1, Numbers
  <2>3. store'[k] = IF k = 0 THEN Sound(rotations[1]) ELSE store[k]
    BY <1>4, <2>1 DEF WriteNewest, TypeInv, TypeOK
  <2>4. k \in Ladder => store[k].save < rotations[1]
    BY <2>1 DEF OrderInv, Lined, LadderBehind
  <2>5. QED BY <1>1, <2>2, <2>3, <2>4 DEF Readable, Sound, Saves
<1>5. QED BY <1>2, <1>3, <1>4

\* The candidates a load may still rely on are ahead of it, until it is over; then
\* it has found the best of them.
LEMMA SearchInvariant == Spec => [](Searched /\ Found)
<1> USE RecoveryAssumption
<1>1. ASSUME Init PROVE Searched /\ Found
  BY <1>1 DEF Init, Searched, Found, Loading
<1>2. ASSUME TypeInv, TypeInv', OrderInv, Searched, Found, [Next]_vars
      PROVE  Searched' /\ Found'
  <2> USE <1>2
  <2>a. Loading => /\ reader \in Loads /\ reader.at \in Keys /\ reader.want \in Slots
                   /\ reader.at = reader.want \/ reader.at \in Ladder
                   /\ \A c \in reader.steady : c.key \in Keys /\ c.save \in Nat
    <3>1. SUFFICES ASSUME Loading PROVE /\ reader \in Loads
                                        /\ reader.at = reader.want \/ reader.at \in Ladder
      BY DEF Loads, Saves
    <3>2. QED BY <3>1 DEF Loading, TypeInv, TypeOK, Somewhere
  <2>b. \A k \in Ladder : k \in Keys /\ k \in Nat /\ k \notin Slots /\ k <= Generations - 1
    BY DEF Ladder, Keys
  <2>c. \A k \in Keys : store[k].save \in Nat /\ store'[k].save \in Nat
    <3>1. \A e \in Entries : e.save \in Nat
      BY DEF Entries
    <3>2. QED BY <3>1 DEF TypeInv, TypeOK
  <2>1. ASSUME NEW slot \in Slots, StartLoad(slot) PROVE Searched' /\ Found'
    <3>1. reader' = [want |-> slot, at |-> slot, done |-> FALSE, from |-> None, save |-> 0,
                     steady |-> {[key |-> k, save |-> store[k].save] :
                                   k \in {h \in Ladder \cup {slot} : Readable(store[h])}}]
          /\ store' = store
      BY <2>1 DEF StartLoad
    <3>2. ASSUME NEW c \in reader'.steady PROVE Ahead(c)'
      <4>1. PICK k \in Ladder \cup {slot} :
              Readable(store[k]) /\ c = [key |-> k, save |-> store[k].save]
        BY <3>1
      <4>2. c.key = k /\ c.save = store[k].save /\ reader'.at = slot /\ reader'.want = slot
        BY <3>1, <4>1
      <4>3. k \in Keys
        BY <4>1 DEF Keys
      <4>4. QED BY <2>c, <3>1, <4>1, <4>2, <4>3 DEF Ahead
    <3>3. Found'
      BY <3>1 DEF Found
    <3>4. QED BY <3>2, <3>3 DEF Searched
  <2>2. CASE WriteSlot \/ WriteOlder \/ WriteNewest
    <3>1. reader' = reader
      BY <2>2 DEF WriteSlot, WriteOlder, WriteNewest
    <3>2. ASSUME Loading, NEW c \in reader.steady PROVE Ahead(c)'
      <4>1. Ahead(c) /\ c.key \in Keys /\ c.save \in Nat
        BY <2>a, <3>2 DEF Searched
      <4>2. /\ Readable(store'[c.key])
            /\ c.key \in Ladder => store'[c.key].save >= store[c.key].save
        BY <2>2, <4>1, WritesRise DEF Ahead
      <4>3. c.key \in Ladder => store'[c.key].save >= c.save
        BY <2>c, <4>1, <4>2 DEF Ahead
      <4>4. QED BY <3>1, <4>1, <4>2, <4>3 DEF Ahead
    <3>3. QED BY <3>1, <3>2 DEF Searched, Found, Loading
  \* Passing over a candidate that is not to be relied on.
  <2>3. ASSUME Loading, store' = store, NEW c \in reader.steady, c.key # reader.at
        PROVE  /\ ~Refused.done /\ Refused.steady = reader.steady
               /\ reader' \in {Refused, Unsteady(Refused, reader.at)} => Ahead(c)'
    <3>1. Ahead(c) /\ c.key \in Keys
      BY <2>3, <2>a DEF Searched
    <3>2. c.key # reader.want
      BY <2>3, <3>1 DEF Ahead
    <3>3. c.key \in Ladder
      BY <3>1, <3>2 DEF Ahead
    <3>4. reader.at = reader.want \/ reader.at < c.key
      BY <2>3, <2>a, <2>b, <3>1, <3>3 DEF Ahead
    <3>5. reader.at # Generations - 1
      <4>1. Generations - 1 \in Ladder
        BY DEF Ladder
      <4>2. QED BY <2>3, <2>a, <2>b, <3>3, <3>4, <4>1
    <3>6. Refused = [reader EXCEPT !.at = IF @ = reader.want THEN 0 ELSE @ + 1]
      BY <3>5 DEF Refused
    <3>7. /\ Refused.at = (IF reader.at = reader.want THEN 0 ELSE reader.at + 1)
          /\ Refused.want = reader.want /\ Refused.done = reader.done
          /\ Refused.steady = reader.steady
          /\ Refused = [Refused EXCEPT !.steady = reader.steady]
      BY <2>3, <2>a, <3>6 DEF Loads
    <3>8. Refused.at <= c.key
      BY <2>3, <2>a, <2>b, <3>3, <3>4, <3>7
    <3>9. /\ Unsteady(Refused, reader.at).at = Refused.at
          /\ Unsteady(Refused, reader.at).want = Refused.want
      BY <2>3, <2>a, <3>6 DEF Unsteady, Loads
    <3>10. reader' \in {Refused, Unsteady(Refused, reader.at)} => Ahead(c)'
      BY <2>3, <3>1, <3>2, <3>3, <3>7, <3>8, <3>9 DEF Ahead
    <3>11. QED BY <2>3, <3>7, <3>10 DEF Loading
  <2>4. Loading => /\ Refused.steady = reader.steady /\ Refused.from = reader.from
                   /\ Unsteady(Refused, reader.at).steady
                        = {c \in reader.steady : c.key # reader.at}
                   /\ Unsteady(Refused, reader.at).done = Refused.done
    <3> SUFFICES ASSUME Loading
                 PROVE  /\ Refused.steady = reader.steady /\ Refused.from = reader.from
                        /\ Unsteady(Refused, reader.at).steady
                             = {c \in reader.steady : c.key # reader.at}
                        /\ Unsteady(Refused, reader.at).done = Refused.done
      OBVIOUS
    <3>1. reader \in Loads
      BY <2>a
    <3>2. /\ Refused.steady = reader.steady /\ Refused.from = reader.from
          /\ Refused = [Refused EXCEPT !.steady = reader.steady]
      BY <3>1 DEF Refused, Loads
    <3>3. QED BY <3>1, <3>2 DEF Unsteady, Refused, Loads
  <2>5. CASE ReadCandidate
    <3>1. Loading /\ store' = store
      BY <2>5 DEF ReadCandidate
    <3>2. CASE Readable(store[reader.at])
      <4>1. /\ reader' = [reader EXCEPT !.done = TRUE, !.from = reader.at,
                                        !.save = store[reader.at].save]
        BY <2>5, <3>2 DEF ReadCandidate
      <4>2. /\ reader'.done = TRUE /\ reader'.from = reader.at
            /\ reader'.save = store[reader.at].save
            /\ reader'.want = reader.want /\ reader'.steady = reader.steady
        BY <2>a, <3>1, <4>1 DEF Loads
      <4>3. ASSUME NEW c \in reader.steady
            PROVE  /\ reader.at # None
                   /\ c.key = reader.want => reader.at = reader.want
                   /\ c.key \in Ladder /\ reader.at \in Ladder
                        => store[reader.at].save >= c.save
        <5>1. Ahead(c) /\ c.save \in Nat
          BY <2>a, <3>1 DEF Searched
        <5>2. reader.at # None
          BY <2>a, <3>1 DEF Keys, Ladder
        <5>3. ASSUME c.key \in Ladder, reader.at \in Ladder
              PROVE  store[reader.at].save >= c.save
          <6>1. reader.at <= c.key /\ store[c.key].save >= c.save /\ store[c.key].save # 0
            BY <2>a, <2>b, <3>1, <5>1, <5>3 DEF Ahead, Readable
          <6>2. reader.at \in 0 .. c.key
            BY <2>b, <5>3, <6>1
          <6>3. store[reader.at].save >= store[c.key].save
            BY <5>3, <6>1, <6>2 DEF OrderInv, NewestFirst
          <6>4. QED BY <2>b, <2>c, <5>1, <5>3, <6>1, <6>3
        <5>4. QED BY <5>1, <5>2, <5>3 DEF Ahead
      <4>4. QED BY <4>2, <4>3 DEF Searched, Found, Loading
    <3>3. CASE ~Readable(store[reader.at])
      <4>1. reader' = Refused
        BY <2>5, <3>3 DEF ReadCandidate
      <4>2. \A c \in reader.steady : c.key # reader.at
        BY <3>1, <3>3 DEF Searched, Ahead
      <4>3. \A c \in reader.steady : ~Refused.done /\ Ahead(c)'
        BY <2>3, <3>1, <4>1, <4>2
      <4>4. QED BY <2>4, <3>1, <4>1, <4>3 DEF Searched, Found
    <3>4. QED BY <3>2, <3>3
  <2>6. CASE ReadCandidateFails
    <3>1. Loading /\ store' = store /\ reader' = Unsteady(Refused, reader.at)
      BY <2>6 DEF ReadCandidateFails
    <3>2. \A c \in reader'.steady : c \in reader.steady /\ c.key # reader.at
      BY <2>4, <3>1
    <3>3. \A c \in reader'.steady : ~Refused.done /\ Ahead(c)'
      BY <2>3, <3>1, <3>2
    <3>4. QED BY <2>4, <3>1, <3>3 DEF Searched, Found
  <2>7. ASSUME NEW key \in Keys, Damage(key) PROVE Searched' /\ Found'
    <3>1. CASE Loading
      <4>1. /\ reader' = Unsteady(reader, key)
            /\ \A k \in Keys \ {key} : store'[k] = store[k]
        BY <2>7, <3>1 DEF Damage, TypeInv, TypeOK
      <4>2. /\ reader'.steady = {c \in reader.steady : c.key # key}
            /\ reader'.at = reader.at /\ reader'.want = reader.want
            /\ ~reader'.done
        BY <2>a, <3>1, <4>1 DEF Unsteady, Loads, Loading
      <4>3. ASSUME NEW c \in reader'.steady PROVE Ahead(c)'
        <5>1. c \in reader.steady /\ c.key # key
          BY <4>2
        <5>2. Ahead(c) /\ c.key \in Keys
          BY <2>a, <3>1, <5>1 DEF Searched
        <5>3. store'[c.key] = store[c.key]
          BY <4>1, <5>1, <5>2
        <5>4. QED BY <4>2, <5>2, <5>3 DEF Ahead
      <4>4. QED BY <4>2, <4>3 DEF Searched, Found
    <3>2. CASE ~Loading
      <4>1. reader' = reader
        BY <2>7, <3>2 DEF Damage
      <4>2. QED BY <3>2, <4>1 DEF Searched, Found, Loading
    <3>3. QED BY <3>1, <3>2
  <2>8. CASE Crash
    BY <2>8 DEF Crash, Searched, Found, Loading
  <2>9. CASE \/ \E slot \in Slots : SaveData(slot)
             \/ WriteSlotFails \/ ReadOlder \/ ReadOlderFails \/ RotationFails
             \/ UNCHANGED vars
    <3>1. UNCHANGED <<store, reader>>
      BY <2>9 DEF SaveData, WriteSlotFails, ReadOlder, ReadOlderFails, RotationFails, vars
    <3>2. QED BY <3>1 DEF Searched, Found, Loading, Ahead
  <2>10. QED
    BY <2>1, <2>2, <2>5, <2>6, <2>7, <2>8, <2>9 DEF Next, Rotate
<1>3. QED BY <1>1, <1>2, TypeInvariant, OrderInvariant, PTL DEF Spec

\* Whatever fails or ends meanwhile, a load offers the slot it was asked for if that
\* held all along, else nothing older than the best generation that did; and no more
\* of a ladder once filled is unreadable than was damaged or failed to read.
THEOREM FallsBackToNewest == Spec => []LoadFallsBackToNewest
<1>1. TypeInv /\ Filled /\ Found => LoadFallsBackToNewest
  <2>1. TypeInv /\ Filled => SomethingToGoBackTo
    <3> SUFFICES ASSUME TypeInv, Filled, Len(rotated) >= Generations
                 PROVE  Cardinality(Unreadable) <= spent["damage"] + spent["reads"]
      BY DEF SomethingToGoBackTo, Unreadable
    <3>1. Due(0) = 0
      BY RecoveryAssumption, Numbers DEF Due
    <3>2. spent["damage"] \in Nat /\ spent["reads"] \in Nat
      BY CounterNames DEF TypeInv, TypeOK, Spent
    <3>3. QED BY <3>1, <3>2 DEF Filled
  <2>2. QED BY <2>1 DEF Found, LoadFallsBackToNewest
<1>2. QED BY <1>1, TypeInvariant, FilledInvariant, SearchInvariant, PTL

=============================================================================
