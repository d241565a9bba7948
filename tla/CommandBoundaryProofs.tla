------------------------ MODULE CommandBoundaryProofs ------------------------
(***************************************************************************)
(* Theorems about CommandBoundary, for every value of its constants: the   *)
(* types and the log, then the course of a career.                         *)
(*                                                                         *)
(* The log's inductive invariant adds two facts to its properties.  While  *)
(* a command is being applied the draft's log is still the live state's,   *)
(* and the command's id is not in it.  And what holds of the running       *)
(* career held of the saved one, which a load brings back.                 *)
(***************************************************************************)
EXTENDS CommandBoundary, SequenceTheorems, TLAPS

-----------------------------------------------------------------------------
(***************************************************************************)
(* Sequences: Newest keeps a suffix.                                       *)
(***************************************************************************)

\* Newest(s, n) is a sequence over the same set, as long as s or n, and its
\* elements are the last ones of s.  appendLog and emitEvent rest on it.
LEMMA NewestIsSuffix ==
  ASSUME NEW S, NEW s \in Seq(S), NEW n \in Nat
  PROVE  /\ Newest(s, n) \in Seq(S)
         /\ Len(Newest(s, n)) = IF Len(s) > n THEN n ELSE Len(s)
         /\ \A i \in 1 .. Len(Newest(s, n)) :
              Newest(s, n)[i] = s[Len(s) - Len(Newest(s, n)) + i]
<1>1. CASE Len(s) > n
  <2>1. Newest(s, n) = SubSeq(s, Len(s) - n + 1, Len(s))
    BY <1>1 DEF Newest
  <2>2. QED BY <1>1, <2>1
<1>2. CASE ~(Len(s) > n)
  BY <1>2 DEF Newest
<1>3. QED BY <1>1, <1>2

\* Trimming the log at every append gives what trimming the whole history
\* gives: why appendLog may forget.
LEMMA NewestAppend ==
  ASSUME NEW S, NEW s \in Seq(S), NEW x \in S, NEW n \in Nat \ {0}
  PROVE  Newest(Append(Newest(s, n), x), n) = Newest(Append(s, x), n)
<1> DEFINE t == Newest(s, n)
           u == Append(t, x)
           v == Append(s, x)
           a == Newest(u, n)
           b == Newest(v, n)
<1>1. /\ t \in Seq(S)
      /\ Len(t) = IF Len(s) > n THEN n ELSE Len(s)
      /\ \A i \in 1 .. Len(t) : t[i] = s[Len(s) - Len(t) + i]
  BY NewestIsSuffix
<1> HIDE DEF t
<1>2. /\ u \in Seq(S) /\ Len(u) = Len(t) + 1
      /\ u[Len(t) + 1] = x /\ \A i \in 1 .. Len(t) : u[i] = t[i]
  BY <1>1
<1>3. /\ v \in Seq(S) /\ Len(v) = Len(s) + 1
      /\ v[Len(s) + 1] = x /\ \A i \in 1 .. Len(s) : v[i] = s[i]
  OBVIOUS
<1> HIDE DEF u, v
<1>4. /\ a \in Seq(S)
      /\ Len(a) = IF Len(u) > n THEN n ELSE Len(u)
      /\ \A i \in 1 .. Len(a) : a[i] = u[Len(u) - Len(a) + i]
  BY <1>2, NewestIsSuffix
<1>5. /\ b \in Seq(S)
      /\ Len(b) = IF Len(v) > n THEN n ELSE Len(v)
      /\ \A i \in 1 .. Len(b) : b[i] = v[Len(v) - Len(b) + i]
  BY <1>3, NewestIsSuffix
<1> HIDE DEF a, b
<1>6. Len(s) \in Nat /\ Len(t) \in Nat /\ Len(a) \in Nat
  BY <1>1, <1>4
<1>7. Len(a) = Len(b) /\ Len(a) <= Len(t) + 1 /\ Len(a) <= Len(s) + 1
  BY <1>1, <1>2, <1>3, <1>4, <1>5, <1>6
<1>8. ASSUME NEW i \in 1 .. Len(a) PROVE a[i] = b[i]
  <2>1. a[i] = u[Len(t) + 1 - Len(a) + i] /\ b[i] = v[Len(s) + 1 - Len(a) + i]
    <3>1. a[i] = u[Len(u) - Len(a) + i] /\ b[i] = v[Len(v) - Len(b) + i]
      BY <1>4, <1>5, <1>7
    <3>2. QED BY <3>1, <1>2, <1>3, <1>7
  <2>2. CASE i = Len(a)
    <3>1. Len(t) + 1 - Len(a) + i = Len(t) + 1 /\ Len(s) + 1 - Len(a) + i = Len(s) + 1
      BY <2>2, <1>6
    <3>2. QED BY <2>1, <3>1, <1>2, <1>3
  <2>3. CASE i < Len(a)
    <3> DEFINE k == Len(t) + 1 - Len(a) + i
               l == Len(s) + 1 - Len(a) + i
    <3>1. k \in 1 .. Len(t) /\ l \in 1 .. Len(s) /\ Len(s) - Len(t) + k = l
      BY <2>3, <1>6, <1>7
    <3> HIDE DEF k, l
    <3>2. u[k] = t[k] /\ t[k] = s[l] /\ v[l] = s[l]
      BY <3>1, <1>1, <1>2, <1>3
    <3>3. QED BY <2>1, <3>2 DEF k, l
  <2>4. QED BY <2>2, <2>3, <1>6
<1>9. a = b
  BY <1>4, <1>5, <1>7, <1>8
<1>10. QED BY <1>9 DEF a, b, u, v, t

-----------------------------------------------------------------------------
(***************************************************************************)
(* Types.                                                                  *)
(***************************************************************************)

\* A rule's write leaves a well-typed state.
LEMMA WritesType ==
  ASSUME NEW s \in GameStates, NEW h \in Hotels, NEW c \in Ids \cup {None},
         NEW emits \in BOOLEAN
  PROVE  Writes(s, h, c, emits) \in GameStates
<1> USE ConstantsAssumption
<1> DEFINE w == [s EXCEPT !.hotel = h]
           p == Append(w.pending, [sequence |-> w.emitted + 1, cause |-> c])
<1>1. w \in GameStates
  BY DEF GameStates
<1>2. p \in Seq(Events)
  <2>1. w.pending \in Seq(Events) /\ w.emitted \in Nat
    BY <1>1 DEF GameStates
  <2>2. [sequence |-> w.emitted + 1, cause |-> c] \in Events
    BY <2>1 DEF Events
  <2>3. QED BY <2>1, <2>2, AppendProperties
<1>3. /\ Newest(p, JournalLimit) \in Seq(Events)
      /\ Len(Newest(p, JournalLimit)) \in Nat /\ Len(p) \in Nat
      /\ Len(Newest(p, JournalLimit)) <= Len(p)
  <2> HIDE DEF p
  <2>1. /\ Newest(p, JournalLimit) \in Seq(Events)
        /\ Len(Newest(p, JournalLimit))
             = IF Len(p) > JournalLimit THEN JournalLimit ELSE Len(p)
    BY <1>2, NewestIsSuffix
  <2>2. Len(p) \in Nat
    BY <1>2
  <2>3. QED BY <2>1, <2>2
<1>4. w.dropped + Len(p) - Len(Newest(p, JournalLimit)) \in Nat
  <2> HIDE DEF p, w
  <2>1. w.dropped \in Nat
    BY <1>1 DEF GameStates
  <2>2. QED BY <2>1, <1>3
<1>5. EmitEvent(w, c) \in GameStates
  <2>1. EmitEvent(w, c) = [w EXCEPT !.emitted = w.emitted + 1,
                             !.pending = Newest(p, JournalLimit),
                             !.dropped = w.dropped + Len(p)
                                           - Len(Newest(p, JournalLimit))]
    BY DEF EmitEvent
  <2> HIDE DEF p, w
  <2>2. w.emitted + 1 \in Nat
    BY SMTT(40), <1>1 DEF GameStates
  <2> DEFINE q == Newest(p, JournalLimit)
             d == w.dropped + Len(p) - Len(Newest(p, JournalLimit))
             m == w.emitted + 1
  <2>3. EmitEvent(w, c) = [w EXCEPT !.emitted = m, !.pending = q, !.dropped = d]
    BY <2>1
  <2>4. m \in Nat /\ q \in Seq(Events) /\ d \in Nat
    BY <2>2, <1>3, <1>4
  <2> HIDE DEF q, d, m
  <2>5. QED BY <2>3, <2>4, <1>1 DEF GameStates
<1>6. QED BY <1>1, <1>5 DEF Writes

\* Recording a verdict leaves a well-typed log and history.
LEMMA RecordType ==
  ASSUME NEW log \in Seq(LogEntries), NEW e \in LogEntries
  PROVE  AppendLog(log, e) \in Seq(LogEntries)
<1>1. Append(log, e) \in Seq(LogEntries)
  BY AppendProperties
<1>2. QED BY <1>1, ConstantsAssumption, NewestIsSuffix DEF AppendLog

\* A command is applied only while its batch is being decided.
Applies ==
  /\ phase = "idle" => batch = <<>>
  /\ live # None => batch # <<>> /\ causing \in Ids

\* One verdict is owed for every envelope that has none yet.
Counts ==
  /\ Len(owed) = Len(history) + Len(batch) + Len(queued)
  /\ saved # None => Len(saved.decided) = Len(saved.history)

TypeInv == TypeOK /\ Applies /\ Counts

\* A refusal recorded on a well-typed state keeps the types.
LEMMA RejectType ==
  ASSUME NEW s \in GameStates, NEW id \in Ids, NEW reason \in Refusals,
         history \in Seq(LogEntries), RejectFrom(s, id, reason)
  PROVE  /\ state' \in GameStates
         /\ streams' \in Nat
         /\ history' \in Seq(LogEntries)
         /\ Len(history') = Len(history) + 1
<1>1. Entry(id, reason, s.version) \in LogEntries
  BY DEF Entry, LogEntries, GameStates, Refusals
<1>2. AppendLog(s.log, Entry(id, reason, s.version)) \in Seq(LogEntries)
  BY <1>1, RecordType DEF GameStates
<1> DEFINE e == Entry(id, reason, s.version)
           l == AppendLog(s.log, e)
<1>3. state' = [s EXCEPT !.sequence = s.sequence + 1, !.log = l]
  BY DEF RejectFrom
<1>4. s.sequence + 1 \in Nat /\ s.rng \in Nat
  BY DEF GameStates
<1>5. e \in LogEntries /\ l \in Seq(LogEntries)
  BY <1>1, <1>2
<1>6. history' = Append(history, e) /\ streams' = s.rng
  BY DEF RejectFrom
<1> HIDE DEF e, l
<1>7. state' \in GameStates
  BY <1>3, <1>4, <1>5 DEF GameStates
<1>8. history' \in Seq(LogEntries) /\ Len(history') = Len(history) + 1
  BY <1>5, <1>6, AppendProperties
<1>9. QED BY <1>4, <1>6, <1>7, <1>8

\* The head of a batch is decided: one verdict more, one envelope less.
LEMMA DecideCounts ==
  ASSUME TypeInv, batch # <<>>,
         Len(history') = Len(history) + 1, batch' = Tail(batch),
         UNCHANGED <<queued, owed, saved>>
  PROVE  Counts' /\ batch' \in Seq(Envelopes)
<1>1. Tail(batch) \in Seq(Envelopes) /\ Len(Tail(batch)) = Len(batch) - 1
  BY HeadTailProperties DEF TypeInv, TypeOK
<1>2. Len(history) \in Nat /\ Len(batch) \in Nat /\ Len(queued) \in Nat
  BY LenProperties DEF TypeInv, TypeOK
<1>3. QED BY <1>1, <1>2 DEF TypeInv, Counts

\* The inductive invariant behind TypeCorrect, for the proofs that rest on it.
LEMMA TypeInvariant == Spec => []TypeInv
<1> USE ConstantsAssumption
<1>1. Init => TypeInv
  <2> SUFFICES ASSUME Init PROVE TypeInv
    OBVIOUS
  <2>1. /\ <<>> \in Seq(LogEntries) /\ <<>> \in Seq(Events)
        /\ <<>> \in Seq(Envelopes) /\ Len(<<>>) = 0
    BY EmptySeq
  <2>2. state \in GameStates
    BY <2>1 DEF Init, InitialState, GameStates
  <2>3. TypeOK
    BY <2>1, <2>2 DEF Init, TypeOK
  <2>4. Applies /\ Counts
    BY <2>1 DEF Init, Applies, Counts
  <2>5. QED BY <2>3, <2>4 DEF TypeInv
<1>2. TypeInv /\ [Next]_vars => TypeInv'
  <2> SUFFICES ASSUME TypeInv, [Next]_vars PROVE TypeInv'
    OBVIOUS
  <2>a. TypeOK /\ Applies /\ Counts
    BY DEF TypeInv
  <2>b. /\ Len(history) \in Nat /\ Len(batch) \in Nat
        /\ Len(queued) \in Nat /\ Len(owed) \in Nat
    BY <2>a, LenProperties DEF TypeOK
  <2>1. ASSUME NEW id \in PlayerIds, NEW v \in {None} \cup 0 .. state.version,
               QueueEnvelope(id, v)
        PROVE  TypeInv'
    <3> DEFINE e == [id |-> id, expected |-> v]
    <3>1. e \in Envelopes
      BY <2>a DEF TypeOK, GameStates, Envelopes, Ids
    <3>2. queued' = Append(queued, e) /\ owed' = Append(owed, e)
      BY <2>1 DEF QueueEnvelope
    <3> HIDE DEF e
    <3>3. /\ queued' \in Seq(Envelopes) /\ Len(queued') = Len(queued) + 1
          /\ owed' \in Seq(Envelopes) /\ Len(owed') = Len(owed) + 1
      BY <3>1, <3>2, <2>a, AppendProperties DEF TypeOK
    <3>4. TypeOK' /\ Applies'
      BY <2>1, <2>a, <3>3 DEF QueueEnvelope, TypeOK, Applies
    <3>5. Counts'
      BY <2>1, <2>a, <2>b, <3>3 DEF QueueEnvelope, Counts
    <3>6. QED BY <3>4, <3>5 DEF TypeInv
  <2>2. ASSUME NEW id \in PlayerIds, NEW v \in {None} \cup 0 .. state.version,
               BeginSubmit(id, v)
        PROVE  TypeInv'
    <3> DEFINE e == [id |-> id, expected |-> v]
               kept == SubSeq(owed, 1, Len(history))
    <3>1. e \in Envelopes
      BY <2>a DEF TypeOK, GameStates, Envelopes, Ids
    <3>2. batch' = <<e>> /\ owed' = kept \o <<e>> \o queued
      BY <2>2 DEF BeginSubmit
    <3> HIDE DEF e
    <3>3. <<e>> \in Seq(Envelopes) /\ Len(<<e>>) = 1
      BY <3>1
    <3>4. kept \in Seq(Envelopes) /\ Len(kept) = Len(history)
      <4>1. owed \in Seq(Envelopes) /\ Len(history) <= Len(owed)
        BY <2>a, <2>b DEF TypeOK, Counts
      <4>2. \A i \in 1 .. Len(history) : owed[i] \in Envelopes
        BY <4>1, <2>b, ElementOfSeq
      <4>3. QED BY <4>2, <2>b, SubSeqProperties
    <3> HIDE DEF kept
    <3>5. kept \o <<e>> \in Seq(Envelopes) /\ Len(kept \o <<e>>) = Len(history) + 1
      BY <3>3, <3>4, ConcatProperties
    <3>6. owed' \in Seq(Envelopes) /\ Len(owed') = Len(history) + 1 + Len(queued)
      BY ZenonT(60), <3>2, <3>5, <2>a, ConcatProperties DEF TypeOK
    <3>7. TypeOK' /\ Applies'
      BY <2>2, <2>a, <3>2, <3>3, <3>6 DEF BeginSubmit, Running, TypeOK, Applies
    <3>8. Counts'
      BY <2>2, <2>a, <2>b, <3>2, <3>3, <3>6 DEF BeginSubmit, Counts
    <3>9. QED BY <3>7, <3>8 DEF TypeInv
  <2>3. ASSUME NEW c \in {"quantum", "pending"}, BeginCommands(c)
        PROVE  TypeInv'
    <3>1. <<>> \in Seq(Envelopes) /\ Len(<<>>) = 0
      BY EmptySeq
    <3>2. batch = <<>> /\ live = live' /\ (live # None => batch # <<>>)
      BY <2>3, <2>a DEF BeginCommands, Running, Applies
    <3>3. TypeOK' /\ Applies'
      BY <2>3, <2>a, <3>1, <3>2 DEF BeginCommands, TypeOK, Applies
    <3>4. Counts'
      BY <2>3, <2>a, <2>b, <3>1, <3>2 DEF BeginCommands, Counts
    <3>5. QED BY <3>3, <3>4 DEF TypeInv
  <2>4. ASSUME NEW r \in {"duplicate", "stale", "invalid"}, Refuse(r)
        PROVE  TypeInv'
    <3>1. batch # <<>> /\ live = None
      BY <2>4 DEF Refuse, Deciding
    <3>2. Head(batch).id \in Ids
      <4>1. Head(batch) \in Envelopes
        BY <3>1, <2>a, HeadTailProperties DEF TypeOK
      <4>2. QED BY <4>1 DEF Envelopes
    <3>3. RejectFrom(state, Head(batch).id, r)
      BY <2>4 DEF Refuse
    <3>4. /\ state' \in GameStates /\ streams' \in Nat
          /\ history' \in Seq(LogEntries) /\ Len(history') = Len(history) + 1
      BY <3>2, <3>3, <2>a, RejectType DEF TypeOK, Refusals
    <3>5. Counts' /\ batch' \in Seq(Envelopes)
      BY <2>4, <3>1, <3>4, DecideCounts DEF Refuse
    <3>6. TypeOK' /\ Applies'
      BY <2>4, <2>a, <3>1, <3>4, <3>5 DEF Refuse, TypeOK, Applies
    <3>7. QED BY <3>5, <3>6 DEF TypeInv
  <2>5. CASE BeginApply
    <3>1. batch # <<>> /\ Head(batch).id \in Ids
      <4>1. batch # <<>>
        BY <2>5 DEF BeginApply, Deciding
      <4>2. Head(batch) \in Envelopes
        BY <4>1, <2>a, HeadTailProperties DEF TypeOK
      <4>3. QED BY <4>1, <4>2 DEF Envelopes
    <3>2. state.rng \in Nat
      BY <2>a DEF TypeOK, GameStates
    <3>3. TypeOK' /\ Applies'
      BY <2>5, <2>a, <3>1, <3>2 DEF BeginApply, TypeOK, Applies
    <3>4. Counts'
      BY <2>5, <2>a DEF BeginApply, Counts
    <3>5. QED BY <3>3, <3>4 DEF TypeInv
  <2>6. CASE ApplyWrite
    <3>1. PICK h \in Hotels, d \in Draws, emits \in BOOLEAN :
            /\ state' = Writes(state, h, causing, emits)
            /\ streams' = streams + d
      BY <2>6 DEF ApplyWrite
    <3>2. state' \in GameStates
      BY <3>1, <2>a, WritesType DEF TypeOK
    <3>3. streams' \in Nat
      BY <3>1, <2>a DEF Draws, TypeOK
    <3>4. TypeOK' /\ Applies'
      BY <2>6, <2>a, <3>2, <3>3 DEF ApplyWrite, TypeOK, Applies
    <3>5. Counts'
      BY <2>6, <2>a DEF ApplyWrite, Counts
    <3>6. QED BY <3>4, <3>5 DEF TypeInv
  <2>7. CASE Commit
    <3>1. live.state \in GameStates /\ causing \in Ids /\ batch # <<>>
      BY <2>7, <2>a DEF Commit, Applying, TypeOK, Applies
    <3> DEFINE e == Entry(causing, "accepted", live.state.version + 1)
               l == AppendLog(state.log, e)
    <3>2. e \in LogEntries
      BY <3>1 DEF Entry, LogEntries, GameStates
    <3>3. history' = Append(history, e)
      BY <2>7 DEF Commit
    <3>4. state' = [state EXCEPT !.rng = streams,
                                 !.version = live.state.version + 1,
                                 !.sequence = live.state.sequence + 1,
                                 !.log = l]
      BY <2>7 DEF Commit
    <3> HIDE DEF e
    <3>5. l \in Seq(LogEntries)
      BY <3>2, <2>a, RecordType DEF TypeOK, GameStates
    <3> HIDE DEF l
    <3>6. state' \in GameStates
      <4> DEFINE v == live.state.version + 1
                 q == live.state.sequence + 1
      <4>1. v \in Nat /\ q \in Nat
        BY SMTT(40), <3>1 DEF GameStates
      <4>2. state' = [state EXCEPT !.rng = streams, !.version = v,
                                   !.sequence = q, !.log = l]
        BY <3>4
      <4> HIDE DEF v, q
      <4>3. state \in GameStates /\ streams \in Nat
        BY <2>a DEF TypeOK
      <4>4. QED BY <4>1, <4>2, <4>3, <3>5 DEF GameStates
    <3>7. history' \in Seq(LogEntries) /\ Len(history') = Len(history) + 1
      BY <3>2, <3>3, <2>a, AppendProperties DEF TypeOK
    <3>8. Counts' /\ batch' \in Seq(Envelopes)
      BY <2>7, <3>1, <3>7, DecideCounts DEF Commit
    <3>9. TypeOK' /\ Applies'
      BY <2>7, <2>a, <3>6, <3>7, <3>8 DEF Commit, TypeOK, Applies
    <3>10. QED BY <3>8, <3>9 DEF TypeInv
  <2>8. CASE Abort
    <3>1. live.state \in GameStates /\ causing \in Ids /\ batch # <<>>
      BY <2>8, <2>a DEF Abort, Applying, TypeOK, Applies
    <3>2. /\ state' \in GameStates /\ streams' \in Nat
          /\ history' \in Seq(LogEntries) /\ Len(history') = Len(history) + 1
      BY <2>8, <2>a, <3>1, RejectType DEF Abort, TypeOK, Refusals
    <3>3. Counts' /\ batch' \in Seq(Envelopes)
      BY <2>8, <3>1, <3>2, DecideCounts DEF Abort
    <3>4. TypeOK' /\ Applies'
      BY <2>8, <2>a, <3>1, <3>2, <3>3 DEF Abort, TypeOK, Applies
    <3>5. QED BY <3>3, <3>4 DEF TypeInv
  <2>9. CASE EndCommands
    <3>1. state' \in GameStates
      BY <2>9, <2>a DEF EndCommands, TypeOK, GameStates
    <3>2. TypeOK' /\ Applies'
      BY <2>9, <2>a, <3>1 DEF EndCommands, CommandsDone, TypeOK, Applies
    <3>3. Counts'
      BY <2>9, <2>a DEF EndCommands, Counts
    <3>4. QED BY <3>2, <3>3 DEF TypeInv
  <2>10. CASE QueueStandingOrder
    <3>1. state.sequence \in Nat
      BY <2>a DEF TypeOK, GameStates
    <3>2. StandingOrder \in Envelopes
      BY <3>1, <2>b DEF StandingOrder, Envelopes, Ids
    <3>3. /\ queued' \in Seq(Envelopes) /\ Len(queued') = Len(queued) + 1
          /\ owed' \in Seq(Envelopes) /\ Len(owed') = Len(owed) + 1
      BY <2>10, <3>2, <2>a, AppendProperties DEF QueueStandingOrder, TypeOK
    <3>4. TypeOK' /\ Applies'
      BY <2>10, <2>a, <3>3 DEF QueueStandingOrder, TypeOK, Applies
    <3>5. Counts'
      BY <2>10, <2>a, <2>b, <3>3 DEF QueueStandingOrder, Counts
    <3>6. QED BY <3>4, <3>5 DEF TypeInv
  <2>11. ASSUME NEW throws \in BOOLEAN, RunWorld(throws)
         PROVE  TypeInv'
    <3>1. PICK h \in Hotels, d \in Draws, emits \in BOOLEAN :
            /\ streams' = streams + d
            /\ state' = IF throws THEN Writes(state, h, None, emits)
                        ELSE [Writes(state, h, None, emits) EXCEPT !.rng = streams + d]
      BY <2>11 DEF RunWorld
    <3>2. Writes(state, h, None, emits) \in GameStates
      BY <2>a, WritesType DEF TypeOK
    <3>3. streams' \in Nat
      BY <3>1, <2>a DEF Draws, TypeOK
    <3>4. state' \in GameStates
      BY <3>1, <3>2, <3>3 DEF GameStates
    <3>5. TypeOK' /\ Applies'
      BY <2>11, <2>a, <3>3, <3>4 DEF RunWorld, CommandsDone, TypeOK, Applies
    <3>6. Counts'
      BY <2>11, <2>a DEF RunWorld, Counts
    <3>7. QED BY <3>5, <3>6 DEF TypeInv
  <2>12. CASE TakeDomainEvents
    <3>1. <<>> \in Seq(Events) /\ state.pending \in Seq(Events)
      BY <2>a, EmptySeq DEF TypeOK, GameStates
    <3>2. state' \in GameStates
      BY <2>12, <2>a, <3>1 DEF TakeDomainEvents, TypeOK, GameStates
    <3>3. delivered' \in Seq(Events)
      BY <2>12, <2>a, <3>1, ConcatProperties DEF TakeDomainEvents, TypeOK
    <3>4. TypeOK' /\ Applies'
      BY <2>12, <2>a, <3>2, <3>3 DEF TakeDomainEvents, TypeOK, Applies
    <3>5. Counts'
      BY <2>12, <2>a DEF TakeDomainEvents, Counts
    <3>6. QED BY <3>4, <3>5 DEF TypeInv
  <2>13. CASE Save
    <3> DEFINE kept == SubSeq(owed, 1, Len(history))
    <3>1. kept \in Seq(Envelopes) /\ Len(kept) = Len(history)
      <4>1. owed \in Seq(Envelopes) /\ Len(history) <= Len(owed)
        BY <2>a, <2>b DEF TypeOK, Counts
      <4>2. \A i \in 1 .. Len(history) : owed[i] \in Envelopes
        BY <4>1, <2>b, ElementOfSeq
      <4>3. QED BY <4>2, <2>b, SubSeqProperties
    <3>2. saved' = [state |-> state, history |-> history, delivered |-> delivered,
                    decided |-> kept]
      BY <2>13 DEF Save
    <3> HIDE DEF kept
    <3>3. saved' \in [state : GameStates, history : Seq(LogEntries),
                     delivered : Seq(Events), decided : Seq(Envelopes)]
      BY <2>a, <3>1, <3>2 DEF TypeOK
    <3>6. TypeOK' /\ Applies'
      BY <2>13, <2>a, <3>3 DEF Save, TypeOK, Applies
    <3>4. Counts'
      BY <2>13, <2>a, <3>1, <3>2 DEF Save, Counts
    <3>5. QED BY <3>6, <3>4 DEF TypeInv
  <2>14. CASE Load
    <3>1. <<>> \in Seq(Envelopes) /\ Len(<<>>) = 0
      BY EmptySeq
    <3>2. saved # None /\ phase = "idle" /\ batch = <<>>
      BY <2>14, <2>a DEF Load, Applies
    <3>3. /\ saved.state \in GameStates /\ saved.state.rng \in Nat
          /\ saved.history \in Seq(LogEntries) /\ saved.delivered \in Seq(Events)
          /\ saved.decided \in Seq(Envelopes)
      BY <3>2, <2>a DEF TypeOK, GameStates
    <3>4. TypeOK' /\ Applies'
      BY <2>14, <2>a, <3>1, <3>2, <3>3 DEF Load, TypeOK, Applies
    <3>5. Len(saved.history) \in Nat
      BY <3>3, LenProperties
    <3>6. Counts'
      BY <2>14, <2>a, <3>1, <3>2, <3>5 DEF Load, Counts
    <3>7. QED BY <3>4, <3>6 DEF TypeInv
  <2>15. CASE UNCHANGED vars
    BY <2>15, <2>a DEF vars, TypeInv, TypeOK, Applies, Counts
  <2>16. QED
    BY <2>1, <2>2, <2>3, <2>4, <2>5, <2>6, <2>7, <2>8, <2>9, <2>10, <2>11,
       <2>12, <2>13, <2>14, <2>15 DEF Next
<1>3. QED BY <1>1, <1>2, PTL DEF Spec

\* The variables keep their types in every run.
THEOREM TypeCorrect == Spec => []TypeOK
<1>1. TypeInv => TypeOK
  BY DEF TypeInv
<1>2. QED BY <1>1, TypeInvariant, PTL

-----------------------------------------------------------------------------
(***************************************************************************)
(* The command log and duplicate detection.                                *)
(***************************************************************************)

\* A write leaves the log, the counters and the cursor of the draft alone.
LEMMA WritesKeep ==
  ASSUME NEW s \in GameStates, NEW h \in Hotels, NEW c \in Ids \cup {None},
         NEW emits \in BOOLEAN
  PROVE  /\ Writes(s, h, c, emits).log = s.log
         /\ Writes(s, h, c, emits).sequence = s.sequence
         /\ Writes(s, h, c, emits).version = s.version
         /\ Writes(s, h, c, emits).rng = s.rng
BY DEF Writes, EmitEvent, GameStates

\* What AppendLog does to a log that is the newest part of the history.
LEMMA RecordLog ==
  ASSUME NEW h \in Seq(LogEntries), NEW e \in LogEntries, NEW log,
         log = Newest(h, LogLimit)
  PROVE  /\ AppendLog(log, e) = Newest(Append(h, e), LogLimit)
         /\ Append(h, e) \in Seq(LogEntries)
         /\ Len(Append(h, e)) = Len(h) + 1
BY ConstantsAssumption, NewestAppend, AppendProperties DEF AppendLog

\* An entry that is refused, or whose id is not in the log, leaves every
\* accepted id unique in its window.
LEMMA OnceAfterAppend ==
  ASSUME NEW h \in Seq(LogEntries), OnceInWindow(h), NEW e \in LogEntries,
         Accepted(e) => ~Known(Newest(h, LogLimit), e.id)
  PROVE  OnceInWindow(Append(h, e))
<1> DEFINE g == Append(h, e)
           t == Newest(h, LogLimit)
<1>1. /\ g \in Seq(LogEntries) /\ Len(g) = Len(h) + 1
      /\ g[Len(h) + 1] = e /\ \A i \in 1 .. Len(h) : g[i] = h[i]
  BY AppendProperties
<1>2. /\ t \in Seq(LogEntries)
      /\ Len(t) = IF Len(h) > LogLimit THEN LogLimit ELSE Len(h)
      /\ \A i \in 1 .. Len(t) : t[i] = h[Len(h) - Len(t) + i]
  BY ConstantsAssumption, NewestIsSuffix
<1>3. /\ Len(h) \in Nat /\ Len(t) \in Nat /\ LogLimit \in Nat
      /\ DOMAIN h = 1 .. Len(h) /\ DOMAIN g = 1 .. Len(h) + 1 /\ DOMAIN t = 1 .. Len(t)
  BY <1>1, <1>2, ConstantsAssumption, LenProperties
<1> HIDE DEF g, t
<1>4. ASSUME NEW i \in DOMAIN g, NEW j \in DOMAIN g,
             i < j, g[i].id = g[j].id, Accepted(g[j])
      PROVE  j - i > LogLimit
  <2>1. CASE j \in 1 .. Len(h)
    <3>1. i \in 1 .. Len(h) /\ g[i] = h[i] /\ g[j] = h[j]
      BY <2>1, <1>1, <1>3, <1>4
    <3>2. QED BY <2>1, <3>1, <1>3, <1>4 DEF OnceInWindow
  <2>2. CASE j = Len(h) + 1
    <3>1. i \in 1 .. Len(h) /\ h[i].id = e.id /\ Accepted(e)
      BY <2>2, <1>1, <1>3, <1>4
    <3>2. SUFFICES ASSUME Len(h) + 1 - i <= LogLimit PROVE FALSE
      BY <2>2, <3>1, <1>3
    <3> DEFINE k == i - (Len(h) - Len(t))
    <3>3. k \in 1 .. Len(t) /\ Len(h) - Len(t) + k = i
      BY <3>1, <3>2, <1>2, <1>3
    <3> HIDE DEF k
    <3>4. t[k] = h[i]
      BY <3>3, <1>2
    <3>5. Known(t, e.id)
      BY <3>1, <3>3, <3>4, <1>3 DEF Known
    <3>6. QED BY <3>1, <3>5 DEF t
  <2>3. QED BY <2>1, <2>2, <1>3
<1>5. OnceInWindow(g)
  BY <1>4 DEF OnceInWindow
<1>6. QED BY <1>5 DEF g

\* What a career carries with it through a save and a load.
CareerInv(s, h) ==
  /\ s.log = Newest(h, LogLimit)
  /\ s.sequence = Len(h)
  /\ OnceInWindow(h)

\* The draft of a command carries the live log, and its id is not in it.
DraftInv ==
  live # None => /\ state.log = live.state.log
                 /\ ~Known(live.state.log, causing)

LogInv ==
  /\ CareerInv(Committed, history)
  /\ DraftInv
  /\ saved # None => CareerInv(saved.state, saved.history)

\* A refusal keeps the career's invariant.
LEMMA RejectKeepsCareer ==
  ASSUME NEW s \in GameStates, NEW id \in Ids, NEW reason \in Refusals,
         history \in Seq(LogEntries), CareerInv(s, history),
         RejectFrom(s, id, reason)
  PROVE  CareerInv(state', history')
<1> DEFINE e == Entry(id, reason, s.version)
<1>1. e \in LogEntries /\ ~Accepted(e)
  BY DEF Entry, LogEntries, GameStates, Refusals, Accepted
<1>2. /\ state' = [s EXCEPT !.sequence = s.sequence + 1, !.log = AppendLog(s.log, e)]
      /\ history' = Append(history, e)
  BY DEF RejectFrom
<1> HIDE DEF e
<1>3. /\ AppendLog(s.log, e) = Newest(history', LogLimit)
      /\ Len(history') = Len(history) + 1
  BY <1>1, <1>2, RecordLog DEF CareerInv
<1>4. state'.log = Newest(history', LogLimit) /\ state'.sequence = Len(history')
  BY <1>2, <1>3 DEF GameStates, CareerInv
<1>5. OnceInWindow(history')
  BY <1>1, <1>2, OnceAfterAppend DEF CareerInv
<1>6. QED BY <1>4, <1>5 DEF CareerInv

\* LogInv is preserved by every step of a well-typed state.
LEMMA LogInvariant == Spec => []LogInv
<1> USE ConstantsAssumption
<1>1. Init => LogInv
  <2> SUFFICES ASSUME Init PROVE LogInv
    OBVIOUS
  <2>1. /\ live = None /\ saved = None /\ history = <<>>
        /\ state.log = <<>> /\ state.sequence = 0
    BY DEF Init, InitialState
  <2>2. Len(<<>>) = 0 /\ Newest(<<>>, LogLimit) = <<>> /\ DOMAIN <<>> = {}
    BY DEF Newest
  <2>3. QED BY <2>1, <2>2 DEF LogInv, CareerInv, DraftInv, Committed, OnceInWindow
<1>2. TypeInv /\ LogInv /\ [Next]_vars => LogInv'
  <2> SUFFICES ASSUME TypeInv, LogInv, [Next]_vars PROVE LogInv'
    OBVIOUS
  <2>a. TypeOK /\ Applies /\ CareerInv(Committed, history) /\ DraftInv
    BY DEF TypeInv, LogInv
  <2>b. /\ live = None => CareerInv(state, history)
        /\ live # None => CareerInv(live.state, history)
    BY <2>a DEF Committed
  \* Steps outside a command that decide nothing and keep log and counter.
  <2>c. ASSUME live = None, live' = None, UNCHANGED <<history, saved>>,
               state'.log = state.log, state'.sequence = state.sequence
        PROVE  LogInv'
    BY <2>b, <2>c DEF LogInv, CareerInv, DraftInv, Committed
  <2>d. phase = "idle" => live = None
    BY <2>a DEF Applies
  <2>1. ASSUME NEW id \in PlayerIds, NEW v \in {None} \cup 0 .. state.version,
               QueueEnvelope(id, v) \/ BeginSubmit(id, v)
        PROVE  LogInv'
    BY <2>1, <2>c, <2>d DEF QueueEnvelope, BeginSubmit, Running
  <2>2. ASSUME NEW c \in {"quantum", "pending"}, BeginCommands(c)
        PROVE  LogInv'
    BY <2>2, <2>c, <2>d DEF BeginCommands, Running
  <2>3. ASSUME NEW r \in {"duplicate", "stale", "invalid"}, Refuse(r)
        PROVE  LogInv'
    <3>1. batch # <<>> /\ live = None /\ RejectFrom(state, Head(batch).id, r)
      BY <2>3 DEF Refuse, Deciding
    <3>2. Head(batch).id \in Ids
      <4>1. Head(batch) \in Envelopes
        BY <3>1, <2>a, HeadTailProperties DEF TypeOK
      <4>2. QED BY <4>1 DEF Envelopes
    <3>3. CareerInv(state', history')
      BY <3>1, <3>2, <2>a, <2>b, RejectKeepsCareer DEF TypeOK, Refusals
    <3>4. live' = None /\ saved' = saved
      BY <2>3, <3>1 DEF Refuse
    <3>5. QED BY <3>3, <3>4 DEF LogInv, DraftInv, Committed
  <2>4. CASE BeginApply
    <3>1. /\ live = None /\ live' = [state |-> state, streams |-> streams]
          /\ causing' = Head(batch).id /\ ~Known(state.log, Head(batch).id)
          /\ UNCHANGED <<state, history, saved>>
      BY <2>4 DEF BeginApply, Deciding
    <3>2. live'.state = state
      BY <3>1
    <3>3. QED BY <3>1, <3>2, <2>b DEF LogInv, DraftInv, Committed
  <2>5. CASE ApplyWrite
    <3>1. PICK h \in Hotels, d \in Draws, emits \in BOOLEAN :
            state' = Writes(state, h, causing, emits)
      BY <2>5 DEF ApplyWrite
    <3>2. state'.log = state.log
      <4>1. state \in GameStates /\ causing \in Ids \cup {None}
        BY <2>a DEF TypeOK
      <4>2. Writes(state, h, causing, emits).log = state.log
        BY <4>1, WritesKeep
      <4>3. QED BY <3>1, <4>2
    <3>3. live # None /\ UNCHANGED <<live, causing, history, saved>>
      BY <2>5 DEF ApplyWrite, Applying
    <3>4. QED BY <3>2, <3>3, <2>a, <2>b DEF LogInv, DraftInv, Committed
  <2>6. CASE Commit
    <3> DEFINE e == Entry(causing, "accepted", live.state.version + 1)
    <3>1. /\ live # None /\ live.state \in GameStates /\ causing \in Ids
          /\ live.state.sequence \in Nat /\ state \in GameStates
      BY <2>6, <2>a DEF Commit, Applying, Applies, TypeOK, GameStates
    <3>2. e \in LogEntries /\ e.id = causing
      <4> DEFINE v == live.state.version + 1
      <4>1. v \in Nat
        <5>1. live.state \in GameStates
          BY <3>1
        <5>2. live.state.version \in Nat
          BY <5>1 DEF GameStates
        <5>3. QED BY <5>2
      <4> HIDE DEF v
      <4>2. Entry(causing, "accepted", v) \in LogEntries
              /\ Entry(causing, "accepted", v).id = causing
        BY <3>1, <4>1 DEF Entry, LogEntries
      <4>3. QED BY <4>2 DEF v
    <3>3. /\ state' = [state EXCEPT !.rng = streams,
                                    !.version = live.state.version + 1,
                                    !.sequence = live.state.sequence + 1,
                                    !.log = AppendLog(state.log, e)]
          /\ history' = Append(history, e) /\ live' = None /\ saved' = saved
      BY <2>6 DEF Commit
    <3>4. /\ state'.log = AppendLog(state.log, e)
          /\ state'.sequence = live.state.sequence + 1
      BY <3>1, <3>3 DEF GameStates
    <3> HIDE DEF e
    <3>5. /\ state.log = Newest(history, LogLimit) /\ live.state.sequence = Len(history)
          /\ OnceInWindow(history) /\ ~Known(Newest(history, LogLimit), e.id)
      BY <3>1, <3>2, <2>a, <2>b DEF DraftInv, CareerInv
    <3>6. /\ AppendLog(state.log, e) = Newest(history', LogLimit)
          /\ Len(history') = Len(history) + 1
      BY <3>2, <3>3, <3>5, <2>a, RecordLog DEF TypeOK
    <3>7. OnceInWindow(history')
      BY <3>2, <3>3, <3>5, <2>a, OnceAfterAppend DEF TypeOK
    <3>8. CareerInv(state', history')
      BY <3>4, <3>5, <3>6, <3>7 DEF CareerInv
    <3>9. QED BY <3>3, <3>8 DEF LogInv, DraftInv, Committed
  <2>7. CASE Abort
    <3>1. /\ live # None /\ live.state \in GameStates /\ causing \in Ids
          /\ RejectFrom(live.state, causing, "failed")
      BY <2>7, <2>a DEF Abort, Applying, TypeOK, Applies
    <3>2. CareerInv(state', history')
      BY <3>1, <2>a, <2>b, RejectKeepsCareer DEF TypeOK, Refusals
    <3>3. live' = None /\ saved' = saved
      BY <2>7 DEF Abort
    <3>4. QED BY <3>2, <3>3 DEF LogInv, DraftInv, Committed
  <2>8. CASE EndCommands
    <3>1. state'.log = state.log /\ state'.sequence = state.sequence
      BY <2>8, <2>a DEF EndCommands, TypeOK, GameStates
    <3>2. QED BY <2>8, <3>1, <2>c DEF EndCommands, CommandsDone
  <2>9. CASE QueueStandingOrder
    BY <2>9, <2>c DEF QueueStandingOrder, CommandsDone
  <2>10. ASSUME NEW throws \in BOOLEAN, RunWorld(throws)
         PROVE  LogInv'
    <3>1. PICK h \in Hotels, d \in Draws, emits \in BOOLEAN :
            state' = IF throws THEN Writes(state, h, None, emits)
                     ELSE [Writes(state, h, None, emits) EXCEPT !.rng = streams + d]
      BY <2>10 DEF RunWorld
    <3> DEFINE w == Writes(state, h, None, emits)
    <3>2. w \in GameStates /\ w.log = state.log /\ w.sequence = state.sequence
      <4>1. state \in GameStates /\ None \in Ids \cup {None}
        BY <2>a DEF TypeOK
      <4>2. Writes(state, h, None, emits) \in GameStates
        BY <4>1, WritesType
      <4>3. /\ Writes(state, h, None, emits).log = state.log
            /\ Writes(state, h, None, emits).sequence = state.sequence
        BY <4>1, WritesKeep
      <4>4. QED BY <4>2, <4>3
    <3>3. state' = IF throws THEN w ELSE [w EXCEPT !.rng = streams + d]
      BY <3>1
    <3> HIDE DEF w
    <3>4. state'.log = state.log /\ state'.sequence = state.sequence
      BY <3>2, <3>3 DEF GameStates
    <3>5. QED BY <2>10, <3>4, <2>c DEF RunWorld, CommandsDone
  <2>11. CASE TakeDomainEvents
    <3>1. state'.log = state.log /\ state'.sequence = state.sequence
      BY <2>11, <2>a DEF TakeDomainEvents, TypeOK, GameStates
    <3>2. QED BY <2>11, <3>1, <2>c, <2>d DEF TakeDomainEvents, Running
  <2>12. CASE Save
    <3>1. live = None /\ UNCHANGED <<live, state, history, causing>>
      BY <2>12, <2>d DEF Save, Running
    <3>2. saved'.state = state /\ saved'.history = history
      BY <2>12 DEF Save
    <3>3. QED BY <3>1, <3>2, <2>b DEF LogInv, DraftInv, Committed
  <2>13. CASE Load
    <3>1. /\ live = None /\ live' = None /\ saved # None /\ saved' = saved
          /\ state' = saved.state /\ history' = saved.history
      BY <2>13, <2>d DEF Load
    <3>2. QED BY <3>1 DEF LogInv, DraftInv, Committed
  <2>14. CASE UNCHANGED vars
    BY <2>14 DEF vars, LogInv, CareerInv, DraftInv, Committed
  <2>15. QED
    BY <2>1, <2>2, <2>3, <2>4, <2>5, <2>6, <2>7, <2>8, <2>9, <2>10, <2>11,
       <2>12, <2>13, <2>14 DEF Next
<1>3. QED BY <1>1, <1>2, TypeInvariant, PTL DEF Spec

\* The log a save carries is exactly the newest LogLimit verdicts.
THEOREM LogIsRecent == Spec => []LogIsRecentHistory
<1>1. LogInv => LogIsRecentHistory
  BY DEF LogInv, CareerInv, LogIsRecentHistory
<1>2. QED BY <1>1, LogInvariant, PTL

\* No id is accepted twice within LogLimit decisions.
THEOREM AcceptedOnce == Spec => []AcceptedOnceInWindow
<1>1. LogInv => AcceptedOnceInWindow
  BY DEF LogInv, CareerInv, AcceptedOnceInWindow
<1>2. QED BY <1>1, LogInvariant, PTL

-----------------------------------------------------------------------------
(***************************************************************************)
(* The random streams.                                                     *)
(***************************************************************************)

StreamsInv ==
  /\ StreamsMatchState
  /\ halted => phase = "idle"

\* The inductive invariant behind StreamsMatch.
LEMMA StreamsInvariant == Spec => []StreamsInv
<1>1. Init => StreamsInv
  BY DEF Init, InitialState, StreamsInv, StreamsMatchState
<1>2. TypeInv /\ StreamsInv /\ [Next]_vars => StreamsInv'
  <2> SUFFICES ASSUME TypeInv, StreamsInv, [Next]_vars PROVE StreamsInv'
    OBVIOUS
  <2>a. state \in GameStates /\ streams \in Nat
    BY DEF TypeInv, TypeOK
  <2>b. TypeOK /\ Applies
    BY DEF TypeInv
  <2>c. phase = "idle" => live = None
    BY <2>b DEF Applies
  <2> USE DEF StreamsInv, StreamsMatchState
  <2>1. ASSUME NEW id \in PlayerIds, NEW v \in {None} \cup 0 .. state.version,
               QueueEnvelope(id, v) \/ BeginSubmit(id, v)
        PROVE  StreamsInv'
    BY <2>1 DEF QueueEnvelope, BeginSubmit, Running
  <2>2. ASSUME NEW c \in {"quantum", "pending"}, BeginCommands(c)
        PROVE  StreamsInv'
    BY <2>2 DEF BeginCommands, Running
  \* A refusal rebuilds the streams from the state it is recorded on.
  <2>3. ASSUME NEW s \in GameStates, NEW id \in Ids, NEW r \in Refusals,
               RejectFrom(s, id, r), UNCHANGED <<halted, phase>>
        PROVE  StreamsInv'
    <3>1. state'.rng = s.rng /\ streams' = s.rng
      BY <2>3 DEF RejectFrom, GameStates
    <3>2. QED BY <2>3, <3>1
  <2>4. ASSUME NEW r \in {"duplicate", "stale", "invalid"}, Refuse(r)
        PROVE  StreamsInv'
    <3>1. batch # <<>> /\ RejectFrom(state, Head(batch).id, r)
          /\ UNCHANGED <<halted, phase>>
      BY <2>4 DEF Refuse, Deciding
    <3>2. Head(batch).id \in Ids
      <4>1. Head(batch) \in Envelopes
        BY <3>1, <2>b, HeadTailProperties DEF TypeOK
      <4>2. QED BY <4>1 DEF Envelopes
    <3>3. QED BY <3>1, <3>2, <2>a, <2>3 DEF Refusals
  <2>5. CASE BeginApply
    BY <2>5 DEF BeginApply, Deciding
  <2>6. CASE ApplyWrite
    BY <2>6 DEF ApplyWrite, Applying
  <2>7. CASE Commit
    <3>1. state'.rng = streams
      BY <2>7, <2>a DEF Commit, GameStates
    <3>2. QED BY <2>7, <3>1 DEF Commit
  <2>8. CASE Abort
    <3>1. /\ live.state \in GameStates /\ causing \in Ids
          /\ RejectFrom(live.state, causing, "failed")
          /\ UNCHANGED <<halted, phase>>
      BY <2>8, <2>b DEF Abort, Applying, TypeOK, Applies
    <3>2. QED BY <3>1, <2>3 DEF Refusals
  <2>9. CASE EndCommands
    <3>1. state'.rng \in {state.rng, streams}
      BY <2>9, <2>a DEF EndCommands, GameStates
    <3>2. live = None /\ ~halted /\ UNCHANGED <<streams, live, halted>>
      BY <2>9 DEF EndCommands, CommandsDone
    <3>3. QED BY <3>1, <3>2, <2>9 DEF EndCommands
  <2>10. CASE QueueStandingOrder
    BY <2>10 DEF QueueStandingOrder
  <2>11. ASSUME NEW throws \in BOOLEAN, RunWorld(throws)
         PROVE  StreamsInv'
    <3>1. PICK h \in Hotels, d \in Draws, emits \in BOOLEAN :
            /\ streams' = streams + d
            /\ state' = IF throws THEN Writes(state, h, None, emits)
                        ELSE [Writes(state, h, None, emits) EXCEPT !.rng = streams + d]
      BY <2>11 DEF RunWorld
    <3>2. Writes(state, h, None, emits) \in GameStates
      BY <2>a, WritesType
    <3>3. ~throws => state'.rng = streams'
      BY <3>1, <3>2 DEF GameStates
    <3>4. halted' = throws /\ phase' = "idle"
      BY <2>11 DEF RunWorld
    <3>5. QED BY <3>3, <3>4
  <2>12. CASE TakeDomainEvents
    <3>1. state'.rng = state.rng
      BY <2>12, <2>a DEF TakeDomainEvents, GameStates
    <3>2. QED BY <2>12, <3>1 DEF TakeDomainEvents
  <2>13. CASE Save
    BY <2>13 DEF Save
  <2>14. CASE Load
    BY <2>14 DEF Load
  <2>15. CASE UNCHANGED vars
    BY <2>15 DEF vars
  <2>16. QED
    BY <2>1, <2>2, <2>4, <2>5, <2>6, <2>7, <2>8, <2>9, <2>10, <2>11, <2>12,
       <2>13, <2>14, <2>15 DEF Next
<1>3. QED BY <1>1, <1>2, TypeInvariant, PTL DEF Spec

\* Outside a command the live streams stand where the state says they do.
THEOREM StreamsMatch == Spec => []StreamsMatchState
<1>1. StreamsInv => StreamsMatchState
  BY DEF StreamsInv
<1>2. QED BY <1>1, StreamsInvariant, PTL

-----------------------------------------------------------------------------
(***************************************************************************)
(* The course of a career: in which order envelopes are decided, on which  *)
(* version, which events they leave behind, and that the whole boundary    *)
(* behaves like commands decided in one step each.                         *)
(*                                                                         *)
(* The invariant of this part ties every verdict to the envelope it is     *)
(* owed to, every envelope that waits to its place among the owed ones,    *)
(* and the draft to the envelope at the head of the batch.  All of it held *)
(* of the saved career as well, because a load brings that back.           *)
(***************************************************************************)

(***************************************************************************)
(* The inductive invariant.                                                *)
(***************************************************************************)

\* Verdict i is the verdict on envelope i.  An accepted command found the
\* version it expected, and is the first to report the version it made.  A
\* standing order was not refused before its rules were asked.
Decided(h, o) ==
  \A i \in 1 .. Len(h) :
    /\ h[i].id = o[i].id
    /\ Accepted(h[i]) /\ o[i].expected # None => h[i].version = o[i].expected + 1
    /\ IsAutomation(h[i].id) => h[i].verdict \notin {"duplicate", "stale"}

Versioned(s, h) ==
  /\ \A i \in 1 .. Len(h) : h[i].version <= s.version
  /\ \A i, j \in 1 .. Len(h) : i < j /\ Accepted(h[j]) => h[i].version < h[j].version

\* A standing order expects no version; its number is below its place, and
\* above the numbers of the standing orders before it.
Numbered(o) ==
  /\ Len(o) <= MaxDecisions
  /\ \A i \in 1 .. Len(o) : IsAutomation(o[i].id) => o[i].expected = None /\ o[i].id < i
  /\ \A i, j \in 1 .. Len(o) :
       i < j /\ IsAutomation(o[i].id) /\ IsAutomation(o[j].id) => o[i].id < o[j].id

Course(s, h, o) == Decided(h, o) /\ Versioned(s, h) /\ Numbered(o)

\* The batch and then the queue are the envelopes without a verdict.
Waiting ==
  /\ \A i \in 1 .. Len(batch) : batch[i] = owed[Len(history) + i]
  /\ \A i \in 1 .. Len(queued) : queued[i] = owed[Len(history) + Len(batch) + i]

\* The draft is that of the head of the batch, which was not stale.
Drafted ==
  live # None => /\ causing = batch[1].id
                 /\ batch[1].expected # None => batch[1].expected = live.state.version

CourseInv ==
  /\ Course(Committed, history, owed)
  /\ Waiting
  /\ Drafted
  /\ saved # None => Course(saved.state, saved.history, saved.decided)

-----------------------------------------------------------------------------
(***************************************************************************)
(* The course: lemmas about one verdict, one envelope.                     *)
(***************************************************************************)

\* The verdict on the next envelope continues the course: what runOne, Commit
\* and Abort have in common.
LEMMA DecideCourse ==
  ASSUME NEW h \in Seq(LogEntries), NEW o \in Seq(Envelopes), NEW e \in LogEntries,
         NEW s \in GameStates, NEW t \in GameStates,
         Course(s, h, o), Len(h) < Len(o), e.id = o[Len(h) + 1].id,
         s.version <= t.version, e.version <= t.version,
         Accepted(e) => /\ e.version = s.version + 1
                        /\ o[Len(h) + 1].expected # None
                             => o[Len(h) + 1].expected = s.version,
         IsAutomation(e.id) => e.verdict \notin {"duplicate", "stale"}
  PROVE  Course(t, Append(h, e), o)
<1> DEFINE g == Append(h, e)
           n == Len(h)
<1>1. /\ n \in Nat /\ Len(g) = n + 1 /\ g[n + 1] = e
      /\ \A i \in 1 .. n : g[i] = h[i] /\ h[i] \in LogEntries
  BY AppendProperties, ElementOfSeq
<1>2. s.version \in Nat /\ t.version \in Nat /\ e.version \in Nat
      /\ \A i \in 1 .. n : h[i].version \in Nat
  BY <1>1 DEF GameStates, LogEntries
<1> HIDE DEF g
<1>3. \A i \in 1 .. n + 1 : i \in 1 .. n \/ i = n + 1
  BY <1>1
<1>4. Decided(g, o)
  BY <1>1, <1>2, <1>3 DEF Course, Decided
<1>5. Versioned(t, g)
  <2>1. \A i \in 1 .. n + 1 : g[i].version <= t.version
    BY SMTT(40), <1>1, <1>2, <1>3 DEF Course, Versioned
  <2>2. ASSUME NEW i \in 1 .. n + 1, NEW j \in 1 .. n + 1, i < j, Accepted(g[j])
        PROVE  g[i].version < g[j].version
    <3>1. i \in 1 .. n
      BY <2>2, <1>1
    <3>2. CASE j = n + 1
      BY SMTT(40), <3>1, <3>2, <2>2, <1>1, <1>2 DEF Course, Versioned
    <3>3. CASE j \in 1 .. n
      BY <3>1, <3>3, <2>2, <1>1 DEF Course, Versioned
    <3>4. QED BY <3>2, <3>3, <1>3
  <2>3. QED BY <2>1, <2>2, <1>1 DEF Versioned
<1>6. QED BY <1>4, <1>5 DEF Course, g

\* An envelope that joins the end of the line keeps the course.  A standing
\* order takes the number of envelopes before it as its own.
LEMMA OweCourse ==
  ASSUME NEW s, NEW h \in Seq(LogEntries), NEW o \in Seq(Envelopes),
         NEW e \in Envelopes,
         Course(s, h, o), Len(h) <= Len(o), Len(o) < MaxDecisions,
         IsAutomation(e.id) => e.expected = None /\ e.id = Len(o)
  PROVE  Course(s, h, Append(o, e))
<1> DEFINE q == Append(o, e)
           m == Len(o)
<1>1. /\ m \in Nat /\ Len(q) = m + 1 /\ q[m + 1] = e
      /\ \A i \in 1 .. m : q[i] = o[i]
  BY AppendProperties
<1> HIDE DEF q
<1>2. MaxDecisions \in Nat /\ Len(h) \in Nat
  BY ConstantsAssumption
<1>3. \A i \in 1 .. m + 1 : i \in 1 .. m \/ i = m + 1
  BY <1>1
<1>4. Decided(h, q)
  <2>1. \A i \in 1 .. Len(h) : q[i] = o[i]
    BY <1>1, <1>2
  <2>2. QED BY <2>1 DEF Course, Decided
<1>5. Numbered(q)
  <2>1. Len(q) <= MaxDecisions
    BY <1>1, <1>2
  <2>2. \A i \in 1 .. m + 1 :
          IsAutomation(q[i].id) => q[i].expected = None /\ q[i].id < i
    BY <1>1, <1>3 DEF Course, Numbered
  <2>3. ASSUME NEW i \in 1 .. m + 1, NEW j \in 1 .. m + 1,
               i < j, IsAutomation(q[i].id), IsAutomation(q[j].id)
        PROVE  q[i].id < q[j].id
    <3>1. i \in 1 .. m
      BY <2>3, <1>1
    <3>2. CASE j = m + 1
      <4>1. q[j].id = m /\ q[i].id < i /\ q[i].id \in Nat
        BY <3>1, <3>2, <2>3, <1>1 DEF Course, Numbered, IsAutomation
      <4>2. QED BY <4>1, <3>1, <1>1
    <3>3. CASE j \in 1 .. m
      BY <3>1, <3>3, <2>3, <1>1 DEF Course, Numbered
    <3>4. QED BY <3>2, <3>3, <1>3
  <2>4. QED BY <2>1, <2>2, <2>3, <1>1 DEF Numbered
<1>6. QED BY <1>4, <1>5 DEF Course, q

\* Envelopes that only extend the ones with a verdict keep the course of the
\* verdicts; what a save keeps of the line is numbered as the line is.
LEMMA SavedCourse ==
  ASSUME NEW s, NEW h \in Seq(LogEntries), NEW o \in Seq(Envelopes),
         Course(s, h, o), Len(h) <= Len(o)
  PROVE  Course(s, h, SubSeq(o, 1, Len(h)))
<1> DEFINE q == SubSeq(o, 1, Len(h))
<1>1. Len(h) \in Nat /\ Len(o) \in Nat /\ MaxDecisions \in Nat
  BY ConstantsAssumption
<1>2. Len(q) = Len(h) /\ \A i \in 1 .. Len(h) : q[i] = o[i]
  <2>1. \A i \in 1 .. Len(h) : o[i] \in Envelopes
    BY <1>1, ElementOfSeq
  <2>2. QED BY <2>1, <1>1, SubSeqProperties
<1> HIDE DEF q
<1>3. Decided(h, q) /\ Numbered(q)
  BY SMTT(40), <1>1, <1>2 DEF Course, Decided, Numbered
<1>4. QED BY <1>3 DEF Course, q

\* A submitted command overtakes the queue: the line with it put in.
LEMMA SubmitCourse ==
  ASSUME NEW e \in Envelopes, ~IsAutomation(e.id),
         history \in Seq(LogEntries), owed \in Seq(Envelopes),
         queued \in Seq(Envelopes), Course(Committed, history, owed),
         Len(owed) = Len(history) + Len(queued), Len(owed) < MaxDecisions,
         \A i \in 1 .. Len(queued) : queued[i] = owed[Len(history) + i],
         owed' = SubSeq(owed, 1, Len(history)) \o <<e>> \o queued
  PROVE  /\ Course(Committed, history, owed')
         /\ owed'[Len(history) + 1] = e
         /\ \A i \in 1 .. Len(queued) : owed'[Len(history) + 1 + i] = queued[i]
<1> DEFINE p == SubSeq(owed, 1, Len(history))
           p1 == p \o <<e>>
           n == Len(history)
<1>0. owed' = p1 \o queued
  OBVIOUS
<1>1. n \in Nat /\ Len(queued) \in Nat /\ Len(owed) \in Nat /\ MaxDecisions \in Nat
  BY ConstantsAssumption
<1>2. p \in Seq(Envelopes) /\ Len(p) = n /\ \A i \in 1 .. n : p[i] = owed[i]
  <2>1. \A i \in 1 .. n : owed[i] \in Envelopes
    BY <1>1, ElementOfSeq
  <2>2. QED BY <2>1, <1>1, SubSeqProperties
<1> HIDE DEF p
<1>3. /\ p1 \in Seq(Envelopes) /\ Len(p1) = n + 1 /\ p1[n + 1] = e
      /\ \A i \in 1 .. n : p1[i] = owed[i]
  <2>1. <<e>> \in Seq(Envelopes) /\ Len(<<e>>) = 1 /\ <<e>>[1] = e
    OBVIOUS
  <2> DEFINE f == <<e>>
  <2>2. f \in Seq(Envelopes) /\ Len(f) = 1 /\ f[1] = e
    BY <2>1
  <2> HIDE DEF f
  <2>3. /\ p \o f \in Seq(Envelopes) /\ Len(p \o f) = Len(p) + Len(f)
        /\ \A i \in 1 .. Len(p) + Len(f) :
             (p \o f)[i] = IF i <= Len(p) THEN p[i] ELSE f[i - Len(p)]
    <3>1. p \in Seq(Envelopes) /\ f \in Seq(Envelopes)
      BY <2>2, <1>2
    <3>2. QED BY <3>1, ConcatProperties
  <2>4. p1 = p \o f
    BY DEF f
  <2> HIDE DEF p1
  <2>5. QED BY <2>2, <2>3, <2>4, <1>1, <1>2
<1> HIDE DEF p1
<1>4. /\ Len(owed') = n + 1 + Len(queued)
      /\ \A i \in 1 .. n + 1 : owed'[i] = p1[i]
      /\ \A i \in n + 2 .. Len(owed') : owed'[i] = queued[i - (n + 1)]
  <2>1. /\ Len(owed') = Len(p1) + Len(queued)
        /\ \A i \in 1 .. Len(p1) + Len(queued) :
             owed'[i] = IF i <= Len(p1) THEN p1[i] ELSE queued[i - Len(p1)]
    BY <1>0, <1>3, ConcatProperties
  <2>2. QED BY SMTT(40), <2>1, <1>1, <1>3
<1>5. /\ owed'[n + 1] = e
      /\ \A i \in 1 .. n : owed'[i] = owed[i]
      /\ \A i \in n + 2 .. Len(owed') : owed'[i] = owed[i - 1]
      /\ \A i \in 1 .. Len(queued) : owed'[n + 1 + i] = queued[i]
  <2>1. \A i \in 1 .. n : i \in 1 .. n + 1
    BY <1>1
  <2>2. \A i \in n + 2 .. Len(owed') : i - (n + 1) \in 1 .. Len(queued)
                                   /\ n + (i - (n + 1)) = i - 1
    BY <1>1, <1>4
  <2>3. \A i \in 1 .. Len(queued) : n + 1 + i \in n + 2 .. Len(owed')
                               /\ n + 1 + i - (n + 1) = i
    BY <1>1, <1>4
  <2>4. n + 1 \in 1 .. n + 1
    BY <1>1
  <2>5. owed'[n + 1] = e /\ \A i \in 1 .. n : owed'[i] = owed[i]
    BY <2>1, <2>4, <1>3, <1>4
  <2>6. \A i \in n + 2 .. Len(owed') : owed'[i] = owed[i - 1]
    BY <2>2, <1>4
  <2>7. ASSUME NEW i \in 1 .. Len(queued) PROVE owed'[n + 1 + i] = queued[i]
    <3> DEFINE k == n + 1 + i
    <3>1. k \in n + 2 .. Len(owed') /\ k - (n + 1) = i
      BY <2>3
    <3> HIDE DEF k
    <3>2. owed'[k] = queued[i]
      BY <3>1, <1>4
    <3>3. QED BY <3>2 DEF k
  <2>8. QED BY <2>5, <2>6, <2>7
<1>6. Decided(history, owed')
  BY <1>5 DEF Course, Decided
<1>7. Numbered(owed')
  <2>1. Len(owed') <= MaxDecisions
    BY <1>1, <1>4
  \* Where the envelope at i was before.
  <2> DEFINE Was(i) == IF i <= n THEN i ELSE i - 1
  <2>2. ASSUME NEW i \in 1 .. Len(owed'), IsAutomation(owed'[i].id)
        PROVE  Was(i) \in 1 .. Len(owed) /\ Was(i) <= i /\ owed'[i] = owed[Was(i)] /\ i # n + 1
    <3>1. i # n + 1
      BY <2>2, <1>5
    <3>2. CASE i <= n
      BY <3>1, <3>2, <1>1, <1>4, <1>5
    <3>3. CASE i > n
      <4>1. i \in n + 2 .. Len(owed') /\ i - 1 \in 1 .. Len(owed) /\ Was(i) = i - 1
        BY <3>1, <3>3, <1>1, <1>4
      <4>2. QED BY <3>1, <4>1, <1>5
    <3>4. QED BY <3>2, <3>3, <1>1
  <2>3. ASSUME NEW i \in 1 .. Len(owed'), IsAutomation(owed'[i].id)
        PROVE  owed'[i].expected = None /\ owed'[i].id < i
    <3> DEFINE k == Was(i)
    <3>1. k \in 1 .. Len(owed) /\ k <= i /\ owed'[i] = owed[k]
      BY <2>2, <2>3
    <3> HIDE DEF Was, k
    <3>2. owed[k].expected = None /\ owed[k].id < k /\ owed[k].id \in Nat
      BY <3>1, <2>3 DEF Course, Numbered, IsAutomation
    <3>3. i \in Int /\ k \in Int
      BY <3>1, <1>1, <1>4
    <3>4. owed[k].id < i
      BY <3>1, <3>2, <3>3
    <3>5. QED BY <3>1, <3>2, <3>4
  <2>4. ASSUME NEW i \in 1 .. Len(owed'), NEW j \in 1 .. Len(owed'),
               i < j, IsAutomation(owed'[i].id), IsAutomation(owed'[j].id)
        PROVE  owed'[i].id < owed'[j].id
    <3> DEFINE k == Was(i)
               l == Was(j)
    <3>1. /\ k \in 1 .. Len(owed) /\ owed'[i] = owed[k] /\ i # n + 1
          /\ l \in 1 .. Len(owed) /\ owed'[j] = owed[l] /\ j # n + 1
      BY <2>2, <2>4
    <3>2. k < l
      BY <3>1, <2>4, <1>1, <1>4
    <3> HIDE DEF Was, k, l
    <3>3. QED BY <3>1, <3>2, <2>4 DEF Course, Numbered
  <2>5. QED BY <2>1, <2>3, <2>4 DEF Numbered
<1>8. Course(Committed, history, owed')
  BY <1>6, <1>7 DEF Course
<1>9. QED BY <1>5, <1>8

\* The head of the batch is decided, or nothing is: those that wait keep their
\* places.
LEMMA DecideWaits ==
  ASSUME TypeInv, Waiting, batch # <<>>,
         Len(history') = Len(history) + 1, batch' = Tail(batch),
         UNCHANGED <<queued, owed>>
  PROVE  Waiting'
<1>1. /\ Len(batch') = Len(batch) - 1
      /\ \A i \in 1 .. Len(batch') : batch'[i] = batch[i + 1]
  BY HeadTailProperties DEF TypeInv, TypeOK
<1>2. Len(history) \in Nat /\ Len(batch) \in Nat /\ Len(queued) \in Nat
  BY LenProperties DEF TypeInv, TypeOK
<1>3. ASSUME NEW i \in 1 .. Len(batch')
      PROVE  batch'[i] = owed'[Len(history') + i]
  <2>1. i + 1 \in 1 .. Len(batch) /\ Len(history) + (i + 1) = Len(history') + i
    BY <1>1, <1>2
  <2>2. batch[i + 1] = owed[Len(history) + (i + 1)]
    BY <2>1 DEF Waiting
  <2>3. QED BY <2>1, <2>2, <1>1
<1>4. Len(history') + Len(batch') = Len(history) + Len(batch)
  BY <1>1, <1>2
<1>5. QED BY <1>3, <1>4 DEF Waiting

\* An envelope is queued behind all the others.
LEMMA QueueWaits ==
  ASSUME TypeInv, Waiting, NEW e \in Envelopes,
         queued' = Append(queued, e), owed' = Append(owed, e),
         UNCHANGED <<history, batch>>
  PROVE  Waiting'
<1>1. /\ Len(queued') = Len(queued) + 1 /\ queued'[Len(queued) + 1] = e
      /\ \A i \in 1 .. Len(queued) : queued'[i] = queued[i]
      /\ owed'[Len(owed) + 1] = e /\ \A i \in 1 .. Len(owed) : owed'[i] = owed[i]
  BY AppendProperties DEF TypeInv, TypeOK
<1>2. /\ Len(history) \in Nat /\ Len(batch) \in Nat /\ Len(queued) \in Nat
      /\ Len(owed) = Len(history) + Len(batch) + Len(queued)
  BY LenProperties DEF TypeInv, TypeOK, Counts
<1>3. ASSUME NEW i \in 1 .. Len(batch)
      PROVE  batch'[i] = owed'[Len(history') + i]
  <2>1. Len(history) + i \in 1 .. Len(owed)
    BY <1>2
  <2>2. QED BY <2>1, <1>1 DEF Waiting
<1>4. ASSUME NEW i \in 1 .. Len(queued')
      PROVE  queued'[i] = owed'[Len(history') + Len(batch') + i]
  <2>1. CASE i \in 1 .. Len(queued)
    <3>1. Len(history) + Len(batch) + i \in 1 .. Len(owed)
      BY <2>1, <1>2
    <3>2. QED BY <2>1, <3>1, <1>1 DEF Waiting
  <2>2. CASE i = Len(queued) + 1
    <3>1. Len(history) + Len(batch) + i = Len(owed) + 1
      BY <2>2, <1>2
    <3>2. QED BY <2>2, <3>1, <1>1
  <2>3. i \in 1 .. Len(queued) \/ i = Len(queued) + 1
    BY Len(queued') = Len(queued) + 1, <1>1, <1>2
  <2>4. QED BY <2>1, <2>2, <2>3
<1>5. QED BY <1>3, <1>4 DEF Waiting

\* The envelope at the head of the batch is the first without a verdict.
LEMMA HeadIsNext ==
  ASSUME TypeInv, Waiting, batch # <<>>
  PROVE  /\ Head(batch) \in Envelopes /\ Head(batch) = batch[1]
         /\ Head(batch) = owed[Len(history) + 1]
         /\ Len(history) < Len(owed)
<1>1. /\ Head(batch) \in Envelopes
      /\ Len(batch) \in Nat \ {0} /\ Len(history) \in Nat /\ Len(queued) \in Nat
  BY HeadTailProperties, EmptySeq, LenProperties DEF TypeInv, TypeOK
<1>2. Head(batch) = batch[1]
  BY DEF TypeInv, TypeOK
<1>3. batch[1] = owed[Len(history) + 1]
  BY <1>1 DEF Waiting
<1>4. Len(history) < Len(owed)
  BY <1>1 DEF TypeInv, Counts
<1>5. QED BY <1>1, <1>2, <1>3, <1>4

\* A standing order that is decided next has no namesake in the log: its
\* number is above those of all the orders before it.
LEMMA OrdersAreNew ==
  ASSUME TypeInv, LogInv, CourseInv, batch # <<>>, live = None,
         IsAutomation(Head(batch).id)
  PROVE  ~Known(state.log, Head(batch).id) /\ ~IsStale(Head(batch))
<1> DEFINE n == Len(history)
           e == Head(batch)
<1>1. Waiting /\ Decided(history, owed) /\ Numbered(owed)
  BY DEF CourseInv, Course
<1>2. e = owed[n + 1] /\ n < Len(owed)
  BY <1>1, HeadIsNext
<1>3. n \in Nat /\ Len(owed) \in Nat /\ history \in Seq(LogEntries)
  BY DEF TypeInv, TypeOK
<1>4. e.expected = None
  BY <1>1, <1>2, <1>3 DEF Numbered
<1> DEFINE t == Newest(history, LogLimit)
<1>5. state.log = t
  BY DEF LogInv, CareerInv, Committed
<1>6. /\ Len(t) \in Nat /\ Len(t) <= n /\ DOMAIN t = 1 .. Len(t)
      /\ \A i \in 1 .. Len(t) : t[i] = history[n - Len(t) + i]
  <2>1. /\ t \in Seq(LogEntries)
        /\ Len(t) = IF n > LogLimit THEN LogLimit ELSE n
        /\ \A i \in 1 .. Len(t) : t[i] = history[n - Len(t) + i]
    BY <1>3, ConstantsAssumption, NewestIsSuffix
  <2>2. LogLimit \in Nat
    BY ConstantsAssumption
  <2> HIDE DEF t
  <2>3. Len(t) \in Nat /\ DOMAIN t = 1 .. Len(t)
    BY <2>1, LenProperties
  <2>4. Len(t) <= n
    <3>1. Len(t) = IF n > LogLimit THEN LogLimit ELSE n
      BY <2>1
    <3>2. QED BY <3>1, <2>2, <1>3
  <2>5. QED BY <2>1, <2>3, <2>4
<1> HIDE DEF t, e
<1>7. ASSUME NEW i \in DOMAIN t, t[i].id = e.id
      PROVE  FALSE
  <2> DEFINE k == n - Len(t) + i
  <2>1. k \in 1 .. n /\ k \in 1 .. Len(owed) /\ n + 1 \in 1 .. Len(owed) /\ k < n + 1
    BY <1>2, <1>3, <1>6
  <2>2. t[i] = history[k]
    BY <1>6
  <2> HIDE DEF k
  <2>3. owed[k].id = owed[n + 1].id
    BY <2>1, <2>2, <1>1, <1>2, <1>7 DEF Decided
  <2>4. IsAutomation(owed[n + 1].id)
    BY <1>2 DEF e
  <2>5. owed[k].id < owed[n + 1].id
    BY <2>1, <2>3, <2>4, <1>1 DEF Numbered
  <2>6. QED BY <2>3, <2>4, <2>5 DEF IsAutomation
<1>8. QED BY <1>4, <1>5, <1>7 DEF Known, IsStale, e

-----------------------------------------------------------------------------
(***************************************************************************)
(* The course of every run.                                                *)
(***************************************************************************)

\* The inductive invariant behind the theorems about the course.
LEMMA CourseInvariant == Spec => []CourseInv
<1> USE ConstantsAssumption
<1>1. Init => CourseInv
  <2> SUFFICES ASSUME Init PROVE CourseInv
    OBVIOUS
  <2>1. /\ live = None /\ saved = None /\ Len(<<>>) = 0 /\ MaxDecisions \in Nat
        /\ history = <<>> /\ owed = <<>> /\ batch = <<>> /\ queued = <<>>
    BY DEF Init
  <2>2. QED BY <2>1 DEF CourseInv, Course, Decided, Versioned, Numbered,
                        Waiting, Drafted
<1>2. TypeInv /\ TypeInv' /\ LogInv /\ CourseInv /\ [Next]_vars => CourseInv'
  <2> SUFFICES ASSUME TypeInv, TypeInv', LogInv, CourseInv, [Next]_vars
                PROVE  CourseInv'
    OBVIOUS
  <2>a. TypeOK /\ Applies /\ Counts /\ Waiting /\ Drafted
        /\ Course(Committed, history, owed)
    BY DEF TypeInv, CourseInv
  <2>b. /\ Len(history) \in Nat /\ Len(batch) \in Nat
        /\ Len(queued) \in Nat /\ Len(owed) \in Nat /\ MaxDecisions \in Nat
    BY <2>a, LenProperties DEF TypeOK
  <2>c. phase = "idle" => live = None /\ batch = <<>>
    BY <2>a DEF Applies
  \* A step outside a command that decides nothing and leaves the lines alone.
  <2>d. ASSUME live = None, live' = None, state'.version = state.version,
               UNCHANGED <<history, owed, batch, queued, saved>>
        PROVE  CourseInv'
    <3>1. Committed.version = state.version /\ Committed'.version = state'.version
      BY <2>d DEF Committed
    <3>2. Course(Committed, history, owed)'
      BY <2>d, <3>1, <2>a DEF Course, Decided, Versioned, Numbered
    <3>3. Waiting' /\ Drafted'
      BY <2>d, <2>a DEF Waiting, Drafted
    <3>4. QED BY <2>d, <3>2, <3>3 DEF CourseInv
  <2>1. ASSUME NEW id \in PlayerIds, NEW v \in {None} \cup 0 .. state.version,
               QueueEnvelope(id, v)
        PROVE  CourseInv'
    <3> DEFINE e == [id |-> id, expected |-> v]
    <3>1. e \in Envelopes /\ ~IsAutomation(e.id)
      BY <2>a DEF TypeOK, GameStates, Envelopes, Ids, IsAutomation
    <3>2. queued' = Append(queued, e) /\ owed' = Append(owed, e)
      BY <2>1 DEF QueueEnvelope
    <3> HIDE DEF e
    <3>3. /\ live = None /\ live' = None /\ batch = <<>> /\ Len(owed) < MaxDecisions
          /\ UNCHANGED <<state, history, batch, saved>>
      BY <2>1, <2>a, <2>b, <2>c DEF QueueEnvelope, Running, Counts
    <3>4. Waiting'
      BY <3>1, <3>2, <3>3, <2>a, QueueWaits
    <3>5. Course(Committed, history, owed')
      BY <3>1, <3>2, <3>3, <2>a, <2>b, OweCourse DEF TypeOK, Counts
    <3>6. QED BY <3>3, <3>4, <3>5 DEF CourseInv, Committed, Drafted
  <2>2. ASSUME NEW id \in PlayerIds, NEW v \in {None} \cup 0 .. state.version,
               BeginSubmit(id, v)
        PROVE  CourseInv'
    <3> DEFINE e == [id |-> id, expected |-> v]
    <3>1. e \in Envelopes /\ ~IsAutomation(e.id)
      BY <2>a DEF TypeOK, GameStates, Envelopes, Ids, IsAutomation
    <3>2. batch' = <<e>> /\ owed' = SubSeq(owed, 1, Len(history)) \o <<e>> \o queued
      BY <2>2 DEF BeginSubmit
    <3> HIDE DEF e
    <3>3. /\ live = None /\ live' = None /\ batch = <<>> /\ Len(owed) < MaxDecisions
          /\ Len(owed) = Len(history) + Len(queued)
          /\ UNCHANGED <<state, history, queued, saved>>
      BY <2>2, <2>a, <2>b, <2>c DEF BeginSubmit, Running, Counts
    <3>4. \A i \in 1 .. Len(queued) : queued[i] = owed[Len(history) + i]
      BY <3>3, <2>a, <2>b DEF Waiting
    <3>5. /\ Course(Committed, history, owed')
          /\ owed'[Len(history) + 1] = e
          /\ \A i \in 1 .. Len(queued) : owed'[Len(history) + 1 + i] = queued[i]
      <4>1. /\ history \in Seq(LogEntries) /\ owed \in Seq(Envelopes)
            /\ queued \in Seq(Envelopes) /\ Course(Committed, history, owed)
        BY <2>a DEF TypeOK
      <4>2. QED BY <4>1, <3>1, <3>2, <3>3, <3>4, SubmitCourse
    <3>6. Waiting'
      <4>1. Len(batch') = 1 /\ batch'[1] = e /\ history' = history /\ queued' = queued
        BY <3>2, <3>3
      <4>2. ASSUME NEW i \in 1 .. Len(batch') PROVE batch'[i] = owed'[Len(history') + i]
        <5>1. i = 1
          BY <4>1
        <5>2. QED BY <4>1, <3>5, <5>1
      <4>3. ASSUME NEW i \in 1 .. Len(queued')
            PROVE  queued'[i] = owed'[Len(history') + Len(batch') + i]
        <5>1. i \in 1 .. Len(queued)
          BY <4>1
        <5>2. QED BY <4>1, <3>5, <5>1
      <4>4. QED BY <4>2, <4>3 DEF Waiting
    <3>7. QED BY <3>3, <3>5, <3>6 DEF CourseInv, Committed, Drafted
  <2>3. ASSUME NEW c \in {"quantum", "pending"}, BeginCommands(c)
        PROVE  CourseInv'
    <3>1. /\ live = None /\ live' = None /\ batch = <<>> /\ batch' = queued
          /\ queued' = <<>> /\ UNCHANGED <<state, history, owed, saved>>
      BY <2>3, <2>c DEF BeginCommands, Running
    <3>2. Waiting'
      BY <3>1, <2>a, <2>b DEF Waiting
    <3>3. QED BY <3>1, <3>2, <2>a DEF CourseInv, Committed, Drafted
  \* A refusal recorded on the committed state.
  <2>e. ASSUME NEW id, NEW r \in Refusals, RejectFrom(Committed, id, r),
               batch # <<>>, id = Head(batch).id, batch' = Tail(batch), live' = None,
               IsAutomation(id) => r \notin {"duplicate", "stale"},
               UNCHANGED <<queued, owed, saved>>
        PROVE  CourseInv'
    <3> DEFINE e == Entry(id, r, Committed.version)
    <3>1. /\ id \in Ids /\ id = owed[Len(history) + 1].id
          /\ Len(history) < Len(owed) /\ Committed \in GameStates
      BY <2>e, <2>a, HeadIsNext DEF Committed, TypeOK, Envelopes
    <3>2. /\ e \in LogEntries /\ e.id = id /\ e.version = Committed.version
          /\ e.verdict = r /\ ~Accepted(e)
      BY <3>1 DEF Entry, LogEntries, GameStates, Refusals, Accepted
    <3>3. history' = Append(history, e)
      BY <2>e DEF RejectFrom
    <3>4. state' \in GameStates /\ Len(history') = Len(history) + 1
      BY <2>e, <3>1, <2>a, RejectType DEF TypeOK
    <3>5. state'.version = Committed.version
      BY <2>e, <3>1 DEF RejectFrom, GameStates
    <3>6. Committed.version \in Nat
      BY <3>1 DEF GameStates
    <3> HIDE DEF e
    <3>7. Course(state', history', owed)
      <4>1. Committed.version <= state'.version /\ e.version <= state'.version
        BY <3>2, <3>5, <3>6
      <4>2. IsAutomation(e.id) => e.verdict \notin {"duplicate", "stale"}
        BY <3>2, <2>e
      <4>3. QED BY <4>1, <4>2, <3>1, <3>2, <3>3, <3>4, <2>a, DecideCourse DEF TypeOK
    <3>8. Waiting'
      BY <2>e, <3>4, <2>a, DecideWaits
    <3>9. QED BY <2>e, <3>7, <3>8 DEF CourseInv, Committed, Drafted
  <2>4. ASSUME NEW r \in {"duplicate", "stale", "invalid"}, Refuse(r)
        PROVE  CourseInv'
    <3>1. /\ batch # <<>> /\ live = None /\ RejectFrom(state, Head(batch).id, r)
          /\ batch' = Tail(batch) /\ live' = None
          /\ UNCHANGED <<queued, owed, saved>>
          /\ r = "duplicate" => Known(state.log, Head(batch).id)
          /\ r = "stale" => IsStale(Head(batch))
      BY <2>4 DEF Refuse, Deciding
    <3>2. IsAutomation(Head(batch).id) => r \notin {"duplicate", "stale"}
      BY <3>1, OrdersAreNew
    <3>3. QED BY <3>1, <3>2, <2>e DEF Committed, Refusals
  <2>5. CASE BeginApply
    <3>1. /\ live = None /\ batch # <<>> /\ causing' = Head(batch).id
          /\ ~IsStale(Head(batch))
          /\ live' = [state |-> state, streams |-> streams]
          /\ UNCHANGED <<state, queued, batch, history, owed, saved>>
      BY <2>5 DEF BeginApply, Deciding
    <3>2. Head(batch) = batch[1]
      BY <3>1, <2>a, HeadIsNext
    <3>3. live'.state = state /\ Committed' = state /\ Committed = state
      BY <3>1 DEF Committed
    <3>4. Drafted'
      BY <3>1, <3>2, <3>3 DEF Drafted, IsStale
    <3>5. Waiting'
      BY <3>1, <2>a DEF Waiting
    <3>6. Course(Committed', history', owed')
      BY <3>1, <3>3, <2>a
    <3>7. QED BY <3>1, <3>4, <3>5, <3>6 DEF CourseInv
  <2>6. CASE ApplyWrite
    <3>1. /\ live # None
          /\ UNCHANGED <<live, causing, queued, batch, history, owed, saved>>
      BY <2>6 DEF ApplyWrite, Applying
    <3>2. Committed' = Committed
      BY <3>1 DEF Committed
    <3>3. QED BY <3>1, <3>2, <2>a DEF CourseInv, Waiting, Drafted
  <2>7. CASE Commit
    <3> DEFINE s == live.state
               e == Entry(causing, "accepted", s.version + 1)
    <3>1. /\ live # None /\ batch # <<>> /\ causing \in Ids /\ Committed = s
          /\ s \in GameStates /\ state \in GameStates
      BY <2>7, <2>a DEF Commit, Applying, Applies, TypeOK, Committed
    <3>2. /\ history' = Append(history, e) /\ batch' = Tail(batch) /\ live' = None
          /\ UNCHANGED <<queued, owed, saved>>
      BY <2>7 DEF Commit
    <3>3. state'.version = s.version + 1
      BY <2>7, <3>1 DEF Commit, GameStates
    <3>4. s.version \in Nat
      BY <3>1 DEF GameStates
    <3> HIDE DEF s
    <3>5. /\ e \in LogEntries /\ e.id = causing /\ e.version = s.version + 1
          /\ e.verdict = "accepted"
      BY <3>1, <3>4 DEF Entry, LogEntries
    <3> HIDE DEF e
    <3>6. /\ Head(batch) = batch[1] /\ Head(batch) = owed[Len(history) + 1]
          /\ Len(history) < Len(owed)
      BY <3>1, <2>a, HeadIsNext
    <3>7. /\ e.id = owed[Len(history) + 1].id
          /\ owed[Len(history) + 1].expected # None
               => owed[Len(history) + 1].expected = s.version
      BY <3>1, <3>5, <3>6, <2>a DEF Drafted, s
    <3>8. state' \in GameStates
      <4>1. TypeInv'
        OBVIOUS
      <4>2. QED BY <4>1 DEF TypeInv, TypeOK
    <3>9. Course(state', history', owed)
      <4>1. s.version <= state'.version /\ e.version <= state'.version
        BY <3>3, <3>4, <3>5
      <4>2. IsAutomation(e.id) => e.verdict \notin {"duplicate", "stale"}
        BY <3>5
      <4>3. QED BY <4>1, <4>2, <3>1, <3>2, <3>5, <3>6, <3>7, <3>8, <2>a, DecideCourse
                DEF TypeOK
    <3>10. Len(history') = Len(history) + 1
      BY <3>2, <3>5, <2>a, AppendProperties DEF TypeOK
    <3>11. Waiting'
      BY <3>1, <3>2, <3>10, <2>a, DecideWaits
    <3>12. QED BY <3>2, <3>9, <3>11 DEF CourseInv, Committed, Drafted
  <2>8. CASE Abort
    <3>1. /\ live # None /\ batch # <<>> /\ RejectFrom(live.state, causing, "failed")
          /\ batch' = Tail(batch) /\ live' = None
          /\ UNCHANGED <<queued, owed, saved>>
      BY <2>8, <2>a DEF Abort, Applying, Applies
    <3>2. causing = Head(batch).id
      BY <3>1, <2>a, HeadIsNext DEF Drafted
    <3>3. QED BY <3>1, <3>2, <2>e DEF Committed, Refusals
  <2>9. CASE EndCommands
    <3>1. state'.version = state.version
      BY <2>9, <2>a DEF EndCommands, TypeOK, GameStates
    <3>2. QED BY <2>9, <3>1, <2>d DEF EndCommands, CommandsDone
  <2>10. CASE QueueStandingOrder
    <3>1. /\ live = None /\ live' = None /\ batch = <<>> /\ Len(owed) < MaxDecisions
          /\ queued' = Append(queued, StandingOrder) /\ owed' = Append(owed, StandingOrder)
          /\ UNCHANGED <<state, history, batch, saved>>
      BY <2>10, <2>a, <2>b DEF QueueStandingOrder, CommandsDone, Counts
    <3>2. state.sequence = Len(history)
      BY <3>1 DEF LogInv, CareerInv, Committed
    <3>3. /\ StandingOrder \in Envelopes /\ StandingOrder.expected = None
          /\ StandingOrder.id = Len(owed)
      BY <3>1, <3>2, <2>a, <2>b DEF StandingOrder, Counts, Envelopes, Ids
    <3>4. Waiting'
      BY <3>1, <3>3, <2>a, QueueWaits
    <3>5. Course(Committed, history, owed')
      <4>1. /\ history \in Seq(LogEntries) /\ owed \in Seq(Envelopes)
            /\ Course(Committed, history, owed) /\ Len(history) <= Len(owed)
        BY <2>a, <2>b DEF TypeOK, Counts
      <4>2. QED BY <4>1, <3>1, <3>3, OweCourse
    <3>6. QED BY <3>1, <3>4, <3>5 DEF CourseInv, Committed, Drafted
  <2>11. ASSUME NEW throws \in BOOLEAN, RunWorld(throws)
         PROVE  CourseInv'
    <3>1. PICK h \in Hotels, d \in Draws, emits \in BOOLEAN :
            state' = IF throws THEN Writes(state, h, None, emits)
                     ELSE [Writes(state, h, None, emits) EXCEPT !.rng = streams + d]
      BY <2>11 DEF RunWorld
    <3> DEFINE w == Writes(state, h, None, emits)
    <3>2. w \in GameStates /\ w.version = state.version
      <4>1. state \in GameStates /\ None \in Ids \cup {None}
        BY <2>a DEF TypeOK
      <4>2. Writes(state, h, None, emits) \in GameStates
        BY <4>1, WritesType
      <4>3. Writes(state, h, None, emits).version = state.version
        BY <4>1, WritesKeep
      <4>4. QED BY <4>2, <4>3
    <3>3. state' = IF throws THEN w ELSE [w EXCEPT !.rng = streams + d]
      BY <3>1
    <3> HIDE DEF w
    <3>4. state'.version = state.version
      BY <3>2, <3>3 DEF GameStates
    <3>5. QED BY <2>11, <3>4, <2>d DEF RunWorld, CommandsDone
  <2>12. CASE TakeDomainEvents
    <3>1. state'.version = state.version
      BY <2>12, <2>a DEF TakeDomainEvents, TypeOK, GameStates
    <3>2. QED BY <2>12, <3>1, <2>c, <2>d DEF TakeDomainEvents, Running
  <2>13. CASE Save
    <3>1. /\ live = None /\ saved'.state = state /\ saved'.history = history
          /\ saved'.decided = SubSeq(owed, 1, Len(history))
          /\ UNCHANGED <<state, live, causing, queued, batch, history, owed>>
      BY <2>13, <2>c DEF Save, Running
    <3>2. Course(state, history, owed) /\ Len(history) <= Len(owed)
      BY <3>1, <2>a, <2>b DEF Committed, Counts
    <3>3. Course(state, history, SubSeq(owed, 1, Len(history)))
      BY <3>2, <2>a, SavedCourse DEF TypeOK
    <3>4. QED BY <3>1, <3>2, <3>3, <2>a DEF CourseInv, Committed, Waiting, Drafted
  <2>14. CASE Load
    <3>1. /\ live = None /\ live' = None /\ saved # None /\ saved' = saved
          /\ state' = saved.state /\ history' = saved.history /\ owed' = saved.decided
          /\ batch = <<>> /\ batch' = <<>> /\ queued' = <<>>
      BY <2>14, <2>c DEF Load
    <3>2. QED BY <3>1 DEF CourseInv, Committed, Waiting, Drafted
  <2>15. CASE UNCHANGED vars
    <3>1. UNCHANGED <<state, live, causing, queued, batch, history, owed, saved>>
      BY <2>15 DEF vars
    <3>2. Committed' = Committed
      BY <3>1 DEF Committed
    <3>3. QED BY <3>1, <3>2, <2>a DEF CourseInv, Waiting, Drafted
  <2>16. QED
    BY <2>1, <2>2, <2>3, <2>4, <2>5, <2>6, <2>7, <2>8, <2>9, <2>10, <2>11,
       <2>12, <2>13, <2>14, <2>15 DEF Next
<1>3. QED BY <1>1, <1>2, TypeInvariant, LogInvariant, PTL DEF Spec

\* Of all commands issued against one version, at most one is accepted.
THEOREM OneWinner == Spec => []OneWinnerPerVersion
<1>1. TypeInv /\ CourseInv => OneWinnerPerVersion
  <2> SUFFICES ASSUME TypeInv, CourseInv,
                      NEW i \in DOMAIN history, NEW j \in DOMAIN history,
                      i # j, Accepted(history[i]), Accepted(history[j]),
                      owed[i].expected # None, owed[i].expected = owed[j].expected
               PROVE  FALSE
    BY DEF OneWinnerPerVersion
  <2>1. /\ Decided(history, owed) /\ Versioned(Committed, history)
        /\ DOMAIN history = 1 .. Len(history) /\ Len(history) \in Nat
        /\ history[i].version \in Nat /\ history[j].version \in Nat
    <3>1. Decided(history, owed) /\ Versioned(Committed, history)
      BY DEF CourseInv, Course
    <3>2. history \in Seq(LogEntries)
      BY DEF TypeInv, TypeOK
    <3>3. DOMAIN history = 1 .. Len(history) /\ Len(history) \in Nat
      BY <3>2
    <3>4. history[i] \in LogEntries /\ history[j] \in LogEntries
      BY <3>2, <3>3, ElementOfSeq
    <3>5. QED BY <3>1, <3>3, <3>4 DEF LogEntries
  <2>2. history[i].version = history[j].version
    BY <2>1 DEF Decided
  <2>3. i < j \/ j < i
    BY <2>1
  <2>4. history[i].version # history[j].version
    BY <2>1, <2>3 DEF Versioned
  <2>5. QED BY <2>2, <2>4
<1>2. QED BY <1>1, TypeInvariant, CourseInvariant, PTL

\* A standing order is never refused as a duplicate or as stale.
THEOREM OrdersAreFresh == Spec => []StandingOrdersAreFresh
<1>1. TypeInv /\ CourseInv => StandingOrdersAreFresh
  BY DEF CourseInv, Course, Decided, TypeInv, TypeOK, StandingOrdersAreFresh
<1>2. QED BY <1>1, TypeInvariant, CourseInvariant, PTL

\* The ids of a sequence of envelopes, or of verdicts, as DecidedInOrder
\* compares them.
LEMMA IdsOfSequence ==
  ASSUME NEW S, NEW s \in Seq(S), \A x \in S : x.id \in Ids
  PROVE  LET ids == [i \in DOMAIN s |-> s[i].id]
         IN  /\ ids \in Seq(Ids) /\ Len(ids) = Len(s)
             /\ \A i \in 1 .. Len(s) : ids[i] = s[i].id
<1>1. Len(s) \in Nat /\ DOMAIN s = 1 .. Len(s) /\ \A i \in 1 .. Len(s) : s[i] \in S
  BY LenProperties, ElementOfSeq
<1>2. QED BY <1>1

\* No envelope is lost, decided twice or overtaken.
THEOREM InOrder == Spec => []DecidedInOrder
<1>1. TypeInv /\ CourseInv => DecidedInOrder
  <2> SUFFICES ASSUME TypeInv, CourseInv PROVE DecidedInOrder
    OBVIOUS
  <2> DEFINE IdsOf(s) == [i \in DOMAIN s |-> s[i].id]
             h == IdsOf(history)
             b == IdsOf(batch)
             q == IdsOf(queued)
             o == IdsOf(owed)
  <2>1. /\ history \in Seq(LogEntries) /\ batch \in Seq(Envelopes)
        /\ queued \in Seq(Envelopes) /\ owed \in Seq(Envelopes)
    BY DEF TypeInv, TypeOK
  <2>2. /\ \A x \in LogEntries : x.id \in Ids
        /\ \A x \in Envelopes : x.id \in Ids
    BY DEF LogEntries, Envelopes
  <2>3. /\ h \in Seq(Ids) /\ Len(h) = Len(history)
        /\ \A i \in 1 .. Len(history) : h[i] = history[i].id
    BY <2>1, <2>2, IdsOfSequence
  <2>4. /\ b \in Seq(Ids) /\ Len(b) = Len(batch)
        /\ \A i \in 1 .. Len(batch) : b[i] = batch[i].id
    BY <2>1, <2>2, IdsOfSequence
  <2>5. /\ q \in Seq(Ids) /\ Len(q) = Len(queued)
        /\ \A i \in 1 .. Len(queued) : q[i] = queued[i].id
    BY <2>1, <2>2, IdsOfSequence
  <2>6. /\ o \in Seq(Ids) /\ Len(o) = Len(owed)
        /\ \A i \in 1 .. Len(owed) : o[i] = owed[i].id
    BY <2>1, <2>2, IdsOfSequence
  <2> HIDE DEF h, b, q, o
  <2>7. /\ Len(history) \in Nat /\ Len(batch) \in Nat /\ Len(queued) \in Nat
        /\ Len(owed) = Len(history) + Len(batch) + Len(queued)
    BY <2>1, LenProperties DEF TypeInv, Counts
  <2> DEFINE hb == h \o b
             all == hb \o q
  <2>8. /\ hb \in Seq(Ids) /\ Len(hb) = Len(history) + Len(batch)
        /\ \A i \in 1 .. Len(hb) :
             hb[i] = IF i <= Len(history) THEN h[i] ELSE b[i - Len(history)]
    <3>1. h \in Seq(Ids) /\ b \in Seq(Ids)
      BY <2>3, <2>4
    <3>2. /\ hb \in Seq(Ids) /\ Len(hb) = Len(h) + Len(b)
          /\ \A i \in 1 .. Len(h) + Len(b) :
               hb[i] = IF i <= Len(h) THEN h[i] ELSE b[i - Len(h)]
      BY <3>1, ConcatProperties
    <3> HIDE DEF hb
    <3>3. QED BY <3>2, <2>3, <2>4
  <2> HIDE DEF hb
  <2>9. /\ all \in Seq(Ids) /\ Len(all) = Len(hb) + Len(queued)
        /\ \A i \in 1 .. Len(all) :
             all[i] = IF i <= Len(hb) THEN hb[i] ELSE q[i - Len(hb)]
    <3>1. hb \in Seq(Ids) /\ q \in Seq(Ids)
      BY <2>5, <2>8
    <3>2. /\ all \in Seq(Ids) /\ Len(all) = Len(hb) + Len(q)
          /\ \A i \in 1 .. Len(hb) + Len(q) :
               all[i] = IF i <= Len(hb) THEN hb[i] ELSE q[i - Len(hb)]
      BY <3>1, ConcatProperties
    <3> HIDE DEF all
    <3>3. QED BY <3>2, <2>5
  <2> HIDE DEF all
  <2>10. ASSUME NEW i \in 1 .. Len(owed) PROVE all[i] = o[i]
    <3>1. Decided(history, owed) /\ Waiting
      BY DEF CourseInv, Course
    <3>2. CASE i <= Len(history)
      <4>1. i \in 1 .. Len(history) /\ i \in 1 .. Len(hb) /\ i \in 1 .. Len(all)
        BY <3>2, <2>7, <2>8, <2>9
      <4>2. QED BY <4>1, <3>1, <3>2, <2>3, <2>6, <2>8, <2>9 DEF Decided
    <3>3. CASE i > Len(history) /\ i <= Len(hb)
      <4> DEFINE k == i - Len(history)
      <4>1. /\ k \in 1 .. Len(batch) /\ i = Len(history) + k
            /\ i \in 1 .. Len(hb) /\ i \in 1 .. Len(all) /\ ~(i <= Len(history))
        BY <3>3, <2>7, <2>8, <2>9
      <4>2. all[i] = b[k]
        BY <4>1, <3>3, <2>8, <2>9
      <4> HIDE DEF k
      <4>3. batch[k] = owed[i]
        BY <4>1, <3>1 DEF Waiting
      <4>4. QED BY <4>1, <4>2, <4>3, <2>4, <2>6
    <3>4. CASE i > Len(hb)
      <4> DEFINE k == i - Len(hb)
      <4>1. /\ k \in 1 .. Len(queued) /\ i = Len(history) + Len(batch) + k
            /\ i \in 1 .. Len(all) /\ ~(i <= Len(hb))
        BY <3>4, <2>7, <2>8, <2>9
      <4>2. all[i] = q[k]
        BY <4>1, <2>9
      <4> HIDE DEF k
      <4>3. queued[k] = owed[i]
        BY <4>1, <3>1 DEF Waiting
      <4>4. QED BY <4>1, <4>2, <4>3, <2>5, <2>6
    <3>5. QED BY <3>2, <3>3, <3>4, <2>7, <2>8
  <2>11. Len(all) = Len(o)
    BY <2>6, <2>7, <2>8, <2>9
  <2>12. all = o
    BY <2>6, <2>9, <2>10, <2>11, SeqEqual
  <2>13. QED BY <2>12 DEF all, hb, h, b, q, o, DecidedInOrder
<1>2. QED BY <1>1, TypeInvariant, CourseInvariant, PTL

-----------------------------------------------------------------------------
(***************************************************************************)
(* The events.                                                             *)
(***************************************************************************)

\* All the events of a state and of the ones handed out before it.
Told(s, d) == d \o s.pending

\* The events handed out and the journal of s: numbered upwards, none beyond
\* the counter, and with the dropped ones as many as were emitted.
Journal(s, d) ==
  LET told == Told(s, d)
  IN  /\ \A i \in 1 .. Len(told) : told[i].sequence <= s.emitted
      /\ \A i, j \in 1 .. Len(told) : i < j => told[i].sequence < told[j].sequence
      /\ Len(told) + s.dropped = s.emitted

\* Each names no command, the command c, or one that was accepted.
Caused(s, d, h, c) ==
  \A i \in 1 .. Len(Told(s, d)) :
    LET cause == Told(s, d)[i].cause
    IN  \/ cause \in {None, c}
        \/ \E j \in DOMAIN h : h[j].id = cause /\ Accepted(h[j])

\* The history of the draft's command and the command itself are what its
\* events may name.
EventsInv ==
  /\ Journal(Committed, delivered) /\ Caused(Committed, delivered, history, None)
  /\ live # None => /\ Journal(state, delivered)
                    /\ Caused(state, delivered, history, causing)
  /\ saved # None => /\ Journal(saved.state, saved.delivered)
                     /\ Caused(saved.state, saved.delivered, saved.history, None)

\* Where the event at i was before the write that made w of s.
Was(s, w, d, i) ==
  IF i <= Len(d) THEN i ELSE i + Len(Told(s, d)) + 1 - Len(Told(w, d))

\* The events of a state are a sequence of events.
LEMMA ToldType ==
  ASSUME NEW s \in GameStates, NEW d \in Seq(Events)
  PROVE  /\ Told(s, d) \in Seq(Events)
         /\ Len(Told(s, d)) = Len(d) + Len(s.pending)
         /\ Len(d) \in Nat /\ Len(s.pending) \in Nat
         /\ \A i \in 1 .. Len(d) + Len(s.pending) :
              Told(s, d)[i] = IF i <= Len(d) THEN d[i] ELSE s.pending[i - Len(d)]
<1>1. s.pending \in Seq(Events)
  BY DEF GameStates
<1>2. QED BY <1>1, ConcatProperties, LenProperties DEF Told

\* emitEvent adds the new event at the end; what it drops is the oldest of the
\* journal, and is counted.
LEMMA EmitTells ==
  ASSUME NEW s \in GameStates, NEW d \in Seq(Events), NEW c \in Ids \cup {None},
         EmitEvent(s, c) \in GameStates
  PROVE  LET w == EmitEvent(s, c)
             n == Len(Told(w, d))
         IN  /\ n + w.dropped = Len(Told(s, d)) + 1 + s.dropped
             /\ w.emitted = s.emitted + 1
             /\ n \in Nat \ {0}
             /\ Told(w, d)[n] = [sequence |-> s.emitted + 1, cause |-> c]
             /\ \A i \in 1 .. n - 1 :
                  /\ Was(s, w, d, i) \in 1 .. Len(Told(s, d))
                  /\ Told(w, d)[i] = Told(s, d)[Was(s, w, d, i)]
             /\ \A i, j \in 1 .. n - 1 : i < j => Was(s, w, d, i) < Was(s, w, d, j)
<1> DEFINE e == [sequence |-> s.emitted + 1, cause |-> c]
           p == Append(s.pending, e)
           k == Newest(p, JournalLimit)
           w == EmitEvent(s, c)
           m == Len(d)
           t == Told(s, d)
           u == Told(w, d)
<1>1. s.pending \in Seq(Events) /\ s.emitted \in Nat /\ s.dropped \in Nat
  BY DEF GameStates
<1>2. e \in Events
  BY <1>1 DEF Events
<1>3. /\ w.pending = k /\ w.emitted = s.emitted + 1
      /\ w.dropped = s.dropped + Len(p) - Len(k)
  BY DEF EmitEvent, GameStates
<1> HIDE DEF w
<1>4. w \in GameStates
  BY DEF w
<1> HIDE DEF e
<1>5. /\ p \in Seq(Events) /\ Len(p) = Len(s.pending) + 1
      /\ p[Len(s.pending) + 1] = e
      /\ \A i \in 1 .. Len(s.pending) : p[i] = s.pending[i]
  BY <1>1, <1>2, AppendProperties
<1> HIDE DEF p
<1>6. /\ Len(k) = IF Len(p) > JournalLimit THEN JournalLimit ELSE Len(p)
      /\ \A i \in 1 .. Len(k) : k[i] = p[Len(p) - Len(k) + i]
  BY SMTT(40), <1>5, ConstantsAssumption, NewestIsSuffix
<1> HIDE DEF k
<1>7. /\ Len(t) = m + Len(s.pending) /\ m \in Nat /\ Len(s.pending) \in Nat
      /\ \A i \in 1 .. m + Len(s.pending) :
           t[i] = IF i <= m THEN d[i] ELSE s.pending[i - m]
  BY ToldType
<1>8. /\ Len(u) = m + Len(k) /\ Len(k) \in Nat
      /\ \A i \in 1 .. m + Len(k) : u[i] = IF i <= m THEN d[i] ELSE k[i - m]
  BY <1>3, <1>4, ToldType
<1>9. Len(k) \in 1 .. Len(p)
  <2>1. JournalLimit \in Nat \ {0}
    BY ConstantsAssumption
  <2>2. QED BY <2>1, <1>5, <1>6, <1>7
<1> DEFINE n == Len(u)
           x == Len(p) - Len(k)
<1>10. /\ x \in Nat /\ n = m + Len(k) /\ n \in Nat \ {0}
       /\ Len(t) + 1 - n = x
  BY <1>5, <1>7, <1>8, <1>9
<1>11. n + w.dropped = Len(t) + 1 + s.dropped
  BY SMTT(40), <1>1, <1>3, <1>5, <1>7, <1>8
<1>12. u[n] = e
  <2>1. n \in 1 .. m + Len(k) /\ ~(n <= m) /\ n - m = Len(k)
    BY <1>7, <1>9, <1>10
  <2>2. u[n] = k[Len(k)]
    BY <2>1, <1>8
  <2>3. Len(k) \in 1 .. Len(k) /\ Len(p) - Len(k) + Len(k) = Len(s.pending) + 1
    BY <1>5, <1>7, <1>9
  <2>4. QED BY <2>2, <2>3, <1>5, <1>6
<1> DEFINE Back(i) == IF i <= m THEN i ELSE i + x
<1>13. \A i \in 1 .. n - 1 : Was(s, w, d, i) = Back(i)
  <2>1. ASSUME NEW i \in 1 .. n - 1 PROVE Was(s, w, d, i) = Back(i)
    <3>1. Was(s, w, d, i) = IF i <= m THEN i ELSE i + Len(t) + 1 - n
      BY DEF Was
    <3>2. i + Len(t) + 1 - n = i + x
      BY SMTT(40), <1>7, <1>10
    <3>3. QED BY <3>1, <3>2
  <2>2. QED BY <2>1
<1>14. ASSUME NEW i \in 1 .. n - 1
       PROVE  Back(i) \in 1 .. Len(t) /\ u[i] = t[Back(i)]
  <2>1. i \in 1 .. m + Len(k) /\ i \in Nat
    BY <1>10
  <2>2. CASE i <= m
    <3>1. i \in 1 .. m + Len(s.pending) /\ i \in 1 .. Len(t)
      BY <2>1, <2>2, <1>7
    <3>2. QED BY <2>1, <2>2, <3>1, <1>7, <1>8
  <2>3. CASE i > m
    <3> DEFINE a == i - m
    <3>1. /\ a \in 1 .. Len(k) /\ ~(i <= m) /\ a < Len(k)
          /\ x + a \in 1 .. Len(s.pending)
          /\ i + x \in 1 .. m + Len(s.pending) /\ ~(i + x <= m) /\ i + x - m = x + a
      BY SMTT(40), <2>1, <2>3, <1>5, <1>7, <1>9, <1>10
    <3>2. u[i] = k[a]
      BY <3>1, <2>1, <1>8
    <3> HIDE DEF a
    <3>3. k[a] = p[x + a]
      BY <3>1, <1>6
    <3>4. p[x + a] = s.pending[x + a]
      BY <3>1, <1>5
    <3>5. t[i + x] = s.pending[x + a]
      <4> DEFINE b == i + x
      <4>1. b \in 1 .. m + Len(s.pending) /\ ~(b <= m) /\ b - m = x + a
        BY <3>1
      <4> HIDE DEF b
      <4>2. t[b] = s.pending[x + a]
        BY <4>1, <1>7
      <4>3. QED BY <4>2 DEF b
    <3>6. QED BY <3>1, <3>2, <3>3, <3>4, <3>5, <1>7
  <2>4. QED BY <2>1, <2>2, <2>3, <1>7
<1>15. \A i, j \in 1 .. n - 1 : i < j => Back(i) < Back(j)
  BY <1>7, <1>10
<1> HIDE DEF Back
<1>16. QED BY <1>3, <1>10, <1>11, <1>12, <1>13, <1>14, <1>15 DEF w, e

\* A rule's write keeps the journal in order and the counters together.
LEMMA WritesJournal ==
  ASSUME NEW s \in GameStates, NEW d \in Seq(Events), NEW h \in Hotels,
         NEW c \in Ids \cup {None}, NEW emits \in BOOLEAN, Journal(s, d)
  PROVE  Journal(Writes(s, h, c, emits), d)
<1> DEFINE r == [s EXCEPT !.hotel = h]
           w == EmitEvent(r, c)
           n == Len(Told(w, d))
<1>1. r \in GameStates /\ Told(r, d) = Told(s, d) /\ r.emitted = s.emitted
      /\ r.dropped = s.dropped
  BY DEF GameStates, Told
<1>2. CASE ~emits
  BY <1>1, <1>2 DEF Writes, Journal
<1>3. CASE emits
  <2>1. Writes(s, h, c, emits) = w
    BY <1>3 DEF Writes
  <2>2. w \in GameStates
    BY <2>1, WritesType
  <2> HIDE DEF r
  <2>3. /\ n + w.dropped = Len(Told(r, d)) + 1 + r.dropped
        /\ w.emitted = r.emitted + 1
        /\ n \in Nat \ {0}
        /\ Told(w, d)[n] = [sequence |-> r.emitted + 1, cause |-> c]
        /\ \A i \in 1 .. n - 1 :
             /\ Was(r, w, d, i) \in 1 .. Len(Told(r, d))
             /\ Told(w, d)[i] = Told(r, d)[Was(r, w, d, i)]
        /\ \A i, j \in 1 .. n - 1 : i < j => Was(r, w, d, i) < Was(r, w, d, j)
    BY <1>1, <2>2, EmitTells
  <2>4. s.emitted \in Nat /\ s.dropped \in Nat /\ w.dropped \in Nat
    BY <2>2 DEF GameStates
  <2>5. /\ Told(s, d) \in Seq(Events) /\ Len(Told(s, d)) \in Nat
        /\ \A i \in 1 .. Len(Told(s, d)) : Told(s, d)[i].sequence \in Nat
    <3>1. Told(s, d) \in Seq(Events)
      BY ToldType
    <3>2. \A i \in 1 .. Len(Told(s, d)) : Told(s, d)[i] \in Events
      BY <3>1, ElementOfSeq
    <3>3. QED BY <3>1, <3>2, LenProperties DEF Events
  <2> HIDE DEF w
  <2>6. Told(w, d)[n].sequence = s.emitted + 1
    BY <2>3, <1>1
  <2>7. ASSUME NEW i \in 1 .. n - 1
        PROVE  Told(w, d)[i].sequence <= s.emitted /\ Told(w, d)[i].sequence \in Nat
    BY <2>3, <2>5, <1>1 DEF Journal
  <2>8. ASSUME NEW i \in 1 .. n, NEW j \in 1 .. n, i < j
        PROVE  Told(w, d)[i].sequence < Told(w, d)[j].sequence
    <3>1. i \in 1 .. n - 1 /\ (j = n \/ j \in 1 .. n - 1)
      BY <2>3, <2>8
    <3>2. CASE j = n
      BY <3>1, <3>2, <2>4, <2>6, <2>7
    <3>3. CASE j \in 1 .. n - 1
      <4>1. Was(r, w, d, i) < Was(r, w, d, j)
        BY <3>1, <3>3, <2>8, <2>3
      <4>2. QED BY <4>1, <3>1, <3>3, <2>3, <1>1 DEF Journal
    <3>4. QED BY <3>1, <3>2, <3>3
  <2>9. \A i \in 1 .. n : Told(w, d)[i].sequence <= w.emitted
    <3>1. \A i \in 1 .. n : i = n \/ i \in 1 .. n - 1
      BY <2>3
    <3>2. ASSUME NEW i \in 1 .. n PROVE Told(w, d)[i].sequence <= w.emitted
      <4>1. CASE i = n
        BY <4>1, <2>3, <2>4, <2>6, <1>1
      <4>2. CASE i \in 1 .. n - 1
        <5>1. Told(w, d)[i].sequence <= s.emitted /\ Told(w, d)[i].sequence \in Nat
          BY <4>2, <2>7
        <5>2. w.emitted = s.emitted + 1
          BY <2>3, <1>1
        <5>3. QED BY <5>1, <5>2, <2>4
      <4>3. QED BY <3>1, <4>1, <4>2
    <3>3. QED BY <3>2
  <2>10. n + w.dropped = w.emitted
    BY <2>3, <2>4, <2>5, <1>1 DEF Journal
  <2> HIDE DEF n
  <2>11. Journal(w, d)
    BY <2>8, <2>9, <2>10 DEF Journal, n
  <2>12. QED BY <2>1, <2>11
<1>4. QED BY <1>2, <1>3

\* A write adds no cause but its own.
LEMMA WritesCaused ==
  ASSUME NEW s \in GameStates, NEW d \in Seq(Events), NEW h \in Hotels,
         NEW c \in Ids \cup {None}, NEW emits \in BOOLEAN, NEW g, Caused(s, d, g, c)
  PROVE  Caused(Writes(s, h, c, emits), d, g, c)
<1> DEFINE r == [s EXCEPT !.hotel = h]
           w == EmitEvent(r, c)
           n == Len(Told(w, d))
<1>1. r \in GameStates /\ Told(r, d) = Told(s, d)
  BY DEF GameStates, Told
<1>2. CASE ~emits
  BY <1>1, <1>2 DEF Writes, Caused
<1>3. CASE emits
  <2>1. Writes(s, h, c, emits) = w
    BY <1>3 DEF Writes
  <2>2. w \in GameStates
    BY <2>1, WritesType
  <2> HIDE DEF r
  <2>3. /\ n \in Nat \ {0}
        /\ Told(w, d)[n] = [sequence |-> r.emitted + 1, cause |-> c]
        /\ \A i \in 1 .. n - 1 :
             /\ Was(r, w, d, i) \in 1 .. Len(Told(r, d))
             /\ Told(w, d)[i] = Told(r, d)[Was(r, w, d, i)]
    BY <1>1, <2>2, EmitTells
  <2> HIDE DEF w
  <2>4. Told(w, d)[n].cause = c
    BY <2>3
  <2>5. ASSUME NEW i \in 1 .. n
        PROVE  \/ Told(w, d)[i].cause \in {None, c}
               \/ \E j \in DOMAIN g : g[j].id = Told(w, d)[i].cause /\ Accepted(g[j])
    <3>1. i = n \/ i \in 1 .. n - 1
      BY <2>3
    <3>2. CASE i \in 1 .. n - 1
      <4> DEFINE k == Was(r, w, d, i)
      <4>1. k \in 1 .. Len(Told(s, d)) /\ Told(w, d)[i] = Told(s, d)[k]
        BY <3>2, <2>3, <1>1
      <4> HIDE DEF k
      <4>2. QED BY <4>1 DEF Caused
    <3>3. QED BY <3>1, <3>2, <2>4
  <2>6. QED BY <2>1, <2>5 DEF Caused
<1>4. QED BY <1>2, <1>3

\* Whoever may name no command may name any; what a longer history accepted
\* includes what it accepted before.
LEMMA CausedGrows ==
  ASSUME NEW s, NEW d, NEW h \in Seq(LogEntries), NEW e \in LogEntries, NEW c,
         Caused(s, d, h, c), c # None => c = e.id /\ Accepted(e)
  PROVE  Caused(s, d, Append(h, e), None)
<1> DEFINE g == Append(h, e)
<1>1. /\ DOMAIN h = 1 .. Len(h) /\ DOMAIN g = 1 .. Len(h) + 1 /\ Len(h) \in Nat
      /\ g[Len(h) + 1] = e /\ \A i \in 1 .. Len(h) : g[i] = h[i]
  <2>1. g \in Seq(LogEntries) /\ Len(g) = Len(h) + 1
    BY AppendProperties
  <2>2. DOMAIN g = 1 .. Len(g) /\ DOMAIN h = 1 .. Len(h) /\ Len(h) \in Nat
    BY <2>1, LenProperties
  <2>3. g[Len(h) + 1] = e /\ \A i \in 1 .. Len(h) : g[i] = h[i]
    BY AppendProperties
  <2>4. QED BY <2>1, <2>2, <2>3
<1> HIDE DEF g
<1>2. ASSUME NEW i \in 1 .. Len(Told(s, d))
      PROVE  \/ Told(s, d)[i].cause = None
             \/ \E j \in DOMAIN g : g[j].id = Told(s, d)[i].cause /\ Accepted(g[j])
  <2>1. CASE Told(s, d)[i].cause = None
    BY <2>1
  <2>2. CASE Told(s, d)[i].cause = c /\ c # None
    <3>1. Len(h) + 1 \in DOMAIN g /\ g[Len(h) + 1] = e
      BY <1>1
    <3>2. QED BY <2>2, <3>1
  <2>3. CASE \E j \in DOMAIN h : h[j].id = Told(s, d)[i].cause /\ Accepted(h[j])
    <3>1. PICK j \in DOMAIN h : h[j].id = Told(s, d)[i].cause /\ Accepted(h[j])
      BY <2>3
    <3>2. j \in DOMAIN g /\ g[j] = h[j]
      BY <1>1
    <3>3. QED BY <3>1, <3>2
  <2>4. QED BY <2>1, <2>2, <2>3 DEF Caused
<1>3. QED BY <1>2 DEF Caused, g

\* The journal and the causes look only at the events and the counters.
LEMMA SameEvents ==
  ASSUME NEW s, NEW t, NEW d, NEW h, NEW c,
         t.pending = s.pending, t.emitted = s.emitted, t.dropped = s.dropped
  PROVE  /\ Journal(s, d) => Journal(t, d)
         /\ Caused(s, d, h, c) => Caused(t, d, h, c)
<1>1. Told(t, d) = Told(s, d)
  BY DEF Told
<1>2. QED BY <1>1 DEF Journal, Caused

\* The inductive invariant behind the theorems about events.
LEMMA EventsInvariant == Spec => []EventsInv
<1> USE ConstantsAssumption
<1>1. Init => EventsInv
  <2> SUFFICES ASSUME Init PROVE EventsInv
    OBVIOUS
  <2>1. /\ live = None /\ saved = None /\ Committed = state /\ delivered = <<>>
        /\ state.pending = <<>> /\ state.emitted = 0 /\ state.dropped = 0
    BY DEF Init, InitialState, Committed
  <2>2. Told(state, delivered) = <<>> /\ Len(<<>>) = 0
    BY <2>1 DEF Told
  <2>3. QED BY <2>1, <2>2 DEF EventsInv, Journal, Caused
<1>2. TypeInv /\ EventsInv /\ [Next]_vars => EventsInv'
  <2> SUFFICES ASSUME TypeInv, EventsInv, [Next]_vars PROVE EventsInv'
    OBVIOUS
  <2>a. TypeOK /\ Applies
    BY DEF TypeInv
  <2>b. /\ Journal(Committed, delivered) /\ Caused(Committed, delivered, history, None)
        /\ live = None => Committed = state
        /\ live # None => Committed = live.state
    BY DEF EventsInv, Committed
  <2>c. phase = "idle" => live = None
    BY <2>a DEF Applies
  \* A step outside a command that leaves the events alone.
  <2>d. ASSUME live = None, live' = None, state'.pending = state.pending,
               state'.emitted = state.emitted, state'.dropped = state.dropped,
               UNCHANGED <<delivered, history, saved>>
        PROVE  EventsInv'
    <3>1. Journal(state', delivered) /\ Caused(state', delivered, history, None)
      BY <2>b, <2>d, SameEvents
    <3>2. QED BY <2>d, <3>1 DEF EventsInv, Committed
  \* A refusal recorded on the committed state.
  <2>e. ASSUME NEW id \in Ids, NEW reason \in Refusals, RejectFrom(Committed, id, reason),
               live' = None, UNCHANGED <<delivered, saved>>
        PROVE  EventsInv'
    <3> DEFINE e == Entry(id, reason, Committed.version)
    <3>1. Committed \in GameStates
      BY <2>a DEF Committed, TypeOK
    <3>2. e \in LogEntries
      BY <3>1 DEF Entry, LogEntries, GameStates
    <3>3. /\ state'.pending = Committed.pending /\ state'.emitted = Committed.emitted
          /\ state'.dropped = Committed.dropped /\ history' = Append(history, e)
      BY <2>e, <3>1 DEF RejectFrom, GameStates
    <3> HIDE DEF e
    <3>4. Journal(state', delivered) /\ Caused(state', delivered, history, None)
      BY <3>3, <2>b, SameEvents
    <3>5. Caused(state', delivered, Append(history, e), None)
      BY <3>2, <3>4, <2>a, CausedGrows DEF TypeOK
    <3>6. QED BY <2>e, <3>3, <3>4, <3>5 DEF EventsInv, Committed
  <2>1. ASSUME NEW id \in PlayerIds, NEW v \in {None} \cup 0 .. state.version,
               QueueEnvelope(id, v) \/ BeginSubmit(id, v)
        PROVE  EventsInv'
    BY <2>1, <2>c, <2>d DEF QueueEnvelope, BeginSubmit, Running
  <2>2. ASSUME NEW c \in {"quantum", "pending"}, BeginCommands(c)
        PROVE  EventsInv'
    BY <2>2, <2>c, <2>d DEF BeginCommands, Running
  <2>3. ASSUME NEW reason \in {"duplicate", "stale", "invalid"}, Refuse(reason)
        PROVE  EventsInv'
    <3>1. /\ batch # <<>> /\ live = None /\ live' = None
          /\ RejectFrom(state, Head(batch).id, reason) /\ UNCHANGED <<delivered, saved>>
      BY <2>3 DEF Refuse, Deciding
    <3>2. Head(batch).id \in Ids
      <4>1. Head(batch) \in Envelopes
        BY <3>1, <2>a, HeadTailProperties DEF TypeOK
      <4>2. QED BY <4>1 DEF Envelopes
    <3>3. QED BY <3>1, <3>2, <2>b, <2>e DEF Refusals
  <2>4. CASE BeginApply
    <3>1. /\ live = None /\ live' = [state |-> state, streams |-> streams]
          /\ UNCHANGED <<state, delivered, history, saved>>
      BY <2>4 DEF BeginApply, Deciding
    <3>2. Committed' = state
      BY <3>1 DEF Committed
    <3>3. Caused(state, delivered, history, causing')
      BY <3>1, <2>b DEF Caused
    <3>4. QED BY <3>1, <3>2, <3>3, <2>b DEF EventsInv
  <2>5. CASE ApplyWrite
    <3>1. /\ live # None /\ UNCHANGED <<live, causing, delivered, history, saved>>
          /\ \E h \in Hotels, emits \in BOOLEAN : state' = Writes(state, h, causing, emits)
      BY <2>5 DEF ApplyWrite, Applying
    <3>2. PICK h \in Hotels, emits \in BOOLEAN : state' = Writes(state, h, causing, emits)
      BY <3>1
    <3>3. Journal(state, delivered) /\ Caused(state, delivered, history, causing)
      BY <3>1 DEF EventsInv
    <3>4. /\ state \in GameStates /\ delivered \in Seq(Events)
          /\ causing \in Ids \cup {None}
      BY <2>a DEF TypeOK
    <3>5. Journal(state', delivered) /\ Caused(state', delivered, history, causing)
      BY <3>2, <3>3, <3>4, WritesJournal, WritesCaused
    <3>6. Committed' = Committed
      BY <3>1 DEF Committed
    <3>7. QED BY <3>1, <3>5, <3>6, <2>b DEF EventsInv
  <2>6. CASE Commit
    <3> DEFINE v == live.state.version + 1
               e == Entry(causing, "accepted", v)
    <3>1. live # None /\ live.state \in GameStates /\ causing \in Ids /\ state \in GameStates
      BY <2>6, <2>a DEF Commit, Applying, Applies, TypeOK
    <3>2. v \in Nat
      <4>1. live.state.version \in Nat
        BY <3>1 DEF GameStates
      <4>2. QED BY <4>1
    <3>3. /\ state'.pending = state.pending /\ state'.emitted = state.emitted
          /\ state'.dropped = state.dropped /\ history' = Append(history, e)
          /\ live' = None /\ UNCHANGED <<delivered, saved>>
      BY <2>6, <3>1 DEF Commit, GameStates
    <3> HIDE DEF v
    <3>4. e \in LogEntries /\ e.id = causing /\ Accepted(e)
      BY <3>1, <3>2 DEF Entry, LogEntries, Accepted
    <3> HIDE DEF e
    <3>5. Journal(state, delivered) /\ Caused(state, delivered, history, causing)
      BY <3>1 DEF EventsInv
    <3>6. Journal(state', delivered) /\ Caused(state', delivered, history, causing)
      BY <3>3, <3>5, SameEvents
    <3>7. Caused(state', delivered, history', None)
      BY <3>3, <3>4, <3>6, <2>a, CausedGrows DEF TypeOK
    <3>8. QED BY <3>3, <3>6, <3>7 DEF EventsInv, Committed
  <2>7. CASE Abort
    <3>1. /\ live # None /\ causing \in Ids /\ RejectFrom(live.state, causing, "failed")
          /\ live' = None /\ UNCHANGED <<delivered, saved>>
      BY <2>7, <2>a DEF Abort, Applying, Applies
    <3>2. QED BY <3>1, <2>b, <2>e DEF Refusals
  <2>8. CASE EndCommands
    <3>1. /\ state'.pending = state.pending /\ state'.emitted = state.emitted
          /\ state'.dropped = state.dropped
      BY <2>8, <2>a DEF EndCommands, TypeOK, GameStates
    <3>2. QED BY <2>8, <3>1, <2>d DEF EndCommands, CommandsDone
  <2>9. CASE QueueStandingOrder
    BY <2>9, <2>d DEF QueueStandingOrder, CommandsDone
  <2>10. ASSUME NEW throws \in BOOLEAN, RunWorld(throws)
         PROVE  EventsInv'
    <3>1. /\ live = None /\ live' = None /\ UNCHANGED <<delivered, history, saved>>
          /\ \E h \in Hotels, d \in Draws, emits \in BOOLEAN :
               state' = IF throws THEN Writes(state, h, None, emits)
                        ELSE [Writes(state, h, None, emits) EXCEPT !.rng = streams + d]
      BY <2>10 DEF RunWorld, CommandsDone
    <3>2. PICK h \in Hotels, d \in Draws, emits \in BOOLEAN :
            state' = IF throws THEN Writes(state, h, None, emits)
                     ELSE [Writes(state, h, None, emits) EXCEPT !.rng = streams + d]
      BY <3>1
    <3> DEFINE w == Writes(state, h, None, emits)
    <3>3. state \in GameStates /\ delivered \in Seq(Events) /\ None \in Ids \cup {None}
      BY <2>a DEF TypeOK
    <3>4. w \in GameStates
      BY <3>3, WritesType
    <3>5. Journal(w, delivered) /\ Caused(w, delivered, history, None)
      BY <3>1, <3>3, <2>b, WritesJournal, WritesCaused
    <3> HIDE DEF w
    <3>6. /\ state'.pending = w.pending /\ state'.emitted = w.emitted
          /\ state'.dropped = w.dropped
      <4>1. state' = IF throws THEN w ELSE [w EXCEPT !.rng = streams + d]
        BY <3>2 DEF w
      <4>2. QED BY <4>1, <3>4 DEF GameStates
    <3>7. Journal(state', delivered) /\ Caused(state', delivered, history, None)
      BY <3>5, <3>6, SameEvents
    <3>8. QED BY <3>1, <3>7 DEF EventsInv, Committed
  <2>11. CASE TakeDomainEvents
    <3>1. /\ live = None /\ live' = None /\ delivered' = delivered \o state.pending
          /\ state' = [state EXCEPT !.pending = <<>>] /\ UNCHANGED <<history, saved>>
      BY <2>11, <2>c DEF TakeDomainEvents, Running
    <3>2. /\ state'.pending = <<>> /\ state'.emitted = state.emitted
          /\ state'.dropped = state.dropped
      BY <3>1, <2>a DEF TypeOK, GameStates
    <3>3. Told(state', delivered') = Told(state, delivered)
      <4>1. Told(state, delivered) \in Seq(Events)
        BY <2>a, ToldType DEF TypeOK
      <4>2. Told(state, delivered) \o <<>> = Told(state, delivered)
        BY <4>1, ConcatEmptySeq
      <4>3. QED BY <4>2, <3>1, <3>2 DEF Told
    <3>4. Journal(state', delivered') /\ Caused(state', delivered', history, None)
      BY ZenonT(60), <3>1, <3>2, <3>3, <2>b DEF Journal, Caused
    <3>5. QED BY <3>1, <3>4 DEF EventsInv, Committed
  <2>12. CASE Save
    <3>1. /\ live = None /\ saved'.state = state /\ saved'.history = history
          /\ saved'.delivered = delivered
          /\ UNCHANGED <<state, live, causing, delivered, history>>
      BY <2>12, <2>c DEF Save, Running
    <3>2. QED BY <3>1, <2>b DEF EventsInv, Committed
  <2>13. CASE Load
    <3>1. /\ live = None /\ live' = None /\ saved # None /\ saved' = saved
          /\ state' = saved.state /\ history' = saved.history
          /\ delivered' = saved.delivered
      BY <2>13, <2>c DEF Load
    <3>2. QED BY <3>1 DEF EventsInv, Committed
  <2>14. CASE UNCHANGED vars
    BY <2>14 DEF vars, EventsInv, Committed, Journal, Caused
  <2>15. QED
    BY <2>1, <2>2, <2>3, <2>4, <2>5, <2>6, <2>7, <2>8, <2>9, <2>10, <2>11,
       <2>12, <2>13, <2>14 DEF Next
<1>3. QED BY <1>1, <1>2, TypeInvariant, PTL DEF Spec

\* Events are numbered in order, none is handed out twice, and every number
\* that is missing was dropped.
THEOREM EventsInOrder == Spec => []EventsInOrderOnce
<1>1. TypeInv /\ EventsInv => EventsInOrderOnce
  <2> SUFFICES ASSUME TypeInv, EventsInv PROVE EventsInOrderOnce
    OBVIOUS
  <2>1. Told(Committed, delivered) \in Seq(Events)
    BY ToldType DEF TypeInv, TypeOK, Committed
  <2>2. DOMAIN Told(Committed, delivered) = 1 .. Len(Told(Committed, delivered))
    BY <2>1, LenProperties
  <2>3. QED BY <2>2 DEF EventsInv, Journal, EventsInOrderOnce, Told
<1>2. QED BY <1>1, TypeInvariant, EventsInvariant, PTL

\* A command that is refused or rolled back leaves no event behind.
THEOREM EventsHaveAcceptedCauses == Spec => []OnlyAcceptedCommandsCauseEvents
<1>1. TypeInv /\ EventsInv => OnlyAcceptedCommandsCauseEvents
  <2> SUFFICES ASSUME TypeInv, EventsInv PROVE OnlyAcceptedCommandsCauseEvents
    OBVIOUS
  <2>1. Told(Committed, delivered) \in Seq(Events)
    BY ToldType DEF TypeInv, TypeOK, Committed
  <2>2. DOMAIN Told(Committed, delivered) = 1 .. Len(Told(Committed, delivered))
    BY <2>1, LenProperties
  <2>3. QED BY <2>2 DEF EventsInv, Caused, OnlyAcceptedCommandsCauseEvents, Told
<1>2. QED BY <1>1, TypeInvariant, EventsInvariant, PTL

-----------------------------------------------------------------------------
(***************************************************************************)
(* The boundary implements AtomicCommands.                                 *)
(***************************************************************************)

\* While a command is applied, its draft has only drawn and emitted more.
DraftGrows ==
  live # None => /\ streams >= live.state.rng
                 /\ state.emitted >= live.state.emitted

\* A write emits one event more, or none.
LEMMA WritesGrow ==
  ASSUME NEW s \in GameStates, NEW h \in Hotels, NEW c \in Ids \cup {None},
         NEW emits \in BOOLEAN
  PROVE  /\ Writes(s, h, c, emits).emitted >= s.emitted
         /\ Writes(s, h, c, emits).hotel = h
BY DEF Writes, EmitEvent, GameStates

\* Every draft has only grown.
LEMMA DraftInvariant == Spec => []DraftGrows
<1>1. Init => DraftGrows
  BY DEF Init, DraftGrows
<1>2. TypeInv /\ DraftGrows /\ [Next]_vars => DraftGrows'
  <2> SUFFICES ASSUME TypeInv, DraftGrows, [Next]_vars, live' # None
               PROVE  streams' >= live'.state.rng /\ state'.emitted >= live'.state.emitted
    BY DEF DraftGrows
  <2>a. /\ state \in GameStates /\ streams \in Nat /\ causing \in Ids \cup {None}
        /\ state.rng \in Nat /\ state.emitted \in Nat
        /\ live # None => live.state.rng \in Nat /\ live.state.emitted \in Nat
        /\ phase = "idle" => live = None
    BY DEF TypeInv, TypeOK, Applies, GameStates
  <2>1. CASE BeginApply
    <3>1. /\ state' = state /\ streams' = state.rng
          /\ live' = [state |-> state, streams |-> streams]
      BY <2>1 DEF BeginApply
    <3>2. QED BY <3>1, <2>a
  <2>2. CASE ApplyWrite
    <3>1. /\ live # None /\ live' = live
          /\ \E h \in Hotels, d \in Draws, emits \in BOOLEAN :
               state' = Writes(state, h, causing, emits) /\ streams' = streams + d
      BY <2>2 DEF ApplyWrite, Applying
    <3>2. PICK h \in Hotels, d \in Draws, emits \in BOOLEAN :
            state' = Writes(state, h, causing, emits) /\ streams' = streams + d
      BY <3>1
    <3>3. state' \in GameStates /\ state'.emitted >= state.emitted
      BY <3>2, <2>a, WritesType, WritesGrow
    <3>4. state'.emitted \in Nat /\ streams' >= streams /\ streams' \in Nat
      BY SMTT(40), <3>2, <3>3, <2>a DEF GameStates, Draws
    <3>5. QED BY <3>1, <3>3, <3>4, <2>a DEF DraftGrows
  <2>3. CASE UNCHANGED vars
    BY <2>3 DEF vars, DraftGrows
  \* Every other step leaves no draft, or is not taken while there is one.
  <2>4. QED
    BY <2>1, <2>2, <2>3, <2>a DEF Next, QueueEnvelope, BeginSubmit, BeginCommands,
       Refuse, Deciding, Commit, Abort, EndCommands, CommandsDone,
       QueueStandingOrder, RunWorld, TakeDomainEvents, Save, Load, Running
<1>3. QED BY <1>1, <1>2, TypeInvariant, PTL DEF Spec

\* The abstract record of a history: one entry for each verdict.
LEMMA VerdictsType ==
  ASSUME NEW s \in Seq(LogEntries)
  PROVE  /\ Verdicts(s) \in Seq([id : Ids, accepted : BOOLEAN])
         /\ Len(Verdicts(s)) = Len(s)
         /\ \A i \in 1 .. Len(s) :
              Verdicts(s)[i] = [id |-> s[i].id, accepted |-> Accepted(s[i])]
<1> DEFINE R == [id : Ids, accepted : BOOLEAN]
<1>1. /\ Len(s) \in Nat /\ DOMAIN s = 1 .. Len(s)
      /\ \A i \in 1 .. Len(s) : s[i].id \in Ids
  <2>1. \A i \in 1 .. Len(s) : s[i] \in LogEntries
    BY ElementOfSeq
  <2>2. QED BY <2>1, LenProperties DEF LogEntries
<1>2. \A i \in 1 .. Len(s) : [id |-> s[i].id, accepted |-> Accepted(s[i])] \in R
  BY <1>1 DEF Accepted
<1>3. QED BY <1>1, <1>2 DEF Verdicts

\* One verdict more in the history is one verdict more in the abstract record.
LEMMA VerdictsAppend ==
  ASSUME NEW h \in Seq(LogEntries), NEW e \in LogEntries
  PROVE  Verdicts(Append(h, e)) =
           Append(Verdicts(h), [id |-> e.id, accepted |-> Accepted(e)])
<1> DEFINE R == [id : Ids, accepted : BOOLEAN]
           g == Append(h, e)
           v == [id |-> e.id, accepted |-> Accepted(e)]
           a == Verdicts(g)
           b == Verdicts(h)
           c == Append(b, v)
<1>1. /\ g \in Seq(LogEntries) /\ Len(g) = Len(h) + 1 /\ Len(h) \in Nat
      /\ g[Len(h) + 1] = e /\ \A i \in 1 .. Len(h) : g[i] = h[i]
  BY AppendProperties, LenProperties
<1>2. ASSUME NEW s \in Seq(LogEntries)
      PROVE  /\ Verdicts(s) \in Seq(R) /\ Len(Verdicts(s)) = Len(s)
             /\ \A i \in 1 .. Len(s) :
                  Verdicts(s)[i] = [id |-> s[i].id, accepted |-> Accepted(s[i])]
  BY VerdictsType
<1>3. v \in R
  BY DEF LogEntries, Accepted
<1> HIDE DEF g
<1>4. /\ a \in Seq(R) /\ Len(a) = Len(h) + 1
      /\ \A i \in 1 .. Len(h) + 1 : a[i] = [id |-> g[i].id, accepted |-> Accepted(g[i])]
  BY <1>1, <1>2
<1>5. /\ b \in Seq(R) /\ Len(b) = Len(h)
      /\ \A i \in 1 .. Len(h) : b[i] = [id |-> h[i].id, accepted |-> Accepted(h[i])]
  BY <1>2
<1> HIDE DEF a, b
<1>6. /\ c \in Seq(R) /\ Len(c) = Len(h) + 1 /\ c[Len(h) + 1] = v
      /\ \A i \in 1 .. Len(h) : c[i] = b[i]
  BY <1>3, <1>5, AppendProperties
<1> HIDE DEF c
<1>7. ASSUME NEW i \in 1 .. Len(a) PROVE a[i] = c[i]
  <2>1. CASE i = Len(h) + 1
    BY <2>1, <1>1, <1>4, <1>6
  <2>2. CASE i \in 1 .. Len(h)
    BY <2>2, <1>1, <1>4, <1>5, <1>6
  <2>3. QED BY <2>1, <2>2, <1>1, <1>4
<1>8. a = c
  BY <1>4, <1>6, <1>7, SeqEqual
<1>9. QED BY <1>8 DEF a, b, c, g

\* Whose verdict it is: a player's, or a standing order's below the bound.
LEMMA OwedIds ==
  ASSUME TypeInv, CourseInv, batch # <<>>
  PROVE  Head(batch).id \in PlayerIds \cup 0 .. MaxDecisions
<1> DEFINE e == Head(batch)
           n == Len(history) + 1
<1>1. e \in Envelopes /\ e = owed[n] /\ Len(history) < Len(owed)
  BY HeadIsNext DEF CourseInv
<1>2. Len(history) \in Nat /\ Len(owed) \in Nat /\ MaxDecisions \in Nat
  BY ConstantsAssumption DEF TypeInv, TypeOK
<1>3. Numbered(owed) /\ n \in 1 .. Len(owed)
  BY <1>1, <1>2 DEF CourseInv, Course
<1> HIDE DEF e, n
<1>4. e.id \in PlayerIds \/ e.id \in Nat
  BY <1>1 DEF Envelopes, Ids
<1>5. CASE e.id \in Nat
  <2>1. e.id < n /\ n <= Len(owed) /\ Len(owed) <= MaxDecisions
    BY <1>1, <1>2, <1>3, <1>5 DEF Numbered, IsAutomation
  <2>2. n \in Nat
    BY <1>2, <1>3
  <2>3. QED BY <1>2, <1>5, <2>1, <2>2 DEF e
<1>6. QED BY <1>4, <1>5 DEF e

\* Every step of the boundary is a step of AtomicCommands or a stutter of it.
THEOREM BoundaryIsAtomic == Spec => ImplementsAtomicCommands
<1> USE ConstantsAssumption
<1>1. Init => Atomic!Init
  <2> SUFFICES ASSUME Init PROVE Atomic!Init
    OBVIOUS
  <2>1. /\ live = None /\ saved = None /\ history = <<>>
        /\ \E h \in Hotels : state = InitialState(h)
    BY DEF Init
  <2>2. /\ Committed.hotel \in Hotels /\ Committed.rng = 0
        /\ Committed.emitted = 0 /\ Committed.version = 0
    BY <2>1 DEF Committed, InitialState
  <2>3. Verdicts(history) = <<>>
    BY <2>1 DEF Verdicts
  <2>4. QED BY <2>1, <2>2, <2>3 DEF Atomic!Init
<1>2. TypeInv /\ TypeInv' /\ CourseInv /\ StreamsInv /\ DraftGrows /\ [Next]_vars
        => [Atomic!Next]_(Atomic!vars)
  <2> SUFFICES ASSUME TypeInv, TypeInv', CourseInv, StreamsInv, DraftGrows, [Next]_vars
               PROVE  [Atomic!Next]_(Atomic!vars)
    OBVIOUS
  <2>a. TypeOK /\ Applies /\ TypeOK'
    BY DEF TypeInv
  <2>b. /\ Committed \in GameStates /\ Committed' \in GameStates
        /\ live = None => Committed = state
        /\ live # None => Committed = live.state
        /\ live' = None => Committed' = state'
    BY <2>a DEF Committed, TypeOK
  <2>c. phase = "idle" => live = None
    BY <2>a DEF Applies
  \* Nothing a reader may be shown changes.
  <2>d. ASSUME Committed'.hotel = Committed.hotel, Committed'.rng = Committed.rng,
               Committed'.emitted = Committed.emitted,
               Committed'.version = Committed.version, UNCHANGED <<history, saved>>
        PROVE  UNCHANGED Atomic!vars
    BY <2>d DEF Atomic!vars
  \* Time passes.
  <2>e. ASSUME Committed'.rng >= Committed.rng,
               Committed'.emitted >= Committed.emitted,
               Committed'.version = Committed.version, UNCHANGED <<history, saved>>
        PROVE  Atomic!PassTime
    <3>1. /\ Committed'.hotel \in Hotels /\ Committed'.rng \in Nat
          /\ Committed'.emitted \in Nat
      BY <2>b DEF GameStates
    <3>2. QED BY <2>e, <3>1 DEF Atomic!PassTime, Atomic!Moves
  \* A refusal recorded on the committed state.
  <2>f. ASSUME NEW reason \in Refusals, batch # <<>>,
               RejectFrom(Committed, Head(batch).id, reason), live' = None, saved' = saved
        PROVE  Atomic!Next
    <3> DEFINE id == Head(batch).id
               e == Entry(id, reason, Committed.version)
    <3>1. id \in PlayerIds \cup 0 .. MaxDecisions
      BY <2>f, OwedIds
    <3>2. e \in LogEntries /\ e.id = id /\ ~Accepted(e)
      BY SMTT(40), <3>1, <2>b DEF Entry, LogEntries, GameStates, Refusals, Accepted, Ids
    <3>3. /\ state'.hotel = Committed.hotel /\ state'.rng = Committed.rng
          /\ state'.emitted = Committed.emitted /\ state'.version = Committed.version
          /\ history' = Append(history, e)
      BY <2>f, <2>b DEF RejectFrom, GameStates
    <3> HIDE DEF e, id
    <3>4. Verdicts(history') = Append(Verdicts(history), [id |-> id, accepted |-> FALSE])
      <4>1. Accepted(e) = FALSE
        BY <3>2 DEF Accepted
      <4>2. Verdicts(history') =
              Append(Verdicts(history), [id |-> e.id, accepted |-> Accepted(e)])
        BY <3>2, <3>3, <2>a, VerdictsAppend DEF TypeOK
      <4>3. QED BY <3>2, <4>1, <4>2
    <3>5. Atomic!Refuse(id)
      BY <2>f, <2>b, <3>3, <3>4 DEF Atomic!Refuse, Atomic!world
    <3>6. QED BY <3>1, <3>5 DEF Atomic!Next
  <2>1. ASSUME NEW id \in PlayerIds, NEW v \in {None} \cup 0 .. state.version,
               QueueEnvelope(id, v) \/ BeginSubmit(id, v)
        PROVE  UNCHANGED Atomic!vars
    <3>1. UNCHANGED <<state, live, history, saved>>
      BY <2>1 DEF QueueEnvelope, BeginSubmit
    <3>2. QED BY <3>1, <2>d DEF Committed
  <2>2. ASSUME NEW c \in {"quantum", "pending"}, BeginCommands(c)
        PROVE  UNCHANGED Atomic!vars
    <3>1. UNCHANGED <<state, live, history, saved>>
      BY <2>2 DEF BeginCommands
    <3>2. QED BY <3>1, <2>d DEF Committed
  <2>3. ASSUME NEW reason \in {"duplicate", "stale", "invalid"}, Refuse(reason)
        PROVE  Atomic!Next
    <3>1. /\ batch # <<>> /\ live = None /\ live' = None /\ saved' = saved
          /\ RejectFrom(state, Head(batch).id, reason)
      BY <2>3 DEF Refuse, Deciding
    <3>2. QED BY <3>1, <2>b, <2>f DEF Refusals
  <2>4. CASE BeginApply
    <3>1. /\ live = None /\ live' = [state |-> state, streams |-> streams]
          /\ UNCHANGED <<state, history, saved>>
      BY <2>4 DEF BeginApply, Deciding
    <3>2. Committed' = Committed
      BY <3>1 DEF Committed
    <3>3. QED BY <3>1, <3>2, <2>d
  <2>5. CASE ApplyWrite
    <3>1. live # None /\ UNCHANGED <<live, history, saved>>
      BY <2>5 DEF ApplyWrite, Applying
    <3>2. Committed' = Committed
      BY <3>1 DEF Committed
    <3>3. QED BY <3>1, <3>2, <2>d
  <2>6. CASE Commit
    <3> DEFINE n == live.state.version + 1
               e == Entry(causing, "accepted", n)
    <3>1. /\ live # None /\ batch # <<>> /\ causing = Head(batch).id
          /\ state \in GameStates /\ live.state \in GameStates /\ Committed = live.state
      <4>1. live # None /\ batch # <<>>
        BY <2>6, <2>a DEF Commit, Applying, Applies
      <4>2. Head(batch) = batch[1]
        BY <4>1, HeadIsNext DEF CourseInv
      <4>3. QED BY <4>1, <4>2, <2>a, <2>b DEF CourseInv, Drafted, TypeOK
    <3>2. causing \in PlayerIds \cup 0 .. MaxDecisions
      BY <3>1, OwedIds
    <3>3. /\ state'.hotel = state.hotel /\ state'.rng = streams
          /\ state'.emitted = state.emitted /\ state'.version = n
          /\ history' = Append(history, e) /\ live' = None /\ saved' = saved
      BY <2>6, <3>1 DEF Commit, GameStates
    <3>4. n \in Nat
      <4>1. live.state.version \in Nat
        BY <3>1 DEF GameStates
      <4>2. QED BY <4>1
    <3>5. n = Committed.version + 1
      BY <3>1
    <3> HIDE DEF n
    <3>6. e \in LogEntries /\ e.id = causing /\ Accepted(e)
      BY <3>2, <3>4 DEF Entry, LogEntries, Accepted, Ids
    <3> HIDE DEF e
    <3>7. Verdicts(history') = Append(Verdicts(history), [id |-> causing, accepted |-> TRUE])
      BY <3>3, <3>6, <2>a, VerdictsAppend DEF TypeOK
    <3>8. /\ state.hotel \in Hotels /\ streams \in Nat /\ state.emitted \in Nat
          /\ streams >= Committed.rng /\ state.emitted >= Committed.emitted
      BY <3>1, <2>a DEF TypeOK, GameStates, DraftGrows
    <3>9. Atomic!Accept(causing)
      BY <2>b, <3>3, <3>5, <3>7, <3>8 DEF Atomic!Accept, Atomic!Moves
    <3>10. QED BY <3>2, <3>9 DEF Atomic!Next
  <2>7. CASE Abort
    <3>1. /\ live # None /\ batch # <<>> /\ live' = None /\ saved' = saved
          /\ RejectFrom(live.state, causing, "failed")
      BY <2>7, <2>a DEF Abort, Applying, Applies
    <3>2. causing = Head(batch).id
      BY <3>1, HeadIsNext DEF CourseInv, Drafted
    <3>3. QED BY <3>1, <3>2, <2>b, <2>f DEF Refusals
  <2>8. CASE EndCommands
    <3>1. /\ live = None /\ live' = None /\ ~halted /\ UNCHANGED <<history, saved>>
          /\ state'.rng \in {state.rng, streams} /\ state'.emitted = state.emitted
          /\ state'.version = state.version
      BY <2>8, <2>a DEF EndCommands, CommandsDone, StreamsInv, TypeOK, GameStates
    <3>2. streams = state.rng /\ state.rng \in Nat /\ state.emitted \in Nat
      BY <3>1, <2>a DEF StreamsInv, StreamsMatchState, TypeOK, GameStates
    <3>3. Atomic!PassTime
      BY <3>1, <3>2, <2>b, <2>e
    <3>4. QED BY <3>3 DEF Atomic!Next
  <2>9. CASE QueueStandingOrder
    <3>1. UNCHANGED <<state, live, history, saved>>
      BY <2>9 DEF QueueStandingOrder
    <3>2. QED BY <3>1, <2>d DEF Committed
  <2>10. ASSUME NEW throws \in BOOLEAN, RunWorld(throws)
         PROVE  Atomic!Next
    <3>1. /\ live = None /\ live' = None /\ ~halted /\ UNCHANGED <<history, saved>>
          /\ \E h \in Hotels, d \in Draws, emits \in BOOLEAN :
               state' = IF throws THEN Writes(state, h, None, emits)
                        ELSE [Writes(state, h, None, emits) EXCEPT !.rng = streams + d]
      BY <2>10 DEF RunWorld, CommandsDone, StreamsInv
    <3>2. PICK h \in Hotels, d \in Draws, emits \in BOOLEAN :
            state' = IF throws THEN Writes(state, h, None, emits)
                     ELSE [Writes(state, h, None, emits) EXCEPT !.rng = streams + d]
      BY <3>1
    <3> DEFINE w == Writes(state, h, None, emits)
    <3>3. state \in GameStates /\ None \in Ids \cup {None}
      BY <2>a DEF TypeOK
    <3>4. /\ w \in GameStates /\ w.version = state.version /\ w.rng = state.rng
          /\ w.emitted >= state.emitted
      BY <3>3, WritesType, WritesKeep, WritesGrow
    <3> HIDE DEF w
    <3>5. /\ streams = state.rng /\ streams \in Nat /\ d \in Nat
      BY SMTT(40), <3>1, <2>a DEF StreamsInv, StreamsMatchState, TypeOK, Draws
    <3>6. state' = IF throws THEN w ELSE [w EXCEPT !.rng = streams + d]
      BY <3>2 DEF w
    <3>7. /\ state'.emitted = w.emitted /\ state'.version = state.version
          /\ state'.rng >= state.rng
      BY <3>4, <3>5, <3>6 DEF GameStates
    <3>8. Atomic!PassTime
      BY <3>1, <3>4, <3>7, <2>b, <2>e
    <3>9. QED BY <3>8 DEF Atomic!Next
  <2>11. CASE TakeDomainEvents
    <3>1. /\ live = None /\ live' = None /\ UNCHANGED <<history, saved>>
          /\ state'.hotel = state.hotel /\ state'.rng = state.rng
          /\ state'.emitted = state.emitted /\ state'.version = state.version
      BY <2>11, <2>a, <2>c DEF TakeDomainEvents, Running, TypeOK, GameStates
    <3>2. QED BY <3>1, <2>b, <2>d
  <2>12. CASE Save
    <3>1. /\ live = None /\ UNCHANGED <<state, live, history>>
          /\ saved' = [state |-> state, history |-> history, delivered |-> delivered,
                       decided |-> SubSeq(owed, 1, Len(history))]
      BY <2>12, <2>c DEF Save, Running
    <3>2. saved' # None
      <4>1. /\ state \in GameStates /\ history \in Seq(LogEntries)
            /\ delivered \in Seq(Events) /\ owed \in Seq(Envelopes)
        BY <2>a DEF TypeOK
      <4>2. /\ Len(history) \in Nat /\ Len(batch) \in Nat /\ Len(queued) \in Nat
            /\ Len(owed) = Len(history) + Len(batch) + Len(queued)
        BY LenProperties DEF TypeInv, TypeOK, Counts
      <4>3. \A i \in 1 .. Len(history) : owed[i] \in Envelopes
        BY <4>1, <4>2, ElementOfSeq
      <4>4. SubSeq(owed, 1, Len(history)) \in Seq(Envelopes)
        BY <4>2, <4>3, SubSeqProperties
      <4>5. saved' \in [state : GameStates, history : Seq(LogEntries),
                       delivered : Seq(Events), decided : Seq(Envelopes)]
        BY <3>1, <4>1, <4>4
      <4>6. QED BY <4>5, NoneAssumption
    <3>3. /\ saved'.state = Committed /\ saved'.history = history
          /\ Committed' = Committed
      BY <3>1 DEF Committed
    <3>4. Career(saved'.state, saved'.history) =
            <<Committed.hotel, Committed.rng, Committed.emitted, Committed.version,
              Verdicts(history)>>
      BY <3>3 DEF Career
    <3>5. Atomic!Save
      BY <3>1, <3>2, <3>3, <3>4 DEF Atomic!Save, Atomic!career
    <3>6. QED BY <3>5 DEF Atomic!Next
  <2>13. CASE Load
    <3>1. /\ live = None /\ live' = None /\ saved # None /\ saved' = saved
          /\ state' = saved.state /\ history' = saved.history
      BY <2>13, <2>c DEF Load
    <3>2. Career(saved.state, saved.history) # None
      <4>1. saved.state \in GameStates /\ saved.history \in Seq(LogEntries)
        BY <3>1, <2>a DEF TypeOK
      <4>2. Verdicts(saved.history) \in Seq([id : Ids, accepted : BOOLEAN])
        BY <4>1, VerdictsType
      <4>3. QED BY SMTT(40), <4>1, <4>2, NoneAssumption DEF Career, GameStates
    <3>3. Career(saved.state, saved.history) =
            <<Committed'.hotel, Committed'.rng, Committed'.emitted, Committed'.version,
              Verdicts(history')>>
      BY <3>1, <2>b DEF Career
    <3>4. Atomic!Restore
      BY <3>1, <3>2, <3>3 DEF Atomic!Restore, Atomic!career
    <3>5. QED BY <3>4 DEF Atomic!Next
  <2>14. CASE UNCHANGED vars
    <3>1. UNCHANGED <<state, live, history, saved>>
      BY <2>14 DEF vars
    <3>2. QED BY <3>1, <2>d DEF Committed
  <2>15. QED
    BY <2>1, <2>2, <2>3, <2>4, <2>5, <2>6, <2>7, <2>8, <2>9, <2>10, <2>11,
       <2>12, <2>13, <2>14 DEF Next
<1>3. QED
  BY <1>1, <1>2, TypeInvariant, CourseInvariant, StreamsInvariant, DraftInvariant, PTL
     DEF Spec, ImplementsAtomicCommands, Atomic!Spec
=============================================================================
