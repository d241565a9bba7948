------------------------ MODULE WorkerProtocolProofs ------------------------
(***************************************************************************)
(* Theorems about WorkerProtocol, for every set of commands and sections   *)
(* and every bound: what the page holds was published, what it saves is    *)
(* whole, and a verdict reaches the one who asked.                         *)
(*                                                                         *)
(* Each speaks of the two ends of a channel, and none is inductive: the    *)
(* proofs say what holds of the messages on their way between them.        *)
(***************************************************************************)
EXTENDS WorkerProtocol, DataInduction, SequenceTheorems, TLAPS

-----------------------------------------------------------------------------
\* The messages on their way to the page, and to the worker.
Waits == [id : CommandIds, request : Requests]

Outcomes == [request : Requests, id : CommandIds, verdict : {"accepted", "rejected"}]

Answers == [type : {"VERDICT"}, request : Requests, verdict : Verdicts]

Deltas ==
  [changed : Contents, removed : SUBSET Sections]

Snapshots == [type : {"SNAPSHOT"}, publication : Nat, whole : Contents]

StateDeltas ==
  [type : {"STATE_DELTA"}, base : Nat, publication : Nat, delta : Deltas, whole : Contents]

SaveDatas == [type : {"SAVE_DATA"}, data : Simulations]

OtherResponses ==
  [type : {"CONTROL"}, verdict : {"accepted", "rejected"}]
    \cup [type : {"WORKER_ERROR"}]
    \cup [type : {"SIMULATION_ERROR"},
          code : {"INVALID_SAVE", "NOT_INITIALISED", "TICK_FAILED"}]

Responses == Snapshots \cup StateDeltas \cup SaveDatas \cup Answers \cup OtherResponses

Commands == [type : {"COMMAND"}, request : Requests, id : CommandIds]

LoadGames == [type : {"LOAD_GAME"}, data : Simulations \cup {None}]

SpeedChanges == [type : {"SET_SPEED"}, speed : Speeds \cup {0}]

OtherOrders == [type : {"INIT_GAME", "PAUSE", "RESUME", "REQUEST_SAVE", "REQUEST_DETAILS"}]

Orders == Commands \cup LoadGames \cup SpeedChanges \cup OtherOrders

Counts ==
  [inits : Nat, loads : Nat, controls : Nat, quiet : Nat, losses : Nat, throws : Nat]

\* A simulation's content was published when it came to be.
SimIsPublished == sim # None => published # None

TypeInv ==
  /\ TypeOK
  /\ inbox \in Seq(Orders)
  /\ outbox \in Seq(Responses)
  /\ spent \in Counts
  /\ SimIsPublished

-----------------------------------------------------------------------------
\* The chain of publications: numbered upwards from the one the page holds, the newest of
\* them what the worker published last, and each delta computed on the one before it.
Publishes(m) == m.type \in {"SNAPSHOT", "STATE_DELTA"}

NumbersRise(out) ==
  \A i, j \in 1 .. Len(out) :
    i < j /\ Publishes(out[i]) /\ Publishes(out[j]) => out[i].publication < out[j].publication

NumbersLie(out, low, high) ==
  /\ low <= high
  /\ \A i \in 1 .. Len(out) :
       Publishes(out[i]) => low < out[i].publication /\ out[i].publication <= high

NewestIs(out, number, content) ==
  \A i \in 1 .. Len(out) :
    Publishes(out[i]) /\ out[i].publication = number => out[i].whole = content

Based(m, number, content) ==
  m.type = "STATE_DELTA" /\ m.base = number => m.delta = StateDelta(content, m.whole)

DeltasFollow(out) ==
  /\ \A j \in 1 .. Len(out) :
       out[j].type = "STATE_DELTA" => out[j].base < out[j].publication
  /\ \A i, j \in 1 .. Len(out) :
       Publishes(out[i]) => Based(out[j], out[i].publication, out[i].whole)

HeldFits(out, number, content) ==
  held # None =>
    /\ heldPublication = number => held = content
    /\ \A j \in 1 .. Len(out) : Based(out[j], heldPublication, held)

Chain(out, number, content) ==
  /\ NumbersRise(out)
  /\ NumbersLie(out, heldPublication, number)
  /\ NewestIs(out, number, content)
  /\ DeltasFollow(out)
  /\ HeldFits(out, number, content)

ChainInv == Chain(outbox, publication, published) /\ HeldIsPublished

-----------------------------------------------------------------------------
\* A halted simulation stands still; and the saves on their way, in either direction, hold
\* nothing of a quantum that threw.
HaltedStands == tickFailure => speed = 0

RunningIsWhole == sim # None /\ ~tickFailure => sim.torn # "tick"

WholeOrders ==
  {m \in Orders : m.type = "LOAD_GAME" /\ m.data # None => m.data.torn # "tick"}

WholeResponses == {m \in Responses : m.type = "SAVE_DATA" => m.data.torn # "tick"}

SaveInv ==
  /\ HaltedStands /\ RunningIsWhole
  /\ \A data \in saves : data.torn # "tick"
  /\ inbox \in Seq(WholeOrders)
  /\ outbox \in Seq(WholeResponses)

-----------------------------------------------------------------------------
\* Each request is in one place: on its way to the worker, waiting for its verdict, or
\* answered.
Asks(m) == m.type = "COMMAND"

Of(s) == {s[i].request : i \in 1 .. Len(s)}

Once(s) == \A i, j \in 1 .. Len(s) : s[i].request = s[j].request => i = j

OnItsWay ==
  \A i \in 1 .. Len(inbox) :
    Asks(inbox[i]) =>
      /\ inbox[i].request <= sent
      /\ inbox[i].request \notin Of(correlation) \cup Of(posted)
      /\ \A j \in 1 .. Len(inbox) :
           Asks(inbox[j]) /\ inbox[j].request = inbox[i].request => j = i

WaitsOnce == Once(correlation) /\ Of(correlation) \cap Of(posted) = {}

WereSent == \A r \in Of(correlation) \cup Of(posted) : r <= sent

OnePlace == OnItsWay /\ WaitsOnce /\ WereSent /\ Once(posted)

\* Before the first INIT_GAME is handled there is nothing to save or to load, and until
\* the career is started again no other is on its way.
NothingYet ==
  sim = None =>
    /\ ~tickFailure
    /\ saves = {}
    /\ outbox \in Seq(Responses \ SaveDatas)
    /\ inbox \in Seq({m \in Orders : m.type = "LOAD_GAME" => m.data = None})

Starts(m) == m.type = "INIT_GAME"

StartsOnce ==
  \A i \in 1 .. Len(inbox) :
    Starts(inbox[i]) =>
      /\ sim = None
      /\ \A j \in 1 .. Len(inbox) : Starts(inbox[j]) => j = i

NotStarted ==
  spent.inits = 0 => sim = None /\ \A i \in 1 .. Len(inbox) : ~Starts(inbox[i])

Begun == NothingYet /\ NotStarted /\ (~Restarted => StartsOnce)

\* Until then those who wait are those whose envelopes the simulation holds, decided or
\* not, in order; and what it decided became of them.
Envelopes(results) ==
  [i \in 1 .. Len(results) |-> [id |-> results[i].id, request |-> results[i].request]]

HeldWith(queue) == Envelopes(sim.results) \o queue

Held == IF sim = None THEN <<>> ELSE HeldWith(sim.queue)

WaitsForHeld == ~tickFailure => correlation = Held

Happened(results, f) == \A i \in 1 .. Len(results) : f[results[i].request] = results[i].verdict

ResultsHappened == sim # None /\ ~tickFailure => Happened(sim.results, fate)

Answered == ~Restarted => WaitsForHeld /\ ResultsHappened /\ VerdictIsItsOwn

-----------------------------------------------------------------------------
\* What a snapshot is made of.
LEMMA ContentsAre ==
  /\ \A content \in Contents :
       /\ DOMAIN content \subseteq Sections
       /\ \A s \in DOMAIN content : content[s] \in Values
       /\ content = [s \in DOMAIN content |-> content[s]]
  /\ \A S \in SUBSET Sections : [S -> Values] \subseteq Contents
BY DEF Contents

\* A delta and what it is applied to are made of sections too.
LEMMA DeltasAre ==
  ASSUME NEW from \in Contents, NEW to \in Contents
  PROVE  StateDelta(from, to) \in Deltas
<1> DEFINE changed == [s \in Changed(from, to) |-> to[s]]
<1>1. Changed(from, to) \in SUBSET Sections /\ Changed(from, to) \subseteq DOMAIN to
  BY ContentsAre DEF Changed
<1>2. changed \in [Changed(from, to) -> Values]
  BY <1>1, ContentsAre
<1>3. changed \in Contents
  <2> HIDE DEF changed
  <2>1. QED BY <1>1, <1>2, ContentsAre
<1>4. DOMAIN from \ DOMAIN to \in SUBSET Sections
  BY ContentsAre
<1> HIDE DEF changed
<1>5. StateDelta(from, to) = [changed |-> changed, removed |-> DOMAIN from \ DOMAIN to]
  BY DEF StateDelta, changed
<1>6. QED BY <1>3, <1>4, <1>5 DEF Deltas

LEMMA AppliedIsContent ==
  ASSUME NEW base \in Contents, NEW delta \in Deltas
  PROVE  ApplyStateDelta(base, delta) \in Contents
<1> DEFINE S == (DOMAIN base \cup DOMAIN delta.changed) \ delta.removed
<1>1. delta.changed \in Contents
  BY DEF Deltas
<1>2. S \in SUBSET Sections
  BY <1>1, ContentsAre
<1>3. ApplyStateDelta(base, delta) \in [S -> Values]
  BY <1>1, ContentsAre DEF ApplyStateDelta
<1> HIDE DEF S
<1>4. QED BY <1>2, <1>3, ContentsAre

\* stateDelta.ts: applying a delta to the content it was computed from gives the other.
LEMMA DeltaApplies ==
  ASSUME NEW from \in Contents, NEW to \in Contents
  PROVE  ApplyStateDelta(from, StateDelta(from, to)) = to
<1> DEFINE delta == StateDelta(from, to)
           S == (DOMAIN from \cup DOMAIN delta.changed) \ delta.removed
<1>1. /\ DOMAIN delta.changed = Changed(from, to)
      /\ \A s \in Changed(from, to) : delta.changed[s] = to[s]
      /\ delta.removed = DOMAIN from \ DOMAIN to
  BY DEF StateDelta
<1>2. S = DOMAIN to
  BY <1>1 DEF Changed
<1>3. \A s \in DOMAIN to :
        (IF s \in DOMAIN delta.changed THEN delta.changed[s] ELSE from[s]) = to[s]
  BY <1>1 DEF Changed
<1>4. ApplyStateDelta(from, delta) =
        [s \in S |-> IF s \in DOMAIN delta.changed THEN delta.changed[s] ELSE from[s]]
  BY DEF ApplyStateDelta
<1>5. to = [s \in DOMAIN to |-> to[s]]
  BY ContentsAre
<1> HIDE DEF delta, S
<1>6. ApplyStateDelta(from, delta) = [s \in DOMAIN to |-> to[s]]
  BY <1>2, <1>3, <1>4
<1>7. QED BY <1>5, <1>6 DEF delta

-----------------------------------------------------------------------------
\* The answers to a decided queue, result by result.
Answerings == [waiting : Seq(Waits), answers : Seq(Answers)]

Unanswered(waiting) == [waiting |-> waiting, answers |-> <<>>]

\* A sequence without the element at k.
LEMMA Removed ==
  ASSUME NEW S, NEW s \in Seq(S), NEW k \in 1 .. Len(s)
  PROVE  /\ RemoveAt(s, k) \in Seq(S)
         /\ Len(RemoveAt(s, k)) = Len(s) - 1
         /\ \A i \in 1 .. Len(s) - 1 : RemoveAt(s, k)[i] = s[IF i < k THEN i ELSE i + 1]
<1> DEFINE a == SubSeq(s, 1, k - 1)
           b == SubSeq(s, k + 1, Len(s))
<1>1. Len(s) \in Nat /\ \A i \in 1 .. Len(s) : s[i] \in S
  OBVIOUS
<1>2. /\ a \in Seq(S) /\ Len(a) = k - 1
      /\ \A i \in 1 .. k - 1 : a[i] = s[i]
  <2>1. \A i \in 1 .. k - 1 : s[i] \in S
    BY <1>1
  <2>2. /\ a \in Seq(S)
        /\ Len(a) = IF 1 <= k - 1 THEN (k - 1) - 1 + 1 ELSE 0
        /\ \A i \in 1 .. (k - 1) - 1 + 1 : a[i] = s[1 + i - 1]
    BY <2>1, SubSeqProperties
  <2> HIDE DEF a
  <2>3. QED BY <2>2
<1>3. /\ b \in Seq(S) /\ Len(b) = Len(s) - k
      /\ \A i \in 1 .. Len(s) - k : b[i] = s[k + i]
  <2>1. \A i \in k + 1 .. Len(s) : s[i] \in S
    BY <1>1
  <2>2. /\ b \in Seq(S)
        /\ Len(b) = IF k + 1 <= Len(s) THEN Len(s) - (k + 1) + 1 ELSE 0
        /\ \A i \in 1 .. Len(s) - (k + 1) + 1 : b[i] = s[(k + 1) + i - 1]
    BY <1>1, <2>1, SubSeqProperties
  <2> HIDE DEF b
  <2>3. QED BY <1>1, <2>2
<1>4. RemoveAt(s, k) = a \o b
  BY DEF RemoveAt
<1> HIDE DEF a, b
<1>5. /\ a \o b \in Seq(S) /\ Len(a \o b) = Len(a) + Len(b)
      /\ \A i \in 1 .. Len(a) + Len(b) :
           (a \o b)[i] = IF i <= Len(a) THEN a[i] ELSE b[i - Len(a)]
  BY <1>2, <1>3, ConcatProperties
<1>6. \A i \in 1 .. Len(s) - 1 : (a \o b)[i] = s[IF i < k THEN i ELSE i + 1]
  <2>1. SUFFICES ASSUME NEW i \in 1 .. Len(s) - 1
                 PROVE  (a \o b)[i] = s[IF i < k THEN i ELSE i + 1]
    OBVIOUS
  <2>2. CASE i < k
    BY <1>1, <1>2, <1>3, <1>5, <2>2
  <2>3. CASE ~(i < k)
    <3>1. i - (k - 1) \in 1 .. Len(s) - k
      BY <1>1, <2>3
    <3>2. (a \o b)[i] = b[i - (k - 1)]
      BY <1>1, <1>2, <1>3, <1>5, <2>3
    <3>3. b[i - (k - 1)] = s[k + (i - (k - 1))]
      BY <1>3, <3>1
    <3>4. k + (i - (k - 1)) = i + 1
      BY <1>1
    <3>5. QED BY <2>3, <3>2, <3>3, <3>4
  <2>4. QED BY <2>2, <2>3
<1>7. QED BY <1>1, <1>2, <1>3, <1>4, <1>5, <1>6

\* The oldest who waits on an id is one of those who do, and no other is older.
LEMMA OldestWaits ==
  ASSUME NEW waiting \in Seq(Waits), NEW id,
         \E k \in 1 .. Len(waiting) : waiting[k].id = id
  PROVE  /\ Oldest(waiting, id) \in 1 .. Len(waiting)
         /\ waiting[Oldest(waiting, id)].id = id
         /\ \A k \in 1 .. Len(waiting) : waiting[k].id = id => Oldest(waiting, id) <= k
<1> DEFINE T == {k \in DOMAIN waiting : waiting[k].id = id}
<1>1. DOMAIN waiting = 1 .. Len(waiting) /\ Len(waiting) \in Nat
  OBVIOUS
<1>2. T \subseteq Nat /\ T # {}
  BY <1>1
<1>3. \E x \in T : \A y \in T : x <= y
  <2> HIDE DEF T
  <2>1. QED BY <1>2, LeastNumber
<1>4. Oldest(waiting, id) = Min(T)
  BY DEF Oldest
<1>5. Min(T) \in T /\ \A y \in T : Min(T) <= y
  <2> HIDE DEF T
  <2>1. QED BY <1>3 DEF Min
<1>6. QED BY <1>1, <1>4, <1>5

\* One result takes the oldest who waits on its id from the waiting to the answered.
LEMMA OneAnswer ==
  ASSUME NEW a \in Answerings, NEW id, NEW verdict \in Verdicts
  PROVE  /\ Answer(a, id, verdict) \in Answerings
         /\ \/ Answer(a, id, verdict) = a
            \/ \E k \in 1 .. Len(a.waiting) :
                 /\ a.waiting[k].id = id
                 /\ \A j \in 1 .. Len(a.waiting) : a.waiting[j].id = id => k <= j
                 /\ Answer(a, id, verdict).waiting = RemoveAt(a.waiting, k)
                 /\ Answer(a, id, verdict).answers
                      = Append(a.answers, Verdict(a.waiting[k].request, verdict))
         /\ (\E k \in 1 .. Len(a.waiting) : a.waiting[k].id = id) =>
              \E k \in 1 .. Len(a.waiting) :
                 /\ a.waiting[k].id = id
                 /\ \A j \in 1 .. Len(a.waiting) : a.waiting[j].id = id => k <= j
                 /\ Answer(a, id, verdict).waiting = RemoveAt(a.waiting, k)
                 /\ Answer(a, id, verdict).answers
                      = Append(a.answers, Verdict(a.waiting[k].request, verdict))
<1>1. a.waiting \in Seq(Waits) /\ a.answers \in Seq(Answers)
  BY DEF Answerings
<1>2. DOMAIN a.waiting = 1 .. Len(a.waiting)
  BY <1>1
<1>3. CASE \E k \in 1 .. Len(a.waiting) : a.waiting[k].id = id
  <2> DEFINE k == Oldest(a.waiting, id)
             left == RemoveAt(a.waiting, k)
             more == Append(a.answers, Verdict(a.waiting[k].request, verdict))
  <2>1. /\ k \in 1 .. Len(a.waiting) /\ a.waiting[k].id = id
        /\ \A j \in 1 .. Len(a.waiting) : a.waiting[j].id = id => k <= j
    BY <1>1, <1>3, OldestWaits
  <2>2. Answer(a, id, verdict) = [waiting |-> left, answers |-> more]
    BY <1>2, <1>3 DEF Answer
  <2> HIDE DEF k
  <2>3. left \in Seq(Waits)
    BY <1>1, <2>1, Removed
  <2>4. Verdict(a.waiting[k].request, verdict) \in Answers
    <3>1. a.waiting[k] \in Waits
      BY <1>1, <2>1
    <3>2. QED BY <3>1 DEF Waits, Answers, Verdict
  <2>5. more \in Seq(Answers)
    BY <1>1, <2>4, AppendProperties
  <2> HIDE DEF left, more
  <2>6. Answer(a, id, verdict) \in Answerings
    BY <2>2, <2>3, <2>5 DEF Answerings
  <2>7. /\ Answer(a, id, verdict).waiting = left
        /\ Answer(a, id, verdict).answers = more
    BY <2>2
  <2>8. QED BY <2>1, <2>6, <2>7 DEF left, more
<1>4. CASE ~\E k \in 1 .. Len(a.waiting) : a.waiting[k].id = id
  BY <1>2, <1>4 DEF Answer
<1>5. QED BY <1>3, <1>4

\* What a result is made of, and the envelopes results speak of.
LEMMA OutcomesAre ==
  ASSUME NEW results \in Seq(Outcomes), NEW i \in 1 .. Len(results)
  PROVE  /\ results[i].request \in Requests /\ results[i].id \in CommandIds
         /\ results[i].verdict \in {"accepted", "rejected"}
         /\ results[i].verdict \in Verdicts
<1>1. results[i] \in Outcomes
  OBVIOUS
<1>2. QED BY <1>1 DEF Outcomes, Verdicts

LEMMA EnvelopesAre ==
  ASSUME NEW results \in Seq(Outcomes)
  PROVE  /\ Envelopes(results) \in Seq(Waits)
         /\ Len(Envelopes(results)) = Len(results)
         /\ \A i \in 1 .. Len(results) :
              /\ Envelopes(results)[i] = [id |-> results[i].id, request |-> results[i].request]
              /\ Envelopes(results)[i].id = results[i].id
              /\ Envelopes(results)[i].request = results[i].request
<1>1. Len(results) \in Nat
  OBVIOUS
<1>2. \A i \in 1 .. Len(results) :
        [id |-> results[i].id, request |-> results[i].request] \in Waits
  BY OutcomesAre DEF Waits
<1>3. QED BY <1>1, <1>2 DEF Envelopes

\* The answering of the results, one by one: a recursion with a solution.
LEMMA AnswersCourse ==
  ASSUME NEW waiting \in Seq(Waits), NEW results \in Seq(Outcomes)
  PROVE  \E f \in [0 .. Len(results) -> Answerings] :
           /\ f[0] = Unanswered(waiting)
           /\ \A n \in 1 .. Len(results) :
                f[n] = Answer(f[n - 1], results[n].id, results[n].verdict)
           /\ AnswersTo(waiting, results) = f[Len(results)]
<1> DEFINE N == Len(results)
           base == Unanswered(waiting)
           step == [p \in Answerings \X (1 .. N) |->
                      Answer(p[1], results[p[2]].id, results[p[2]].verdict)]
           Solves(f) == f = [n \in 0 .. N |->
                               IF n = 0 THEN [waiting |-> waiting, answers |-> <<>>]
                               ELSE Answer(f[n - 1], results[n].id, results[n].verdict)]
           g == CHOOSE f : Solves(f)
<1>1. N \in Nat
  OBVIOUS
<1>2. base \in Answerings
  BY DEF Unanswered, Answerings
<1>3. step \in [Answerings \X (1 .. N) -> Answerings]
  <2>1. ASSUME NEW a \in Answerings, NEW n \in 1 .. N
        PROVE  Answer(a, results[n].id, results[n].verdict) \in Answerings
    <3>1. results[n].verdict \in Verdicts
      BY OutcomesAre
    <3>2. QED BY <3>1, OneAnswer
  <2>2. QED BY <2>1
<1>4. PICK f \in [0 .. N -> Answerings] :
        f[0] = base /\ \A n \in 1 .. N : f[n] = step[<<f[n - 1], n>>]
  <2> HIDE DEF N, base, step
  <2>1. CoursesOf(N, Answerings, base, step) # {}
    BY <1>1, <1>2, <1>3, BoundedRecursion
  <2>2. QED BY <2>1 DEF CoursesOf
<1>5. \A n \in 1 .. N :
        step[<<f[n - 1], n>>] = Answer(f[n - 1], results[n].id, results[n].verdict)
  <2>1. SUFFICES ASSUME NEW n \in 1 .. N
                 PROVE  step[<<f[n - 1], n>>]
                          = Answer(f[n - 1], results[n].id, results[n].verdict)
    OBVIOUS
  <2>2. f[n - 1] \in Answerings
    BY <1>1
  <2>3. QED BY <2>2
<1>6. Solves(f)
  <2>1. f[0] = [waiting |-> waiting, answers |-> <<>>]
    BY <1>4 DEF Unanswered
  <2>2. \A n \in 1 .. N : f[n] = Answer(f[n - 1], results[n].id, results[n].verdict)
    BY <1>4, <1>5
  <2>3. f = [n \in 0 .. N |-> f[n]]
    OBVIOUS
  <2> HIDE DEF N, step, base
  <2>4. \A n \in 0 .. N : f[n] = IF n = 0 THEN [waiting |-> waiting, answers |-> <<>>]
                                  ELSE Answer(f[n - 1], results[n].id, results[n].verdict)
    BY <1>1, <2>1, <2>2
  <2>5. QED BY <2>3, <2>4
<1>7. Solves(g)
  <2> HIDE DEF Solves
  <2>1. QED BY <1>6, Zenon
<1>8. AnswersTo(waiting, results) = g[N]
  BY DEF AnswersTo
<1> HIDE DEF g
<1>9. g[0] = Unanswered(waiting)
  BY <1>1, <1>7 DEF Unanswered
<1>10. \A n \in 1 .. N : g[n] = Answer(g[n - 1], results[n].id, results[n].verdict)
  BY <1>1, <1>7
<1>11. g \in [0 .. N -> Answerings]
  <2> DEFINE P == {n \in 0 .. N : g[n] \in Answerings}
  <2>1. 0 \in P
    BY <1>1, <1>2, <1>9
  <2>2. \A n \in 0 .. N - 1 : n \in P => n + 1 \in P
    <3>1. SUFFICES ASSUME NEW n \in 0 .. N - 1, g[n] \in Answerings
                   PROVE  g[n + 1] \in Answerings
      BY <1>1
    <3>2. n + 1 \in 1 .. N /\ (n + 1) - 1 = n
      BY <1>1
    <3>3. g[n + 1] = Answer(g[n], results[n + 1].id, results[n + 1].verdict)
      BY <1>10, <3>2
    <3>4. results[n + 1].verdict \in Verdicts
      BY <3>2, OutcomesAre
    <3>5. QED BY <3>1, <3>3, <3>4, OneAnswer
  <2> HIDE DEF P
  <2>3. 0 .. N \subseteq P
    BY <1>1, <2>1, <2>2, BoundedInduction
  <2>4. \A n \in 0 .. N : g[n] \in Answerings
    BY <2>3 DEF P
  <2>5. DOMAIN g = 0 .. N /\ g = [n \in 0 .. N |-> g[n]]
    BY <1>7
  <2>6. QED BY <2>4, <2>5
<1>12. QED BY <1>8, <1>9, <1>10, <1>11

LEMMA AnswersTyped ==
  ASSUME NEW waiting \in Seq(Waits), NEW results \in Seq(Outcomes)
  PROVE  /\ AnswersTo(waiting, results).waiting \in Seq(Waits)
         /\ AnswersTo(waiting, results).answers \in Seq(Answers)
<1>1. AnswersTo(waiting, results) \in Answerings
  <2>1. Len(results) \in 0 .. Len(results)
    OBVIOUS
  <2>2. QED BY <2>1, AnswersCourse
<1>2. QED BY <1>1 DEF Answerings

-----------------------------------------------------------------------------
\* Requests that occur once, in a sequence that loses or gains an element.
LEMMA OnceRemoved ==
  ASSUME NEW S, NEW s \in Seq(S), NEW k \in 1 .. Len(s), Once(s)
  PROVE  /\ Once(RemoveAt(s, k))
         /\ Of(RemoveAt(s, k)) = Of(s) \ {s[k].request}
<1> DEFINE t == RemoveAt(s, k)
           At(i) == IF i < k THEN i ELSE i + 1
<1>1. Len(s) \in Nat
  OBVIOUS
<1>2. /\ Len(t) = Len(s) - 1
      /\ \A i \in 1 .. Len(s) - 1 : t[i] = s[At(i)]
  BY Removed
<1>3. \A i \in 1 .. Len(s) - 1 : At(i) \in 1 .. Len(s) /\ At(i) # k
  BY <1>1
<1>4. \A i, j \in 1 .. Len(s) - 1 : At(i) = At(j) => i = j
  BY <1>1
<1>5. \A i \in 1 .. Len(s) : i # k => \E j \in 1 .. Len(s) - 1 : At(j) = i
  <2>1. SUFFICES ASSUME NEW i \in 1 .. Len(s), i # k
                 PROVE  \E j \in 1 .. Len(s) - 1 : At(j) = i
    OBVIOUS
  <2>2. CASE i < k
    <3>1. i \in 1 .. Len(s) - 1 /\ At(i) = i
      BY <1>1, <2>2
    <3>2. QED BY <3>1
  <2>3. CASE i > k
    <3>1. i - 1 \in 1 .. Len(s) - 1 /\ At(i - 1) = i
      BY <1>1, <2>3
    <3>2. QED BY <3>1
  <2>4. QED BY <1>1, <2>1, <2>2, <2>3
<1> HIDE DEF t, At
<1>6. Once(t)
  BY SMTT(40), <1>2, <1>3, <1>4 DEF Once
<1>7. Of(t) \subseteq Of(s) \ {s[k].request}
  BY SMTT(40), <1>2, <1>3 DEF Of, Once
<1>8. Of(s) \ {s[k].request} \subseteq Of(t)
  <2>1. SUFFICES ASSUME NEW i \in 1 .. Len(s), i # k PROVE s[i].request \in Of(t)
    BY DEF Of
  <2>2. PICK j \in 1 .. Len(s) - 1 : At(j) = i
    BY <1>5, <2>1
  <2>3. t[j] = s[i] /\ j \in 1 .. Len(t)
    BY <1>2, <2>2
  <2>4. QED BY <2>3 DEF Of
<1>9. QED BY <1>6, <1>7, <1>8 DEF t

LEMMA OnceAppended ==
  ASSUME NEW S, NEW s \in Seq(S), NEW e \in S
  PROVE  /\ Of(Append(s, e)) = Of(s) \cup {e.request}
         /\ Once(s) /\ e.request \notin Of(s) => Once(Append(s, e))
<1> DEFINE t == Append(s, e)
<1>1. /\ Len(s) \in Nat /\ Len(t) = Len(s) + 1
      /\ \A i \in 1 .. Len(s) : t[i] = s[i]
      /\ t[Len(s) + 1] = e
  OBVIOUS
<1> HIDE DEF t
<1>2. \A i \in 1 .. Len(t) : i \in 1 .. Len(s) \/ i = Len(s) + 1
  BY <1>1
<1>3. 1 .. Len(s) \subseteq 1 .. Len(t) /\ Len(s) + 1 \in 1 .. Len(t)
  BY <1>1
<1>4. Of(t) = Of(s) \cup {e.request}
  BY <1>1, <1>2, <1>3 DEF Of
<1>5. ASSUME Once(s), e.request \notin Of(s) PROVE Once(t)
  BY <1>1, <1>2, <1>5 DEF Of, Once
<1>6. QED BY <1>4, <1>5 DEF t

LEMMA OnceConcatenated ==
  ASSUME NEW S, NEW s \in Seq(S), NEW t \in Seq(S)
  PROVE  /\ Of(s \o t) = Of(s) \cup Of(t)
         /\ Once(s) /\ Once(t) /\ Of(s) \cap Of(t) = {} => Once(s \o t)
<1> DEFINE u == s \o t
<1>1. /\ Len(s) \in Nat /\ Len(t) \in Nat /\ Len(u) = Len(s) + Len(t)
      /\ \A i \in 1 .. Len(s) + Len(t) : u[i] = IF i <= Len(s) THEN s[i] ELSE t[i - Len(s)]
  BY ConcatProperties, LenProperties
<1> HIDE DEF u
<1>2. \A i \in 1 .. Len(s) : i \in 1 .. Len(u) /\ u[i] = s[i]
  BY <1>1
<1>3. \A i \in 1 .. Len(t) : Len(s) + i \in 1 .. Len(u) /\ u[Len(s) + i] = t[i]
  <2>1. SUFFICES ASSUME NEW i \in 1 .. Len(t)
                 PROVE  Len(s) + i \in 1 .. Len(u) /\ u[Len(s) + i] = t[i]
    OBVIOUS
  <2>2. Len(s) + i \in 1 .. Len(s) + Len(t) /\ ~(Len(s) + i <= Len(s))
    BY <1>1
  <2>3. (Len(s) + i) - Len(s) = i
    BY <1>1
  <2>4. QED BY <1>1, <2>2, <2>3
<1>4. \A i \in 1 .. Len(u) :
        \/ i \in 1 .. Len(s) /\ u[i] = s[i]
        \/ \E j \in 1 .. Len(t) : i = Len(s) + j /\ u[i] = t[j]
  <2>1. SUFFICES ASSUME NEW i \in 1 .. Len(u), i > Len(s)
                 PROVE  \E j \in 1 .. Len(t) : i = Len(s) + j /\ u[i] = t[j]
    BY <1>1
  <2>2. i - Len(s) \in 1 .. Len(t) /\ i = Len(s) + (i - Len(s))
    BY <1>1, <2>1
  <2>3. u[i] = t[i - Len(s)]
    BY <1>1, <2>1
  <2>4. QED BY <2>2, <2>3
<1>5. Of(u) \subseteq Of(s) \cup Of(t)
  BY <1>4 DEF Of
<1>6. Of(s) \cup Of(t) \subseteq Of(u)
  BY SMTT(40), <1>2, <1>3 DEF Of
<1>7. ASSUME Once(s), Once(t), Of(s) \cap Of(t) = {} PROVE Once(u)
  <2>1. SUFFICES ASSUME NEW i \in 1 .. Len(u), NEW j \in 1 .. Len(u),
                        u[i].request = u[j].request
                 PROVE  i = j
    BY DEF Once
  <2>2. \A x \in 1 .. Len(s), y \in 1 .. Len(t) : s[x].request # t[y].request
    BY <1>7 DEF Of
  <2>3. CASE i \in 1 .. Len(s) /\ u[i] = s[i]
    BY ZenonT(60), <1>4, <1>7, <2>1, <2>2, <2>3 DEF Once
  <2>4. CASE \E x \in 1 .. Len(t) : i = Len(s) + x /\ u[i] = t[x]
    BY <1>4, <1>7, <2>1, <2>2, <2>4 DEF Once
  <2>5. QED BY <1>4, <2>3, <2>4
<1>8. QED BY <1>5, <1>6, <1>7 DEF u

\* publishCommandResults: the answers and those who still wait share out the requests that
\* waited, whatever was decided.
LEMMA AnswersSplit ==
  ASSUME NEW waiting \in Seq(Waits), NEW results \in Seq(Outcomes), Once(waiting)
  PROVE  /\ Once(AnswersTo(waiting, results).waiting)
         /\ Once(AnswersTo(waiting, results).answers)
         /\ Of(AnswersTo(waiting, results).waiting) \subseteq Of(waiting)
         /\ Of(AnswersTo(waiting, results).answers) \subseteq Of(waiting)
         /\ Of(AnswersTo(waiting, results).waiting)
              \cap Of(AnswersTo(waiting, results).answers) = {}
<1> DEFINE Splits(a) ==
             /\ Once(a.waiting) /\ Once(a.answers)
             /\ Of(a.waiting) \subseteq Of(waiting) /\ Of(a.answers) \subseteq Of(waiting)
             /\ Of(a.waiting) \cap Of(a.answers) = {}
<1>1. PICK f \in [0 .. Len(results) -> Answerings] :
        /\ f[0] = Unanswered(waiting)
        /\ \A n \in 1 .. Len(results) :
             f[n] = Answer(f[n - 1], results[n].id, results[n].verdict)
        /\ AnswersTo(waiting, results) = f[Len(results)]
  BY AnswersCourse
<1>2. Len(results) \in Nat
  OBVIOUS
<1>3. Splits(f[0])
  BY <1>1 DEF Unanswered, Once, Of
<1>4. ASSUME NEW a \in Answerings, Splits(a), NEW id, NEW verdict \in Verdicts
      PROVE  Splits(Answer(a, id, verdict))
  <2> DEFINE b == Answer(a, id, verdict)
  <2>1. a.waiting \in Seq(Waits) /\ a.answers \in Seq(Answers)
    BY DEF Answerings
  <2>2. CASE \E k \in 1 .. Len(a.waiting) :
               /\ b.waiting = RemoveAt(a.waiting, k)
               /\ b.answers = Append(a.answers, Verdict(a.waiting[k].request, verdict))
    <3>1. PICK k \in 1 .. Len(a.waiting) :
               /\ b.waiting = RemoveAt(a.waiting, k)
               /\ b.answers = Append(a.answers, Verdict(a.waiting[k].request, verdict))
      BY <2>2
    <3> DEFINE r == a.waiting[k].request
    <3>2. Verdict(r, verdict) \in Answers /\ Verdict(r, verdict).request = r
      <4>1. a.waiting[k] \in Waits
        BY <2>1
      <4>2. QED BY <4>1 DEF Waits, Answers, Verdict
    <3>3. r \in Of(a.waiting)
      BY DEF Of
    <3>4. Once(b.waiting) /\ Of(b.waiting) = Of(a.waiting) \ {r}
      BY <1>4, <2>1, <3>1, OnceRemoved
    <3> HIDE DEF r
    <3>5. /\ Of(b.answers) = Of(a.answers) \cup {r}
          /\ Once(a.answers) /\ r \notin Of(a.answers) => Once(b.answers)
      BY <2>1, <3>1, <3>2, OnceAppended DEF r
    <3>6. Splits(b)
      <4> HIDE DEF b
      <4>1. QED BY <1>4, <3>3, <3>4, <3>5
    <3>7. QED BY <3>6
  <2>3. CASE b = a
    BY <1>4, <2>3
  <2>4. QED BY <2>2, <2>3, OneAnswer
<1> DEFINE P == {n \in 0 .. Len(results) : Splits(f[n])}
<1> HIDE DEF Splits
<1>5. 0 \in P
  BY <1>2, <1>3
<1>6. \A n \in 0 .. Len(results) - 1 : n \in P => n + 1 \in P
  <2>1. SUFFICES ASSUME NEW n \in 0 .. Len(results) - 1, Splits(f[n])
                 PROVE  Splits(f[n + 1])
    BY <1>2
  <2>2. n + 1 \in 1 .. Len(results) /\ (n + 1) - 1 = n /\ n \in 0 .. Len(results)
    BY <1>2
  <2>3. f[n + 1] = Answer(f[n], results[n + 1].id, results[n + 1].verdict)
    BY <1>1, <2>2
  <2>4. f[n] \in Answerings /\ results[n + 1].verdict \in Verdicts
    BY <2>2, OutcomesAre
  <2>5. QED BY <1>4, <2>1, <2>3, <2>4
<1> HIDE DEF P
<1>7. 0 .. Len(results) \subseteq P
  BY <1>2, <1>5, <1>6, BoundedInduction
<1>8. Splits(f[Len(results)])
  BY <1>2, <1>7 DEF P
<1>9. QED BY <1>1, <1>8 DEF Splits

\* When those who wait are those whose envelopes were decided, in order, each gets the
\* verdict on its own envelope and nobody is left.
LEMMA AnswersInOrder ==
  ASSUME NEW results \in Seq(Outcomes)
  PROVE  /\ AnswersTo(Envelopes(results), results).waiting = <<>>
         /\ Len(AnswersTo(Envelopes(results), results).answers) = Len(results)
         /\ \A i \in 1 .. Len(results) :
              AnswersTo(Envelopes(results), results).answers[i]
                = Verdict(results[i].request, results[i].verdict)
<1> DEFINE queue == Envelopes(results)
           N == Len(results)
           InStep(a, n) ==
             /\ Len(a.waiting) = N - n
             /\ \A i \in 1 .. N - n : a.waiting[i] = queue[n + i]
             /\ Len(a.answers) = n
             /\ \A i \in 1 .. n : a.answers[i] = Verdict(results[i].request, results[i].verdict)
<1>0. /\ queue \in Seq(Waits) /\ Len(queue) = N
      /\ \A i \in 1 .. N : queue[i].id = results[i].id /\ queue[i].request = results[i].request
  BY EnvelopesAre
<1> HIDE DEF queue
<1>1. PICK f \in [0 .. N -> Answerings] :
        /\ f[0] = Unanswered(queue)
        /\ \A n \in 1 .. N : f[n] = Answer(f[n - 1], results[n].id, results[n].verdict)
        /\ AnswersTo(queue, results) = f[N]
  BY <1>0, AnswersCourse
<1>2. N \in Nat
  OBVIOUS
<1>3. InStep(f[0], 0)
  <2>1. f[0].waiting = queue /\ f[0].answers = <<>>
    BY <1>1 DEF Unanswered
  <2>2. QED BY <1>0, <1>2, <2>1
<1>4. ASSUME NEW n \in 0 .. N - 1, InStep(f[n], n) PROVE InStep(f[n + 1], n + 1)
  <2> DEFINE a == f[n]
             b == f[n + 1]
             m == n + 1
             id == results[m].id
  <2>1. m \in 1 .. N /\ m - 1 = n /\ n \in 0 .. N
    BY <1>2
  <2>2. b = Answer(a, id, results[m].verdict)
    BY <1>1, <2>1
  <2>3. a \in Answerings /\ results[m].verdict \in Verdicts
    BY <2>1, OutcomesAre
  <2>4. a.waiting \in Seq(Waits) /\ a.answers \in Seq(Answers)
    BY <2>3 DEF Answerings
  <2>5. /\ 1 \in 1 .. Len(a.waiting) /\ a.waiting[1].id = id
        /\ a.waiting[1].request = results[m].request
    <3>1. 1 \in 1 .. N - n
      BY <1>2
    <3>2. 1 \in 1 .. Len(a.waiting) /\ a.waiting[1] = queue[m]
      BY <1>4, <3>1
    <3>3. QED BY <1>0, <2>1, <3>2
  <2>6. PICK k \in 1 .. Len(a.waiting) :
                 /\ a.waiting[k].id = id
                 /\ \A j \in 1 .. Len(a.waiting) : a.waiting[j].id = id => k <= j
                 /\ b.waiting = RemoveAt(a.waiting, k)
                 /\ b.answers
                      = Append(a.answers, Verdict(a.waiting[k].request, results[m].verdict))
    <3>1. \E k \in 1 .. Len(a.waiting) : a.waiting[k].id = id
      BY <2>5
    <3> HIDE DEF a, b, id, m
    <3>2. QED BY SMTT(40), <2>2, <2>3, <3>1, OneAnswer
  <2>7. k = 1
    <3>1. k <= 1
      BY <2>5, <2>6
    <3>2. QED BY <2>6, <3>1
  <2>8. /\ Len(b.waiting) = N - m
        /\ \A i \in 1 .. N - m : b.waiting[i] = queue[m + i]
    <3>1. /\ Len(b.waiting) = Len(a.waiting) - 1
          /\ \A i \in 1 .. Len(a.waiting) - 1 :
               b.waiting[i] = a.waiting[IF i < 1 THEN i ELSE i + 1]
      <4> HIDE DEF a, b, id, m
      <4>1. QED BY ZenonT(60), <2>4, <2>5, <2>6, <2>7, Removed
    <3>2. Len(a.waiting) = N - n
      BY <1>4
    <3>0. Len(b.waiting) = N - m
      <4>1. N \in Nat /\ n \in Nat /\ Len(b.waiting) = Len(a.waiting) - 1
        BY <1>2, <3>1
      <4> HIDE DEF N, a, b
      <4>2. QED BY <4>1, <3>2
    <3>3. SUFFICES ASSUME NEW i \in 1 .. N - m PROVE b.waiting[i] = queue[m + i]
      <4> HIDE DEF N, a, b, m
      <4>1. QED BY <3>0
    <3>4. i \in 1 .. Len(a.waiting) - 1 /\ ~(i < 1) /\ i + 1 \in 1 .. N - n
      BY <1>2, <3>2
    <3>5. b.waiting[i] = a.waiting[i + 1]
      BY <3>1, <3>4
    <3>6. a.waiting[i + 1] = queue[n + (i + 1)]
      BY <1>4, <3>4
    <3>7. n + (i + 1) = m + i
      BY <1>2
    <3>8. QED BY <3>5, <3>6, <3>7
  <2>9. /\ Len(b.answers) = m
        /\ \A i \in 1 .. m : b.answers[i] = Verdict(results[i].request, results[i].verdict)
    <3>1. b.answers = Append(a.answers, Verdict(results[m].request, results[m].verdict))
      BY <2>5, <2>6, <2>7
    <3>2. /\ Len(a.answers) = n
          /\ \A i \in 1 .. n : a.answers[i] = Verdict(results[i].request, results[i].verdict)
      BY <1>4
    <3>3. /\ Len(b.answers) = n + 1
          /\ \A i \in 1 .. n : b.answers[i] = a.answers[i]
          /\ b.answers[n + 1] = Verdict(results[m].request, results[m].verdict)
      <4> HIDE DEF a, b, m
      <4>1. QED BY <2>4, <3>1, <3>2
    <3>4. SUFFICES ASSUME NEW i \in 1 .. m
                   PROVE  b.answers[i] = Verdict(results[i].request, results[i].verdict)
      BY <3>3
    <3>5. CASE i = m
      BY <3>3, <3>5
    <3>6. CASE i # m
      <4>1. i \in 1 .. n
        BY <3>6
      <4>2. QED BY <3>2, <3>3, <4>1
    <3>7. QED BY <3>5, <3>6
  <2>10. QED BY <2>8, <2>9
<1> DEFINE P == {n \in 0 .. N : InStep(f[n], n)}
<1> HIDE DEF InStep
<1>5. 0 \in P
  BY <1>2, <1>3
<1>6. \A n \in 0 .. N - 1 : n \in P => n + 1 \in P
  BY <1>2, <1>4
<1> HIDE DEF P
<1>7. 0 .. N \subseteq P
  BY <1>2, <1>5, <1>6, BoundedInduction
<1>8. InStep(f[N], N)
  BY <1>2, <1>7 DEF P
<1>9. f[N].waiting \in Seq(Waits)
  BY <1>2 DEF Answerings
<1>10. QED BY <1>1, <1>2, <1>8, <1>9 DEF InStep, queue

-----------------------------------------------------------------------------
\* The parts of messages and of simulations.
LEMMA OrdersAre ==
  \A m \in Orders :
    /\ m.type = "COMMAND" => m.request \in Requests /\ m.id \in CommandIds
    /\ m.type = "LOAD_GAME" => m.data \in Simulations \cup {None}
    /\ m.type = "SET_SPEED" => m.speed \in Speeds \cup {0}
BY DEF Orders, Commands, LoadGames, SpeedChanges, OtherOrders

LEMMA ResponsesAre ==
  \A m \in Responses :
    /\ Publishes(m) => m.publication \in Nat /\ m.whole \in Contents
    /\ m.type = "STATE_DELTA" => m.base \in Nat /\ m.delta \in Deltas
    /\ m.type = "SAVE_DATA" => m.data \in Simulations
BY DEF Responses, Snapshots, StateDeltas, SaveDatas, Answers, OtherResponses, Publishes

LEMMA WaitsAre ==
  /\ Waits = [request : Requests, id : CommandIds]
  /\ \A r \in Requests, id \in CommandIds : [id |-> id, request |-> r] \in Waits
BY DEF Waits

LEMMA SimulationsAre ==
  /\ \A s \in Simulations :
       /\ s.content \in Contents /\ s.queue \in Seq(Waits) /\ s.results \in Seq(Outcomes)
       /\ s.log \in SUBSET CommandIds /\ s.torn \in {"no", "tick", "paused"}
  /\ \A content \in Contents, queue \in Seq(Waits), results \in Seq(Outcomes),
        log \in SUBSET CommandIds, torn \in {"no", "tick", "paused"} :
       [content |-> content, queue |-> queue, results |-> results, log |-> log,
        torn |-> torn] \in Simulations
BY WaitsAre DEF Simulations, Outcomes

LEMMA QueueChanged ==
  ASSUME NEW s \in Simulations, NEW queue \in Seq(Waits)
  PROVE  /\ [s EXCEPT !.queue = queue] \in Simulations
         /\ [s EXCEPT !.queue = queue].content = s.content
         /\ [s EXCEPT !.queue = queue].queue = queue
         /\ [s EXCEPT !.queue = queue].results = s.results
         /\ [s EXCEPT !.queue = queue].torn = s.torn
<1>1. /\ s.content \in Contents /\ s.log \in SUBSET CommandIds /\ s.results \in Seq(Outcomes)
      /\ s.torn \in {"no", "tick", "paused"}
  BY SimulationsAre
<1>2. [s EXCEPT !.queue = queue]
        = [content |-> s.content, queue |-> queue, results |-> s.results, log |-> s.log,
           torn |-> s.torn]
  BY DEF Simulations
<1>3. [content |-> s.content, queue |-> queue, results |-> s.results, log |-> s.log,
       torn |-> s.torn] \in Simulations
  BY <1>1, SimulationsAre
<1>4. QED BY <1>2, <1>3

\* A state holds neither a queue nor results.
LEMMA StateIs ==
  ASSUME NEW s \in Simulations
  PROVE  /\ StateOf(s) \in Simulations
         /\ StateOf(s).content = s.content /\ StateOf(s).torn = s.torn
         /\ StateOf(s).queue = <<>> /\ StateOf(s).results = <<>>
<1>1. /\ s.content \in Contents /\ s.log \in SUBSET CommandIds
      /\ s.torn \in {"no", "tick", "paused"}
  BY SimulationsAre
<1>2. StateOf(s)
        = [content |-> s.content, queue |-> <<>>, results |-> <<>>, log |-> s.log,
           torn |-> s.torn]
  <2> DEFINE t == [s EXCEPT !.queue = <<>>]
  <2>1. t = [content |-> s.content, queue |-> <<>>, results |-> s.results, log |-> s.log,
             torn |-> s.torn]
    BY DEF Simulations
  <2>2. StateOf(s) = [t EXCEPT !.results = <<>>]
    BY DEF StateOf
  <2> HIDE DEF t
  <2>3. QED BY <2>1, <2>2
<1>3. <<>> \in Seq(Waits) /\ <<>> \in Seq(Outcomes)
  OBVIOUS
<1>4. [content |-> s.content, queue |-> <<>>, results |-> <<>>, log |-> s.log,
       torn |-> s.torn] \in Simulations
  BY <1>1, <1>3, SimulationsAre
<1>5. QED BY <1>2, <1>4

LEMMA Started ==
  ASSUME NEW content \in Contents
  PROVE  /\ Fresh(content) \in Simulations
         /\ Fresh(content).queue = <<>> /\ Fresh(content).results = <<>>
         /\ Fresh(content).torn = "no"
<1>1. {} \in SUBSET CommandIds /\ <<>> \in Seq(Waits) /\ <<>> \in Seq(Outcomes)
  OBVIOUS
<1>2. QED BY <1>1, SimulationsAre DEF Fresh

\* The verdicts of a queue are one of two, and become its requests' fates.
LEMMA DecisionsAre ==
  ASSUME NEW queue \in Seq(Waits), NEW log, NEW d \in Decisions(queue, log)
  PROVE  d \in [1 .. Len(queue) -> {"accepted", "rejected"}]
<1>1. DOMAIN queue = 1 .. Len(queue)
  OBVIOUS
<1>2. QED BY <1>1 DEF Decisions

LEMMA LogGrows ==
  ASSUME NEW queue \in Seq(Waits), NEW log \in SUBSET CommandIds
  PROVE  LogAfter(queue, log) \in SUBSET CommandIds
<1>1. \A i \in DOMAIN queue : queue[i].id \in CommandIds
  <2>1. SUFFICES ASSUME NEW i \in DOMAIN queue PROVE queue[i].id \in CommandIds
    OBVIOUS
  <2>2. queue[i] \in Waits
    OBVIOUS
  <2>3. QED BY <2>2 DEF Waits
<1>2. QED BY <1>1 DEF LogAfter

LEMMA FatesAre ==
  ASSUME TypeInv, NEW queue \in Seq(Waits),
         NEW d \in [1 .. Len(queue) -> {"accepted", "rejected"}]
  PROVE  /\ FateAfter(queue, d) \in Fates
         /\ \A r \in Requests : r \notin Of(queue) => FateAfter(queue, d)[r] = fate[r]
         /\ Once(queue) =>
              \A i \in 1 .. Len(queue) : FateAfter(queue, d)[queue[i].request] = d[i]
<1>1. DOMAIN queue = 1 .. Len(queue) /\ fate \in Fates
  BY DEF TypeInv, TypeOK
<1>2. \A i \in 1 .. Len(queue) : queue[i].request \in Requests
  <2>1. SUFFICES ASSUME NEW i \in 1 .. Len(queue) PROVE queue[i].request \in Requests
    OBVIOUS
  <2>2. queue[i] \in Waits
    OBVIOUS
  <2>3. QED BY <2>2 DEF Waits
<1>3. \A r \in Requests :
        FateAfter(queue, d)[r] =
          IF \E i \in 1 .. Len(queue) : queue[i].request = r
          THEN d[CHOOSE i \in 1 .. Len(queue) : queue[i].request = r] ELSE fate[r]
  BY <1>1 DEF FateAfter
<1>4. \A r \in Requests :
        (\E i \in 1 .. Len(queue) : queue[i].request = r) =>
          \E i \in 1 .. Len(queue) :
            queue[i].request = r /\ FateAfter(queue, d)[r] = d[i]
  <2>1. SUFFICES ASSUME NEW r \in Requests, \E i \in 1 .. Len(queue) : queue[i].request = r
                 PROVE  \E i \in 1 .. Len(queue) :
                          queue[i].request = r /\ FateAfter(queue, d)[r] = d[i]
    OBVIOUS
  <2> DEFINE k == CHOOSE i \in 1 .. Len(queue) : queue[i].request = r
  <2>2. k \in 1 .. Len(queue) /\ queue[k].request = r
    BY <2>1
  <2>3. FateAfter(queue, d)[r] = d[k]
    BY <1>3, <2>1
  <2>4. QED BY <2>2, <2>3
<1>5. FateAfter(queue, d) \in Fates
  <2>1. \A r \in Requests :
          FateAfter(queue, d)[r] \in {"unsent", "sent", "queued", "accepted", "rejected"}
    BY SMTT(40), <1>1, <1>3, <1>4 DEF Fates
  <2>2. FateAfter(queue, d) = [r \in Requests |-> FateAfter(queue, d)[r]]
    BY DEF FateAfter
  <2>3. QED BY <2>1, <2>2 DEF Fates
<1>6. \A r \in Requests : r \notin Of(queue) => FateAfter(queue, d)[r] = fate[r]
  BY <1>3 DEF Of
<1>7. ASSUME Once(queue), NEW i \in 1 .. Len(queue)
      PROVE  FateAfter(queue, d)[queue[i].request] = d[i]
  BY <1>2, <1>4, <1>7 DEF Once
<1>8. QED BY <1>5, <1>6, <1>7

-----------------------------------------------------------------------------
\* What the worker posts: one publication after some answers, or none.  A save is of the
\* simulation as it stands, and a halted one is not saved.
SavesNow ==
  {m \in SaveDatas : sim # None /\ ~tickFailure /\ m.data.torn = sim.torn}

Unpublished == SavesNow \cup Answers \cup OtherResponses

Silent ==
  /\ \E others \in Seq(Unpublished) : outbox' = outbox \o others
  /\ UNCHANGED <<published, publication>>

Newest(content) ==
  {Snapshot(content, publication + 1)}
    \cup {m \in {Delta(published, content, publication + 1)} : published # None}

Publishing ==
  \E answers \in Seq(Answers), content \in Contents :
    /\ \E p \in Newest(content) : outbox' = Append(outbox \o answers, p)
    /\ published' = content
    /\ publication' = publication + 1

LEMMA NewestAre ==
  ASSUME TypeInv, NEW content \in Contents, NEW p \in Newest(content)
  PROVE  /\ p \in Responses /\ Publishes(p)
         /\ p.publication = publication + 1 /\ p.whole = content
         /\ Based(p, publication, published)
         /\ p.type = "STATE_DELTA" => p.base = publication
<1>1. publication \in Nat /\ published \in Contents \cup {None}
  BY DEF TypeInv, TypeOK
<1>2. CASE p = Snapshot(content, publication + 1)
  <2>1. p \in Snapshots
    BY <1>1, <1>2 DEF Snapshot, Snapshots
  <2>2. QED BY <1>2, <2>1 DEF Snapshot, Responses, Publishes, Based
<1>3. CASE published # None /\ p = Delta(published, content, publication + 1)
  <2>1. StateDelta(published, content) \in Deltas
    BY <1>1, <1>3, DeltasAre
  <2>2. (publication + 1) - 1 = publication
    BY <1>1
  <2>3. p = [type |-> "STATE_DELTA", base |-> publication, publication |-> publication + 1,
             delta |-> StateDelta(published, content), whole |-> content]
    BY <1>3, <2>2 DEF Delta
  <2>4. p \in StateDeltas
    BY <1>1, <2>1, <2>3 DEF StateDeltas
  <2>5. QED BY <2>3, <2>4 DEF Responses, Publishes, Based
<1>4. QED BY <1>2, <1>3 DEF Newest

\* However it posts, messages are added at the end.
LEMMA Posting ==
  ASSUME TypeInv
  PROVE  /\ Silent => outbox' \in Seq(Responses)
         /\ Publishing => /\ outbox' \in Seq(Responses)
                          /\ published' \in Contents /\ publication' \in Nat
<1>1. outbox \in Seq(Responses) /\ publication \in Nat
  BY DEF TypeInv, TypeOK
<1>2. Unpublished \subseteq Responses /\ Answers \subseteq Responses
  BY DEF Unpublished, SavesNow, Responses
<1>3. ASSUME NEW others \in Seq(Unpublished) PROVE outbox \o others \in Seq(Responses)
  <2>1. others \in Seq(Responses)
    BY <1>2, SeqMonotonic
  <2>2. QED BY <1>1, <2>1, ConcatProperties
<1>4. ASSUME NEW answers \in Seq(Answers), NEW content \in Contents, NEW p \in Newest(content)
      PROVE  Append(outbox \o answers, p) \in Seq(Responses)
  <2>1. answers \in Seq(Responses)
    BY <1>2, SeqMonotonic
  <2>2. outbox \o answers \in Seq(Responses)
    BY <1>1, <2>1, ConcatProperties
  <2>3. p \in Responses
    BY NewestAre
  <2>4. QED BY <2>2, <2>3, AppendProperties
<1>5. ASSUME Silent PROVE outbox' \in Seq(Responses)
  BY <1>3, <1>5 DEF Silent
<1>6. ASSUME Publishing
      PROVE  outbox' \in Seq(Responses) /\ published' \in Contents /\ publication' \in Nat
  <2>1. PICK answers \in Seq(Answers), content \in Contents :
          /\ \E p \in Newest(content) : outbox' = Append(outbox \o answers, p)
          /\ published' = content
          /\ publication' = publication + 1
    BY <1>6 DEF Publishing
  <2>2. outbox' \in Seq(Responses)
    BY <1>4, <2>1
  <2>3. QED BY <1>1, <2>1, <2>2
<1>7. QED BY <1>5, <1>6

\* reply with a single message, or with answers and a publication.
LEMMA Replying ==
  ASSUME TypeInv
  PROVE  /\ \A m \in Unpublished :
              Reply(<<m>>) /\ UNCHANGED <<published, publication>> => Silent
         /\ UNCHANGED <<outbox, published, publication>> => Silent
         /\ \A content \in Contents, answers \in Seq(Answers) : \A p \in Newest(content) :
              Reply(answers \o <<p>>) /\ published' = content /\ publication' = publication + 1
                => Publishing
         /\ \A content \in Contents : \A p \in Newest(content) :
              Reply(<<p>>) /\ published' = content /\ publication' = publication + 1
                => Publishing
<1>1. outbox \in Seq(Responses)
  BY DEF TypeInv
<1>2. ASSUME NEW m \in Unpublished PROVE <<m>> \in Seq(Unpublished)
  OBVIOUS
<1>3. outbox = outbox \o <<>> /\ <<>> \in Seq(Unpublished) /\ <<>> \in Seq(Answers)
  BY <1>1, ConcatEmptySeq
<1>4. ASSUME NEW content \in Contents, NEW answers \in Seq(Answers), NEW p \in Newest(content)
      PROVE  outbox \o (answers \o <<p>>) = Append(outbox \o answers, p)
  <2>1. p \in Responses
    BY NewestAre
  <2>2. answers \in Seq(Responses)
    <3>1. Answers \subseteq Responses
      BY DEF Responses
    <3>2. QED BY <3>1, SeqMonotonic
  <2>3. <<p>> \in Seq(Responses)
    BY <2>1
  <2>4. (outbox \o answers) \o <<p>> = outbox \o (answers \o <<p>>)
    BY <1>1, <2>2, <2>3, ConcatAssociative
  <2>5. outbox \o answers \in Seq(Responses)
    BY <1>1, <2>2, ConcatProperties
  <2>6. (outbox \o answers) \o <<p>> = Append(outbox \o answers, p)
    <3> DEFINE s == outbox \o answers
    <3>1. s \in Seq(Responses)
      BY <2>5
    <3> HIDE DEF s
    <3>2. s \o <<p>> = Append(s, p)
      BY <2>1, <3>1, AppendIsConcat
    <3>3. QED BY <3>2 DEF s
  <2>7. QED BY <2>4, <2>6
<1>5. ASSUME NEW content \in Contents, NEW p \in Newest(content)
      PROVE  outbox \o <<p>> = Append(outbox \o <<>>, p)
  <2>1. p \in Responses
    BY NewestAre
  <2>2. QED BY <1>1, <1>3, <2>1, AppendIsConcat
<1>6. QED
  BY <1>2, <1>3, <1>4, <1>5 DEF Silent, Publishing, Reply

-----------------------------------------------------------------------------
\* What the worker takes from the inbox, and what it makes of it.
LEMMA Handled ==
  ASSUME TypeInv, NEW type, Takes(type)
  PROVE  /\ Head(inbox) \in Orders /\ Head(inbox).type = type
         /\ inbox' = Tail(inbox) /\ inbox' \in Seq(Orders)
<1>1. inbox \in Seq(Orders) /\ inbox # <<>>
  BY DEF TypeInv, Handles, Takes
<1>2. QED BY <1>1, HeadTailProperties DEF Handles, Takes

LEMMA Taken ==
  ASSUME TypeInv, TakesCommand
  PROVE  /\ sim \in Simulations /\ sim # None /\ ~tickFailure
         /\ Head(inbox).request \in Requests /\ Head(inbox).id \in CommandIds
         /\ Queued \in Seq(Waits)
         /\ WaitFor(Head(inbox).id, Head(inbox).request) \in Seq(Waits)
<1>1. /\ sim \in Simulations /\ sim # None /\ ~tickFailure
      /\ Head(inbox).request \in Requests /\ Head(inbox).id \in CommandIds
  BY Handled, OrdersAre DEF TypeInv, TypeOK, TakesCommand
<1>2. sim.queue \in Seq(Waits) /\ correlation \in Seq(Waits)
  BY <1>1, SimulationsAre DEF TypeInv, TypeOK, Waits
<1>3. /\ [request |-> Head(inbox).request, id |-> Head(inbox).id] \in Waits
      /\ [id |-> Head(inbox).id, request |-> Head(inbox).request] \in Waits
  BY <1>1 DEF Waits
<1>4. QED BY <1>1, <1>2, <1>3, AppendProperties DEF Queued, WaitFor

LEMMA ReplacedAre ==
  ASSUME TypeInv
  PROVE  /\ ReplacedVerdicts \in Seq(Answers)
         /\ Len(ReplacedVerdicts) = Len(correlation)
         /\ \A i \in 1 .. Len(correlation) :
              /\ ReplacedVerdicts[i].request = correlation[i].request
              /\ ReplacedVerdicts[i].verdict = "replaced"
<1>1. correlation \in Seq(Waits)
  BY DEF TypeInv, TypeOK, Waits
<1>2. DOMAIN correlation = 1 .. Len(correlation) /\ Len(correlation) \in Nat
  BY <1>1
<1>3. \A i \in 1 .. Len(correlation) : Verdict(correlation[i].request, "replaced") \in Answers
  <2>1. SUFFICES ASSUME NEW i \in 1 .. Len(correlation)
                 PROVE  Verdict(correlation[i].request, "replaced") \in Answers
    OBVIOUS
  <2>2. correlation[i] \in Waits
    BY <1>1
  <2>3. QED BY <2>2 DEF Waits, Answers, Verdict, Verdicts
<1>4. ReplacedVerdicts = [i \in 1 .. Len(correlation) |-> Verdict(correlation[i].request, "replaced")]
  BY <1>2 DEF ReplacedVerdicts
<1>5. ReplacedVerdicts \in Seq(Answers)
  BY <1>2, <1>3, <1>4
<1>6. QED BY <1>2, <1>4, <1>5 DEF Verdict

\* What is decided joins the results that nobody has taken.
LEMMA ResultsGrow ==
  ASSUME TypeInv, sim # None, NEW queue \in Seq(Waits), NEW d \in Decisions(queue, sim.log)
  PROVE  /\ Decided(queue, d) \in Seq(Outcomes)
         /\ Len(Decided(queue, d)) = Len(sim.results) + Len(queue)
         /\ \A i \in 1 .. Len(sim.results) : Decided(queue, d)[i] = sim.results[i]
         /\ \A i \in 1 .. Len(queue) :
              /\ Decided(queue, d)[Len(sim.results) + i].request = queue[i].request
              /\ Decided(queue, d)[Len(sim.results) + i].id = queue[i].id
              /\ Decided(queue, d)[Len(sim.results) + i].verdict = d[i]
<1> DEFINE old == sim.results
           new == Results(queue, d)
<1>1. d \in [1 .. Len(queue) -> {"accepted", "rejected"}] /\ Len(queue) \in Nat
      /\ DOMAIN queue = 1 .. Len(queue)
  BY DecisionsAre
<1>2. \A i \in 1 .. Len(queue) :
        [request |-> queue[i].request, id |-> queue[i].id, verdict |-> d[i]] \in Outcomes
  <2>1. \A i \in 1 .. Len(queue) : queue[i] \in Waits
    OBVIOUS
  <2>2. QED BY <1>1, <2>1 DEF Waits, Outcomes
<1>3. /\ new \in Seq(Outcomes) /\ Len(new) = Len(queue)
      /\ \A i \in 1 .. Len(queue) :
           new[i] = [request |-> queue[i].request, id |-> queue[i].id, verdict |-> d[i]]
  BY <1>1, <1>2 DEF Results
<1>4. old \in Seq(Outcomes) /\ Len(old) \in Nat
  BY SimulationsAre DEF TypeInv, TypeOK
<1>5. Decided(queue, d) = old \o new
  BY DEF Decided
<1> HIDE DEF old, new
<1>6. /\ old \o new \in Seq(Outcomes) /\ Len(old \o new) = Len(old) + Len(new)
      /\ \A i \in 1 .. Len(old) + Len(new) :
           (old \o new)[i] = IF i <= Len(old) THEN old[i] ELSE new[i - Len(old)]
  <2>1. old \in Seq(Outcomes) /\ new \in Seq(Outcomes)
    BY <1>3, <1>4
  <2>2. QED BY ONLY <2>1, ConcatProperties
<1>7. \A i \in 1 .. Len(old) : (old \o new)[i] = old[i]
  BY <1>1, <1>3, <1>4, <1>6
<1>8. \A i \in 1 .. Len(queue) : (old \o new)[Len(old) + i] = new[i]
  BY <1>1, <1>3, <1>4, <1>6
<1>9. \A i \in 1 .. Len(queue) :
        /\ (old \o new)[Len(old) + i].request = queue[i].request
        /\ (old \o new)[Len(old) + i].id = queue[i].id
        /\ (old \o new)[Len(old) + i].verdict = d[i]
  <2>1. SUFFICES ASSUME NEW i \in 1 .. Len(queue)
                 PROVE  /\ (old \o new)[Len(old) + i].request = queue[i].request
                        /\ (old \o new)[Len(old) + i].id = queue[i].id
                        /\ (old \o new)[Len(old) + i].verdict = d[i]
    OBVIOUS
  <2>2. (old \o new)[Len(old) + i] = new[i]
    BY <1>8
  <2>3. new[i] = [request |-> queue[i].request, id |-> queue[i].id, verdict |-> d[i]]
    BY <1>3
  <2>4. QED BY ONLY <2>2, <2>3
<1>10. old \o new \in Seq(Outcomes) /\ Len(old \o new) = Len(old) + Len(queue)
  BY <1>3, <1>6
<1>11. QED BY ONLY <1>5, <1>7, <1>9, <1>10 DEF old

\* A queue decided: what becomes of the simulation, the waiting and the channel.
LEMMA DecidedIs ==
  ASSUME TypeInv, sim # None, NEW queue \in Seq(Waits), NEW waiting \in Seq(Waits),
         NEW d \in Decisions(queue, sim.log), NEW content \in Contents,
         Decide(queue, waiting, d, content)
  PROVE  /\ Publishing
         /\ sim' \in Simulations /\ sim'.queue = <<>> /\ sim'.results = <<>>
         /\ sim'.torn = "no"
         /\ correlation' \in Seq(Waits)
         /\ correlation' = AnswersTo(waiting, Decided(queue, d)).waiting
         /\ AnswersTo(waiting, Decided(queue, d)).answers \in Seq(Answers)
         /\ posted' \in Seq(Answers)
         /\ posted' = posted \o AnswersTo(waiting, Decided(queue, d)).answers
         /\ published' \in Contents
         /\ fate' \in Fates /\ fate' = FateAfter(queue, d)
<1> DEFINE answered == AnswersTo(waiting, Decided(queue, d))
<1>1. d \in [1 .. Len(queue) -> {"accepted", "rejected"}]
      /\ Decided(queue, d) \in Seq(Outcomes)
  BY DecisionsAre, ResultsGrow
<1>2. answered.waiting \in Seq(Waits) /\ answered.answers \in Seq(Answers)
  BY <1>1, AnswersTyped
<1>3. /\ sim' = [content |-> content, queue |-> <<>>, results |-> <<>>,
                 log |-> LogAfter(queue, sim.log), torn |-> "no"]
      /\ correlation' = answered.waiting
      /\ Reply(answered.answers \o <<Delta(published, content, publication + 1)>>)
      /\ posted' = posted \o answered.answers
      /\ published' = content
      /\ publication' = publication + 1
      /\ fate' = FateAfter(queue, d)
  BY DEF Decide, Post
<1> HIDE DEF answered
<1>4. sim \in Simulations /\ posted \in Seq(Answers)
  BY DEF TypeInv, TypeOK, Answers
<1>5. LogAfter(queue, sim.log) \in SUBSET CommandIds
  BY <1>4, LogGrows, SimulationsAre
<1>6. sim' \in Simulations
  <2>1. <<>> \in Seq(Waits) /\ <<>> \in Seq(Outcomes)
    OBVIOUS
  <2>2. QED BY <1>3, <1>5, <2>1, SimulationsAre
<1>7. Publishing
  <2>1. Delta(published, content, publication + 1) \in Newest(content)
    BY DEF Newest, TypeInv, SimIsPublished
  <2>2. QED BY <1>2, <1>3, <2>1, Replying
<1>8. posted' \in Seq(Answers)
  BY <1>2, <1>3, <1>4, ConcatProperties
<1>9. fate' \in Fates
  BY <1>1, <1>3, FatesAre
<1>10. QED BY <1>2, <1>3, <1>6, <1>7, <1>8, <1>9 DEF answered

\* A run that throws: what becomes of the simulation and of the requests.
LEMMA ThrownIs ==
  ASSUME TypeInv, sim # None, NEW queue \in Seq(Waits),
         NEW torn \in {"no", "tick", "paused"}, Throws(queue, torn)
  PROVE  /\ sim' \in Simulations /\ sim'.queue = <<>> /\ sim'.torn = torn
         /\ \E d \in Decisions(queue, sim.log) :
              sim'.results = Decided(queue, d) /\ fate' = FateAfter(queue, d)
         /\ fate' \in Fates
         /\ spent' = [spent EXCEPT !.throws = @ + 1]
<1>1. PICK d \in Decisions(queue, sim.log), content \in Contents :
        /\ sim' = [content |-> content, queue |-> <<>>, results |-> Decided(queue, d),
                   log |-> LogAfter(queue, sim.log), torn |-> torn]
        /\ fate' = FateAfter(queue, d)
  BY DEF Throws
<1>2. /\ Decided(queue, d) \in Seq(Outcomes) /\ <<>> \in Seq(Waits)
      /\ d \in [1 .. Len(queue) -> {"accepted", "rejected"}]
  BY DecisionsAre, ResultsGrow
<1>3. LogAfter(queue, sim.log) \in SUBSET CommandIds
  BY LogGrows, SimulationsAre DEF TypeInv, TypeOK
<1>4. sim' \in Simulations
  BY <1>1, <1>2, <1>3, SimulationsAre
<1>5. fate' \in Fates
  BY <1>1, <1>2, FatesAre
<1>6. QED BY <1>1, <1>4, <1>5 DEF Throws

-----------------------------------------------------------------------------
\* Every step of the page and the worker posts in one of the two ways.
LEMMA StepsPost ==
  ASSUME TypeInv, PageSends \/ WorkerHandles \/ Tick \/ TickThrows
  PROVE  (Silent \/ Publishing) /\ UNCHANGED client
<1> USE DEF TypeInv, TypeOK
<1>1. CASE PageSends
  BY <1>1, Replying
     DEF PageSends, SendCommand, SendInit, SendLoad, SendControl, Send, worker
<1>2. CASE HandleInitGame
  <2>1. PICK content \in Contents : /\ published' = content
                                    /\ Reply(<<Snapshot(content, publication + 1)>>)
    BY <1>2 DEF HandleInitGame
  <2>2. Snapshot(content, publication + 1) \in Newest(content)
    BY DEF Newest
  <2>3. QED BY <1>2, <2>1, <2>2, Replying DEF HandleInitGame, Handles, Takes
<1>3. CASE HandleLoadGame
  <2> DEFINE data == Head(inbox).data
             restored == StateOf(data)
  <2>1. data \in Simulations
    BY <1>3, Handled, OrdersAre DEF HandleLoadGame, Handles
  <2>2. restored \in Simulations
    BY <2>1, StateIs
  <2> HIDE DEF data
  <2>3. sim' = restored
    BY <1>3 DEF HandleLoadGame, data
  <2> HIDE DEF restored
  <2>4. restored.content \in Contents
    BY <2>2, SimulationsAre
  <2>5. /\ published' = restored.content /\ publication' = publication + 1
        /\ Reply(ReplacedVerdicts \o <<Snapshot(restored.content, publication + 1)>>)
        /\ UNCHANGED client
    BY <1>3, <2>3 DEF HandleLoadGame, Handles, Takes
  <2>6. Snapshot(restored.content, publication + 1) \in Newest(restored.content)
    BY DEF Newest
  <2>7. ReplacedVerdicts \in Seq(Answers)
    BY ReplacedAre
  <2>8. QED BY <2>4, <2>5, <2>6, <2>7, Replying
<1>4. CASE RefuseLoad
  <2>1. Error("INVALID_SAVE") \in Unpublished
    BY DEF Error, Unpublished, OtherResponses
  <2>2. QED BY <1>4, <2>1, Replying DEF RefuseLoad, Handles, Takes, worker
<1>5. CASE RefuseCommand
  <2>1. Head(inbox).request \in Requests
    BY <1>5, Handled, OrdersAre DEF RefuseCommand, Handles
  <2>2. Verdict(Head(inbox).request, "rejected") \in Unpublished
    BY <2>1 DEF Verdict, Verdicts, Unpublished, Answers
  <2>3. QED BY <1>5, <2>2, Replying DEF RefuseCommand, Handles, Takes, worker
<1>6. CASE HandleCommandRunning
  BY <1>6, Replying DEF HandleCommandRunning, TakesCommand, Handles, Takes
<1>7. CASE HandleCommandPaused
  <2>1. PICK d \in Decisions(Queued, sim.log), content \in Contents :
          Decide(Queued, WaitFor(Head(inbox).id, Head(inbox).request), d, content)
    BY <1>7 DEF HandleCommandPaused
  <2>2. TakesCommand /\ UNCHANGED client
    BY <1>7 DEF HandleCommandPaused, TakesCommand, Handles, Takes
  <2>3. QED BY <2>1, <2>2, Taken, DecidedIs
<1>7a. CASE HandleCommandPausedThrows
  <2>1. [type |-> "WORKER_ERROR"] \in Unpublished
    BY DEF Unpublished, OtherResponses
  <2>2. QED
    BY <1>7a, <2>1, Replying DEF HandleCommandPausedThrows, TakesCommand, Takes
<1>8. CASE HandleSetSpeed
  BY <1>8, Replying DEF HandleSetSpeed, Handles, Takes
<1>9. CASE HandlePause \/ HandleResume
  <2>1. Control("rejected") \in Unpublished /\ Control("accepted") \in Unpublished
    BY DEF Control, Unpublished, OtherResponses
  <2>2. QED BY <1>9, <2>1, Replying DEF HandlePause, HandleResume, Handles, Takes
<1>10. CASE HandleRequestDetails
  <2>1. CASE sim = None
    <3>1. Error("NOT_INITIALISED") \in Unpublished
      BY DEF Error, Unpublished, OtherResponses
    <3>2. QED BY <1>10, <2>1, <3>1, Replying DEF HandleRequestDetails, Handles, Takes
  <2>2. CASE sim # None
    <3>1. sim.content \in Contents
      BY <2>2, SimulationsAre
    <3>2. Snapshot(sim.content, publication + 1) \in Newest(sim.content)
      BY DEF Newest
    <3>3. QED BY <1>10, <2>2, <3>1, <3>2, Replying DEF HandleRequestDetails, Handles, Takes
  <2>3. QED BY <2>1, <2>2
<1>11. CASE HandleRequestSave
  <2> DEFINE data == StateOf(sim)
  <2>1. data \in Simulations /\ data.torn = sim.torn
    <3>1. sim \in Simulations
      BY <1>11 DEF HandleRequestSave
    <3>2. QED BY <3>1, StateIs
  <2>2. Reply(<<[type |-> "SAVE_DATA", data |-> data]>>)
    BY <1>11 DEF HandleRequestSave
  <2> HIDE DEF data
  <2>3. [type |-> "SAVE_DATA", data |-> data] \in Unpublished
    BY <1>11, <2>1 DEF Unpublished, SavesNow, SaveDatas, HandleRequestSave
  <2>4. QED BY <1>11, <2>2, <2>3, Replying DEF HandleRequestSave, Handles, Takes, worker
<1>12. CASE RefuseSave
  <2>1. \A code \in {"NOT_INITIALISED", "TICK_FAILED", "INVALID_SAVE"} :
          Error(code) \in Unpublished
    BY DEF Error, Unpublished, OtherResponses
  <2>2. QED BY <1>12, <2>1, Replying DEF RefuseSave, Handles, Takes, worker
<1>13. CASE Tick
  <2>1. PICK d \in Decisions(sim.queue, sim.log), content \in Contents :
          Decide(sim.queue, correlation, d, content)
    BY <1>13 DEF Tick
  <2>2. sim # None /\ UNCHANGED client
    BY <1>13 DEF Tick, Ticks
  <2>3. sim.queue \in Seq(Waits) /\ correlation \in Seq(Waits)
    BY <2>2, SimulationsAre DEF Waits
  <2>4. QED BY <2>1, <2>2, <2>3, DecidedIs
<1>14. CASE TickThrows
  <2>1. Error("TICK_FAILED") \in Unpublished
    BY DEF Error, Unpublished, OtherResponses
  <2>2. QED BY <1>14, <2>1, Replying DEF TickThrows
<1>15. QED
  BY <1>1, <1>2, <1>3, <1>4, <1>5, <1>6, <1>7, <1>8, <1>9, <1>10, <1>11, <1>12, <1>13,
     <1>14, <1>7a DEF WorkerHandles

\* The client never changes what the worker published.
LEMMA StepsReceive ==
  ASSUME TypeInv, ClientReceives \/ LoseResponse
  PROVE  /\ outbox # <<>> /\ outbox' = Tail(outbox)
         /\ Head(outbox) \in Responses /\ outbox' \in Seq(Responses)
         /\ UNCHANGED worker
<1>1. outbox \in Seq(Responses)
  BY DEF TypeInv
<1>2. outbox # <<>> /\ outbox' = Tail(outbox) /\ UNCHANGED worker
  BY DEF ClientReceives, HandleSnapshot, HandleStateDelta, Resynchronise, HandleSaveData,
     HandleOther, LoseResponse, Receives
<1>3. QED BY <1>1, <1>2, HeadTailProperties

\* A count goes up by one.
LEMMA Counted ==
  ASSUME TypeInv
  PROVE  /\ [spent EXCEPT !.inits = @ + 1] \in Counts
         /\ [spent EXCEPT !.loads = @ + 1] \in Counts
         /\ [spent EXCEPT !.controls = @ + 1] \in Counts
         /\ [spent EXCEPT !.quiet = @ + 1] \in Counts
         /\ [spent EXCEPT !.losses = @ + 1] \in Counts
         /\ [spent EXCEPT !.throws = @ + 1] \in Counts
<1>1. spent \in Counts
  BY DEF TypeInv
<1>2. [spent EXCEPT !.inits = @ + 1] \in Counts
  BY <1>1 DEF Counts
<1>3. [spent EXCEPT !.loads = @ + 1] \in Counts
  BY <1>1 DEF Counts
<1>4. [spent EXCEPT !.controls = @ + 1] \in Counts
  BY <1>1 DEF Counts
<1>5. [spent EXCEPT !.quiet = @ + 1] \in Counts
  BY <1>1 DEF Counts
<1>6. [spent EXCEPT !.losses = @ + 1] \in Counts
  BY <1>1 DEF Counts
<1>7. [spent EXCEPT !.throws = @ + 1] \in Counts
  BY <1>1 DEF Counts
<1>8. QED BY <1>2, <1>3, <1>4, <1>5, <1>6, <1>7

\* Every action keeps every variable, and every message on its way, in its type.
LEMMA TypeInvariant == Spec => []TypeInv
<1> USE ProtocolAssumption, NoneAssumption
<1>1. ASSUME Init PROVE TypeInv
  <2>1. spent \in Counts /\ fate \in Fates
    BY <1>1 DEF Init, Counts, Fates
  <2>2. sent \in 0 .. MaxRequests
    BY <1>1 DEF Init
  <2>3. inbox = <<>> /\ outbox = <<>> /\ correlation = <<>> /\ posted = <<>>
    BY <1>1 DEF Init
  <2>4. /\ inbox \in Seq(Orders) /\ outbox \in Seq(Responses)
        /\ correlation \in Seq(Waits) /\ posted \in Seq(Answers)
    BY <2>3
  <2>5. QED
    BY <1>1, <2>1, <2>2, <2>4 DEF Init, TypeInv, TypeOK, SimIsPublished, Waits, Answers
<1>2. ASSUME TypeInv, [Next]_vars PROVE TypeInv'
  <2> USE <1>2
  <2>1. ASSUME PageSends PROVE TypeInv'
    <3>1. UNCHANGED <<worker, outbox, client, saves, posted>>
      BY <2>1 DEF PageSends, SendCommand, SendInit, SendLoad, SendControl, Send, ghosts
    <3>2. \A m \in Orders : Send(m) => inbox' \in Seq(Orders)
      BY AppendProperties DEF Send, TypeInv
    <3>3. CASE \E id \in CommandIds : SendCommand(id)
      <4>1. PICK id \in CommandIds : SendCommand(id)
        BY <3>3
      <4>2. sent' = sent + 1 /\ sent + 1 \in Requests /\ spent' = spent
        BY SMTT(40), <4>1 DEF SendCommand, Requests, TypeInv, TypeOK
      <4>3. [type |-> "COMMAND", request |-> sent + 1, id |-> id] \in Orders
        BY <4>2 DEF Orders, Commands
      <4>4. inbox' \in Seq(Orders)
        BY <3>2, <4>1, <4>3 DEF SendCommand
      <4>5. fate' \in Fates
        BY <4>1, <4>2 DEF SendCommand, Fates, TypeInv, TypeOK
      <4>6. sent' \in 0 .. MaxRequests
        BY <4>2 DEF Requests
      <4>7. QED
        BY <3>1, <4>2, <4>4, <4>5, <4>6
           DEF TypeInv, TypeOK, SimIsPublished, worker, client
    <3>4. CASE SendInit
      <4>1. [type |-> "INIT_GAME"] \in Orders
        BY DEF Orders, OtherOrders
      <4>2. inbox' \in Seq(Orders)
        BY <3>2, <3>4, <4>1 DEF SendInit
      <4>3. spent' \in Counts /\ UNCHANGED <<sent, ghosts>>
        BY <3>4, Counted DEF SendInit
      <4>4. QED
        BY <3>1, <4>2, <4>3 DEF TypeInv, TypeOK, SimIsPublished, worker, client, ghosts
    <3>5. CASE \E data \in saves \cup {None} : SendLoad(data)
      <4>1. PICK data \in saves \cup {None} : SendLoad(data)
        BY <3>5
      <4>2. [type |-> "LOAD_GAME", data |-> data] \in Orders
        BY <4>1 DEF Orders, LoadGames, TypeInv, TypeOK
      <4>3. inbox' \in Seq(Orders)
        BY <3>2, <4>1, <4>2 DEF SendLoad
      <4>4. spent' \in Counts /\ UNCHANGED <<sent, ghosts>>
        BY <4>1, Counted DEF SendLoad
      <4>5. QED
        BY <3>1, <4>3, <4>4 DEF TypeInv, TypeOK, SimIsPublished, worker, client, ghosts
    <3>6. CASE \E message \in Controls : SendControl(message)
      <4>1. PICK message \in Controls : SendControl(message)
        BY <3>6
      <4>2. message \in Orders
        BY <4>1 DEF Controls, Orders, OtherOrders, SpeedChanges
      <4>3. inbox' \in Seq(Orders)
        BY <3>2, <4>1, <4>2 DEF SendControl
      <4>4. spent' \in Counts /\ UNCHANGED <<sent, ghosts>>
        BY <4>1, Counted DEF SendControl
      <4>5. QED
        BY <3>1, <4>3, <4>4 DEF TypeInv, TypeOK, SimIsPublished, worker, client, ghosts
    <3>7. QED BY <2>1, <3>3, <3>4, <3>5, <3>6 DEF PageSends
  <2>2. ASSUME WorkerHandles \/ Tick \/ TickThrows
        PROVE  /\ outbox' \in Seq(Responses)
               /\ published' \in Contents \cup {None} /\ publication' \in Nat
               /\ published # None => published' # None
               /\ UNCHANGED <<client, sent>>
    <3>1. CASE Silent
      BY <2>2, <3>1, StepsPost, Posting
         DEF Silent, TypeInv, TypeOK, WorkerHandles, HandleInitGame, HandleLoadGame,
         RefuseLoad, RefuseCommand, HandleCommandRunning, HandleCommandPaused,
         HandleCommandPausedThrows, Throws, TakesCommand,
         HandleSetSpeed, HandlePause, HandleResume, HandleRequestDetails, HandleRequestSave,
         RefuseSave, Handles, Takes, Tick, TickThrows
    <3>2. CASE Publishing
      BY <2>2, <3>2, StepsPost, Posting
         DEF WorkerHandles, HandleInitGame, HandleLoadGame,
         RefuseLoad, RefuseCommand, HandleCommandRunning, HandleCommandPaused,
         HandleCommandPausedThrows, Throws, TakesCommand,
         HandleSetSpeed, HandlePause, HandleResume, HandleRequestDetails, HandleRequestSave,
         RefuseSave, Handles, Takes, Tick, TickThrows
    <3>3. QED BY <2>2, <3>1, <3>2, StepsPost
  <2>3. ASSUME WorkerHandles
        PROVE  /\ inbox' \in Seq(Orders) /\ spent' \in Counts
               /\ UNCHANGED <<client, sent>>
    <3>1. /\ inbox # <<>> /\ inbox' = Tail(inbox)
          /\ spent' = spent \/ spent' = [spent EXCEPT !.throws = @ + 1]
          /\ UNCHANGED <<client, sent>>
      BY <2>3
       DEF WorkerHandles, HandleInitGame, HandleLoadGame,
       RefuseLoad, RefuseCommand, HandleCommandRunning, HandleCommandPaused,
         HandleCommandPausedThrows, Throws, TakesCommand,
       HandleSetSpeed, HandlePause, HandleResume, HandleRequestDetails, HandleRequestSave,
       RefuseSave, Handles, Takes
    <3>2. inbox' \in Seq(Orders)
      BY <3>1, HeadTailProperties DEF TypeInv
    <3>3. QED BY <3>1, <3>2, Counted DEF TypeInv
  <2> DEFINE Kept ==
               /\ sim' \in Simulations \cup {None}
               /\ speed' \in Speeds \cup {0}
               /\ tickFailure' \in BOOLEAN
               /\ correlation' \in Seq(Waits)
               /\ saves' \subseteq Simulations
               /\ fate' \in Fates
               /\ posted' \in Seq(Answers)
               /\ sim' # None => published' # None
  <2>4. ASSUME WorkerHandles \/ Tick \/ TickThrows, Kept,
               inbox' \in Seq(Orders), spent' \in Counts
        PROVE  TypeInv'
    BY <2>2, <2>4 DEF TypeInv, TypeOK, SimIsPublished, client, Waits, Answers
  <2>5. /\ sim \in Simulations \cup {None}
        /\ speed \in Speeds \cup {0}
        /\ tickFailure \in BOOLEAN
        /\ correlation \in Seq(Waits)
        /\ saves \subseteq Simulations
        /\ fate \in Fates
        /\ posted \in Seq(Answers)
        /\ sim # None => published # None
        /\ <<>> \in Seq(Waits)
    BY DEF TypeInv, TypeOK, Waits, Answers, SimIsPublished
  <2>6. CASE HandleInitGame
    <3>1. PICK content \in Contents : sim' = Fresh(content) /\ published' = content
      BY <2>6 DEF HandleInitGame
    <3>2. Kept
      BY <2>5, <2>6, <3>1, Started DEF HandleInitGame, ghosts
    <3> HIDE DEF Kept
    <3>3. QED BY <2>3, <2>4, <2>6, <3>2 DEF WorkerHandles, TypeInv
  <2>7. CASE HandleLoadGame
    <3> DEFINE restored == StateOf(Head(inbox).data)
    <3>1. Head(inbox).data \in Simulations
      BY <2>7, Handled, OrdersAre DEF HandleLoadGame, Handles
    <3>2. restored \in Simulations
      BY <3>1, StateIs
    <3>3. sim' = restored
      BY <2>7 DEF HandleLoadGame
    <3> HIDE DEF restored
    <3>4. published' \in Contents /\ published' # None
      <4>1. published' = restored.content
        BY <2>7, <3>3 DEF HandleLoadGame
      <4>2. QED BY <3>2, <4>1, SimulationsAre
    <3>5. posted' \in Seq(Answers)
      BY <2>5, <2>7, ReplacedAre, ConcatProperties DEF HandleLoadGame, Post
    <3>6. Kept
      BY <2>5, <2>7, <3>2, <3>3, <3>4, <3>5 DEF HandleLoadGame
    <3> HIDE DEF Kept
    <3>7. QED BY <2>3, <2>4, <2>7, <3>6 DEF WorkerHandles, TypeInv
  <2>8. CASE RefuseLoad \/ HandleRequestSave \/ RefuseSave
    <3>1. Kept
      BY <2>5, <2>8 DEF RefuseLoad, HandleRequestSave, RefuseSave, worker, ghosts
    <3> HIDE DEF Kept
    <3>2. QED BY <2>3, <2>4, <2>8, <3>1 DEF WorkerHandles, TypeInv
  <2>9. CASE RefuseCommand
    <3>1. Head(inbox).request \in Requests
      BY <2>9, Handled, OrdersAre DEF RefuseCommand, Handles
    <3>2. fate' \in Fates
      BY <2>5, <2>9, <3>1 DEF RefuseCommand, Fates
    <3>3. <<Verdict(Head(inbox).request, "rejected")>> \in Seq(Answers)
      <4>1. Verdict(Head(inbox).request, "rejected") \in Answers
        BY <3>1 DEF Verdict, Verdicts, Answers
      <4>2. QED BY <4>1
    <3>4. posted' \in Seq(Answers)
      BY <2>5, <2>9, <3>3, ConcatProperties DEF RefuseCommand, Post
    <3>5. Kept
      BY <2>5, <2>9, <3>2, <3>4 DEF RefuseCommand, worker
    <3> HIDE DEF Kept
    <3>6. QED BY <2>3, <2>4, <2>9, <3>5 DEF WorkerHandles, TypeInv
  <2>10. CASE HandleCommandRunning
    <3>1. TakesCommand
      BY <2>10 DEF HandleCommandRunning
    <3>2. [sim EXCEPT !.queue = Queued] \in Simulations
      BY <3>1, Taken, QueueChanged
    <3>3. fate' \in Fates
      BY <2>5, <2>10, <3>1, Taken DEF HandleCommandRunning, Fates
    <3>4. correlation' \in Seq(Waits)
      BY <2>10, <3>1, Taken DEF HandleCommandRunning
    <3>5. sim' \in Simulations /\ published' = published /\ sim # None
      BY <2>10, <3>1, <3>2, Taken DEF HandleCommandRunning
    <3>6. Kept
      BY <2>5, <2>10, <3>3, <3>4, <3>5 DEF HandleCommandRunning
    <3> HIDE DEF Kept
    <3>7. QED BY <2>3, <2>4, <2>10, <3>6 DEF WorkerHandles, TypeInv
  <2>11. CASE HandleCommandPaused
    <3>1. PICK d \in Decisions(Queued, sim.log), content \in Contents :
            Decide(Queued, WaitFor(Head(inbox).id, Head(inbox).request), d, content)
      BY <2>11 DEF HandleCommandPaused
    <3>2. /\ sim' \in Simulations /\ correlation' \in Seq(Waits) /\ posted' \in Seq(Answers)
          /\ published' \in Contents /\ fate' \in Fates
      BY <2>11, <3>1, Taken, DecidedIs DEF HandleCommandPaused
    <3>3. Kept
      BY <2>5, <2>11, <3>2 DEF HandleCommandPaused
    <3> HIDE DEF Kept
    <3>4. QED BY <2>3, <2>4, <2>11, <3>3 DEF WorkerHandles, TypeInv
  <2>11a. CASE HandleCommandPausedThrows
    <3>1. /\ TakesCommand /\ Throws(Queued, "paused")
          /\ correlation' = WaitFor(Head(inbox).id, Head(inbox).request)
          /\ UNCHANGED <<speed, tickFailure, published, saves, posted>>
      BY <2>11a DEF HandleCommandPausedThrows
    <3>2. sim # None /\ Queued \in Seq(Waits) /\ correlation' \in Seq(Waits)
      BY <3>1, Taken
    <3>3. sim' \in Simulations /\ fate' \in Fates
      BY <3>1, <3>2, ThrownIs
    <3>4. Kept
      BY <2>5, <3>1, <3>2, <3>3
    <3> HIDE DEF Kept
    <3>5. QED BY <2>3, <2>4, <2>11a, <3>4 DEF WorkerHandles, TypeInv
  <2>12. CASE HandleSetSpeed
    <3>1. Head(inbox).speed \in Speeds \cup {0}
      BY <2>12, Handled, OrdersAre DEF HandleSetSpeed, Handles
    <3>2. Kept
      BY <2>5, <2>12, <3>1 DEF HandleSetSpeed, ghosts
    <3> HIDE DEF Kept
    <3>3. QED BY <2>3, <2>4, <2>12, <3>2 DEF WorkerHandles, TypeInv
  <2>13. CASE HandlePause \/ HandleResume
    <3>1. Kept
      BY <2>5, <2>13 DEF HandlePause, HandleResume, ghosts
    <3> HIDE DEF Kept
    <3>2. QED BY <2>3, <2>4, <2>13, <3>1 DEF WorkerHandles, TypeInv
  <2>14. CASE HandleRequestDetails
    <3>1. Kept
      BY <2>2, <2>5, <2>14 DEF HandleRequestDetails, WorkerHandles, ghosts
    <3> HIDE DEF Kept
    <3>2. QED BY <2>3, <2>4, <2>14, <3>1 DEF WorkerHandles, TypeInv
  <2>15. CASE Tick
    <3>1. PICK d \in Decisions(sim.queue, sim.log), content \in Contents :
            Decide(sim.queue, correlation, d, content)
      BY <2>15 DEF Tick
    <3>2. sim # None /\ sim.queue \in Seq(Waits)
      BY <2>5, <2>15, SimulationsAre DEF Tick, Ticks
    <3>3. /\ sim' \in Simulations /\ correlation' \in Seq(Waits) /\ posted' \in Seq(Answers)
          /\ published' \in Contents /\ fate' \in Fates
      BY <2>5, <3>1, <3>2, DecidedIs
    <3>4. Kept
      BY <2>5, <2>15, <3>3 DEF Tick
    <3>5. inbox' \in Seq(Orders) /\ spent' \in Counts
      BY <2>15, Counted DEF Tick, TypeInv
    <3> HIDE DEF Kept
    <3>6. QED BY <2>4, <2>15, <3>4, <3>5
  <2>16. CASE TickThrows
    <3>1. Throws(sim.queue, "tick") /\ sim # None /\ sim.queue \in Seq(Waits)
      BY <2>5, <2>16, SimulationsAre DEF TickThrows, Ticks
    <3>2. /\ sim' \in Simulations /\ fate' \in Fates
          /\ spent' = [spent EXCEPT !.throws = @ + 1]
      BY <3>1, ThrownIs
    <3>3. Kept
      BY <2>5, <2>16, <3>1, <3>2 DEF TickThrows
    <3>4. inbox' \in Seq(Orders) /\ spent' \in Counts
      BY <2>16, <3>2, Counted DEF TickThrows, TypeInv
    <3> HIDE DEF Kept
    <3>5. QED BY <2>4, <2>16, <3>3, <3>4
  <2>17. ASSUME ClientReceives \/ LoseResponse PROVE TypeInv'
    <3>1. Head(outbox) \in Responses /\ outbox' \in Seq(Responses) /\ UNCHANGED worker
      BY <2>17, StepsReceive
    <3>2. CASE HandleSnapshot
      <4>1. Head(outbox).whole \in Contents /\ Head(outbox).publication \in Nat
        BY <3>1, <3>2, ResponsesAre DEF HandleSnapshot, Receives, Publishes
      <4>2. QED
        BY <3>1, <3>2, <4>1
           DEF HandleSnapshot, Receives, TypeInv, TypeOK, SimIsPublished, worker, ghosts
    <3>3. CASE HandleStateDelta
      <4>1. /\ Head(outbox).whole \in Contents /\ Head(outbox).publication \in Nat
            /\ Head(outbox).delta \in Deltas
        BY <3>1, <3>3, ResponsesAre DEF HandleStateDelta, Receives, Publishes
      <4>2. held \in Contents
        BY <3>3 DEF HandleStateDelta, Follows, TypeInv, TypeOK
      <4>3. held' \in Contents
        BY <3>3, <4>1, <4>2, AppliedIsContent DEF HandleStateDelta
      <4>4. QED
        BY <3>1, <3>3, <4>1, <4>3
           DEF HandleStateDelta, Receives, TypeInv, TypeOK, SimIsPublished, worker, ghosts
    <3>4. CASE Resynchronise
      <4>1. [type |-> "REQUEST_DETAILS"] \in Orders
        BY DEF Orders, OtherOrders
      <4>2. inbox' \in Seq(Orders)
        BY <3>4, <4>1, AppendProperties DEF Resynchronise, TypeInv
      <4>3. QED
        BY <3>1, <3>4, <4>2
           DEF Resynchronise, Receives, TypeInv, TypeOK, SimIsPublished, worker, ghosts
    <3>5. CASE HandleSaveData
      <4>1. Head(outbox).data \in Simulations
        BY <3>1, <3>5, ResponsesAre DEF HandleSaveData, Receives
      <4>2. QED
        BY <3>1, <3>5, <4>1
           DEF HandleSaveData, Receives, TypeInv, TypeOK, SimIsPublished, worker, client, ghosts
    <3>6. CASE HandleOther
      BY <3>1, <3>6
         DEF HandleOther, Receives, TypeInv, TypeOK, SimIsPublished, worker, client, ghosts
    <3>7. CASE LoseResponse
      <4>1. spent' \in Counts
        BY <3>7, Counted DEF LoseResponse
      <4>2. QED
        BY <3>1, <3>7, <4>1
           DEF LoseResponse, TypeInv, TypeOK, SimIsPublished, worker, ghosts
    <3>8. QED BY <2>17, <3>2, <3>3, <3>4, <3>5, <3>6, <3>7 DEF ClientReceives
  <2>18. CASE UNCHANGED vars
    BY <2>18 DEF vars, worker, client, page, ghosts, TypeInv, TypeOK, SimIsPublished
  <2>19. QED
    BY <2>1, <2>6, <2>7, <2>8, <2>9, <2>10, <2>11, <2>12, <2>13, <2>14, <2>15, <2>16,
       <2>17, <2>18, <2>11a DEF Next, WorkerHandles
<1>3. QED BY <1>1, <1>2, PTL DEF Spec

-----------------------------------------------------------------------------
\* Messages that publish nothing do not disturb the chain.
LEMMA ChainSilent ==
  ASSUME NEW out \in Seq(Responses), NEW others \in Seq(Unpublished), NEW number, NEW content,
         Chain(out, number, content)
  PROVE  Chain(out \o others, number, content)
<1> DEFINE u == out \o others
<1>1. /\ Len(u) \in Nat /\ Len(out) \in Nat
      /\ \A i \in 1 .. Len(u) :
           \/ i \in 1 .. Len(out) /\ u[i] = out[i]
           \/ ~Publishes(u[i])
  <2>1. Unpublished \subseteq Responses
    BY DEF Unpublished, SavesNow, Responses
  <2>2. others \in Seq(Responses)
    BY <2>1, SeqMonotonic
  <2>3. /\ Len(u) = Len(out) + Len(others) /\ Len(out) \in Nat /\ Len(others) \in Nat
        /\ \A i \in 1 .. Len(out) + Len(others) :
             u[i] = IF i <= Len(out) THEN out[i] ELSE others[i - Len(out)]
    BY <2>2, ConcatProperties, LenProperties
  <2> HIDE DEF u
  <2>4. \A i \in 1 .. Len(others) : ~Publishes(others[i])
    <3>1. SUFFICES ASSUME NEW i \in 1 .. Len(others) PROVE ~Publishes(others[i])
      OBVIOUS
    <3>2. others[i] \in Unpublished
      OBVIOUS
    <3>3. QED
      BY <3>2 DEF Unpublished, SavesNow, SaveDatas, Answers, OtherResponses, Publishes
  <2>5. SUFFICES ASSUME NEW i \in 1 .. Len(u)
                 PROVE  \/ i \in 1 .. Len(out) /\ u[i] = out[i]
                        \/ ~Publishes(u[i])
    BY <2>3
  <2>6. CASE i <= Len(out)
    BY <2>3, <2>6
  <2>7. CASE i > Len(out)
    <3>1. i - Len(out) \in 1 .. Len(others) /\ ~(i <= Len(out)) /\ i \in 1 .. Len(out) + Len(others)
      BY <2>3, <2>7
    <3>2. u[i] = others[i - Len(out)]
      BY <2>3, <3>1
    <3>3. QED BY <2>4, <3>1, <3>2
  <2>8. QED BY <2>3, <2>6, <2>7
<1> HIDE DEF u
<1>2. \A i \in 1 .. Len(u) : u[i].type = "STATE_DELTA" => Publishes(u[i])
  BY DEF Publishes
<1>3. NumbersRise(u) /\ NumbersLie(u, heldPublication, number) /\ NewestIs(u, number, content)
  BY <1>1 DEF Chain, NumbersRise, NumbersLie, NewestIs
<1>4. DeltasFollow(u)
  BY SMTT(40), <1>1, <1>2 DEF Chain, DeltasFollow, Based
<1>5. HeldFits(u, number, content)
  BY <1>1, <1>2 DEF Chain, HeldFits, Based
<1>6. QED BY <1>3, <1>4, <1>5 DEF Chain, u

\* A publication is the next link: its number is new, and a delta is based on the last.
LEMMA ChainGrows ==
  ASSUME TypeInv, NEW out \in Seq(Responses), Chain(out, publication, published),
         NEW content \in Contents, NEW p \in Newest(content)
  PROVE  Chain(Append(out, p), publication + 1, content)
<1> DEFINE u == Append(out, p)
           number == publication + 1
<1>1. publication \in Nat /\ heldPublication \in Nat
  BY DEF TypeInv, TypeOK
<1>2. /\ p \in Responses /\ Publishes(p) /\ p.publication = number /\ p.whole = content
      /\ Based(p, publication, published)
      /\ p.type = "STATE_DELTA" => p.base = publication
  BY NewestAre
<1>3. /\ Len(out) \in Nat /\ Len(u) = Len(out) + 1
      /\ \A i \in 1 .. Len(out) : u[i] = out[i]
      /\ u[Len(out) + 1] = p
  BY <1>2, AppendProperties, LenProperties
<1> HIDE DEF u
<1>4. \A i \in 1 .. Len(u) :
        \/ i \in 1 .. Len(out) /\ u[i] = out[i]
        \/ i = Len(out) + 1 /\ u[i] = p
  BY <1>3
<1>5. \A i \in 1 .. Len(out) :
        Publishes(out[i]) =>
          /\ out[i].publication \in Nat /\ out[i].publication <= publication
          /\ heldPublication < out[i].publication
          /\ out[i].publication = publication => out[i].whole = published
  <2>1. \A i \in 1 .. Len(out) : out[i] \in Responses
    OBVIOUS
  <2>2. QED BY <2>1, ResponsesAre DEF Chain, NumbersLie, NewestIs
<1>6. \A i \in 1 .. Len(out) : out[i].type = "STATE_DELTA" =>
        /\ out[i].base \in Nat /\ out[i].base < publication
  <2>1. SUFFICES ASSUME NEW i \in 1 .. Len(out), out[i].type = "STATE_DELTA"
                 PROVE  out[i].base \in Nat /\ out[i].base < publication
    OBVIOUS
  <2>2. out[i].base \in Nat /\ Publishes(out[i])
    <3>1. out[i] \in Responses
      OBVIOUS
    <3>2. QED BY <2>1, <3>1, ResponsesAre DEF Publishes
  <2>3. out[i].base < out[i].publication
    BY <2>1 DEF Chain, DeltasFollow
  <2>4. QED BY <1>1, <1>5, <2>2, <2>3
<1>7. heldPublication <= publication
  BY DEF Chain, NumbersLie
<1>8. NumbersRise(u)
  <2>1. SUFFICES ASSUME NEW i \in 1 .. Len(u), NEW j \in 1 .. Len(u), i < j,
                        Publishes(u[i]), Publishes(u[j])
                 PROVE  u[i].publication < u[j].publication
    BY DEF NumbersRise
  <2>2. i \in 1 .. Len(out) /\ u[i] = out[i]
    BY <1>3, <1>4, <2>1
  <2>3. CASE j \in 1 .. Len(out) /\ u[j] = out[j]
    BY <2>1, <2>2, <2>3 DEF Chain, NumbersRise
  <2>4. CASE u[j] = p
    BY <1>1, <1>2, <1>5, <2>1, <2>2, <2>4
  <2>5. QED BY <1>4, <2>3, <2>4
<1>9. NumbersLie(u, heldPublication, number)
  <2>1. \A i \in 1 .. Len(u) : Publishes(u[i]) =>
          heldPublication < u[i].publication /\ u[i].publication <= number
    <3>1. SUFFICES ASSUME NEW i \in 1 .. Len(u), Publishes(u[i])
                   PROVE  heldPublication < u[i].publication /\ u[i].publication <= number
      OBVIOUS
    <3>2. CASE i \in 1 .. Len(out) /\ u[i] = out[i]
      BY <1>1, <1>5, <3>1, <3>2
    <3>3. CASE u[i] = p
      BY <1>1, <1>2, <1>7, <3>3
    <3>4. QED BY <1>4, <3>2, <3>3
  <2>2. heldPublication <= number
    BY <1>1, <1>7
  <2>3. QED BY <2>1, <2>2 DEF NumbersLie
<1>10. NewestIs(u, number, content)
  <2>1. SUFFICES ASSUME NEW i \in 1 .. Len(u), Publishes(u[i]), u[i].publication = number
                 PROVE  u[i].whole = content
    BY DEF NewestIs
  <2>2. CASE i \in 1 .. Len(out) /\ u[i] = out[i]
    BY <1>1, <1>5, <2>1, <2>2
  <2>3. CASE u[i] = p
    BY <1>2, <2>3
  <2>4. QED BY <1>4, <2>2, <2>3
<1>11. DeltasFollow(u)
  <2>1. \A j \in 1 .. Len(u) : u[j].type = "STATE_DELTA" => u[j].base < u[j].publication
    <3>1. SUFFICES ASSUME NEW j \in 1 .. Len(u), u[j].type = "STATE_DELTA"
                   PROVE  u[j].base < u[j].publication
      OBVIOUS
    <3>2. CASE j \in 1 .. Len(out) /\ u[j] = out[j]
      BY <3>1, <3>2 DEF Chain, DeltasFollow
    <3>3. CASE u[j] = p
      BY <1>1, <1>2, <3>1, <3>3
    <3>4. QED BY <1>4, <3>2, <3>3
  <2>2. \A i, j \in 1 .. Len(u) :
          Publishes(u[i]) => Based(u[j], u[i].publication, u[i].whole)
    <3>1. SUFFICES ASSUME NEW i \in 1 .. Len(u), NEW j \in 1 .. Len(u), Publishes(u[i]),
                          u[j].type = "STATE_DELTA", u[j].base = u[i].publication
                   PROVE  u[j].delta = StateDelta(u[i].whole, u[j].whole)
      BY DEF Based
    <3>2. CASE i \in 1 .. Len(out) /\ u[i] = out[i]
      <4>1. CASE j \in 1 .. Len(out) /\ u[j] = out[j]
        BY <3>1, <3>2, <4>1 DEF Chain, DeltasFollow, Based
      <4>2. CASE u[j] = p
        <5>1. out[i].publication = publication /\ out[i].whole = published
          BY <1>2, <1>5, <3>1, <3>2, <4>2
        <5>2. QED BY <1>2, <3>1, <3>2, <4>2, <5>1 DEF Based
      <4>3. QED BY <1>4, <4>1, <4>2
    <3>3. CASE u[i] = p
      <4>1. CASE j \in 1 .. Len(out) /\ u[j] = out[j]
        BY <1>1, <1>2, <1>6, <3>1, <3>3, <4>1
      <4>2. CASE u[j] = p
        BY <1>1, <1>2, <3>1, <3>3, <4>2
      <4>3. QED BY <1>4, <4>1, <4>2
    <3>4. QED BY <1>4, <3>2, <3>3
  <2>3. QED BY <2>1, <2>2 DEF DeltasFollow
<1>12. HeldFits(u, number, content)
  <2>1. SUFFICES ASSUME held # None PROVE HeldFits(u, number, content)
    BY DEF HeldFits
  <2>2. heldPublication # number
    BY <1>1, <1>7
  <2>3. \A j \in 1 .. Len(u) : Based(u[j], heldPublication, held)
    <3>1. SUFFICES ASSUME NEW j \in 1 .. Len(u) PROVE Based(u[j], heldPublication, held)
      OBVIOUS
    <3>2. CASE j \in 1 .. Len(out) /\ u[j] = out[j]
      BY <2>1, <3>2 DEF Chain, HeldFits
    <3>3. CASE u[j] = p
      <4>1. heldPublication = publication => held = published
        BY <2>1 DEF Chain, HeldFits
      <4>2. QED BY <1>2, <3>3, <4>1 DEF Based
    <3>4. QED BY <1>4, <3>2, <3>3
  <2>4. QED BY <2>2, <2>3 DEF HeldFits
<1>13. QED BY <1>8, <1>9, <1>10, <1>11, <1>12 DEF Chain, u

\* A message taken off the chain: the rest is still one, from whatever is held then.
LEMMA ChainShortens ==
  ASSUME TypeInv, outbox # <<>>, Chain(outbox, publication, published)
  PROVE  LET rest == Tail(outbox)
             first == Head(outbox)
         IN  /\ Chain(rest, publication, published)
             /\ Publishes(first) =>
                  /\ NumbersRise(rest) /\ NumbersLie(rest, first.publication, publication)
                  /\ NewestIs(rest, publication, published) /\ DeltasFollow(rest)
                  /\ first.publication = publication => first.whole = published
                  /\ \A j \in 1 .. Len(rest) : Based(rest[j], first.publication, first.whole)
<1> DEFINE rest == Tail(outbox)
           first == Head(outbox)
<1>1. outbox \in Seq(Responses) /\ publication \in Nat
  BY DEF TypeInv, TypeOK
<1>2. /\ Len(outbox) \in Nat /\ Len(rest) \in Nat /\ Len(rest) = Len(outbox) - 1
      /\ \A i \in 1 .. Len(rest) : rest[i] = outbox[i + 1]
      /\ first = outbox[1] /\ Len(outbox) >= 1
  BY <1>1, HeadTailProperties, LenProperties
<1> HIDE DEF rest, first
<1>3. \A i \in 1 .. Len(rest) : i + 1 \in 1 .. Len(outbox) /\ 1 < i + 1
  BY <1>2
<1>4. NumbersRise(rest)
  <2>1. SUFFICES ASSUME NEW i \in 1 .. Len(rest), NEW j \in 1 .. Len(rest), i < j,
                        Publishes(rest[i]), Publishes(rest[j])
                 PROVE  rest[i].publication < rest[j].publication
    BY DEF NumbersRise
  <2>2. i + 1 \in 1 .. Len(outbox) /\ j + 1 \in 1 .. Len(outbox) /\ i + 1 < j + 1
    BY <1>3, <2>1
  <2>3. rest[i] = outbox[i + 1] /\ rest[j] = outbox[j + 1]
    BY <1>2
  <2>4. QED BY <2>1, <2>2, <2>3 DEF Chain, NumbersRise
<1>5. NumbersLie(rest, heldPublication, publication)
  BY <1>2, <1>3 DEF Chain, NumbersLie
<1>6. NewestIs(rest, publication, published)
  BY <1>2, <1>3 DEF Chain, NewestIs
<1>7. DeltasFollow(rest)
  <2>1. \A j \in 1 .. Len(rest) :
          rest[j].type = "STATE_DELTA" => rest[j].base < rest[j].publication
    BY <1>2, <1>3 DEF Chain, DeltasFollow
  <2>2. ASSUME NEW i \in 1 .. Len(rest), NEW j \in 1 .. Len(rest), Publishes(rest[i])
        PROVE  Based(rest[j], rest[i].publication, rest[i].whole)
    <3>1. i + 1 \in 1 .. Len(outbox) /\ j + 1 \in 1 .. Len(outbox)
      BY <1>3
    <3>2. rest[i] = outbox[i + 1] /\ rest[j] = outbox[j + 1]
      BY <1>2
    <3>3. QED BY <2>2, <3>1, <3>2 DEF Chain, DeltasFollow
  <2>3. QED BY <2>1, <2>2 DEF DeltasFollow
<1>8. HeldFits(rest, publication, published)
  BY <1>2, <1>3 DEF Chain, HeldFits
<1>9. ASSUME Publishes(first)
      PROVE  /\ NumbersLie(rest, first.publication, publication)
             /\ first.publication = publication => first.whole = published
             /\ \A j \in 1 .. Len(rest) : Based(rest[j], first.publication, first.whole)
  <2>1. 1 \in 1 .. Len(outbox)
    BY <1>2
  <2>2. first.publication <= publication
    BY <1>2, <1>9, <2>1 DEF Chain, NumbersLie
  <2>3. ASSUME NEW i \in 1 .. Len(rest), Publishes(rest[i])
        PROVE  first.publication < rest[i].publication /\ rest[i].publication <= publication
    <3>1. i + 1 \in 1 .. Len(outbox) /\ 1 < i + 1 /\ rest[i] = outbox[i + 1]
      BY <1>2, <1>3
    <3>2. first.publication < outbox[i + 1].publication
      BY <1>2, <1>9, <2>1, <2>3, <3>1 DEF Chain, NumbersRise
    <3>3. outbox[i + 1].publication <= publication
      BY <2>3, <3>1 DEF Chain, NumbersLie
    <3>4. QED BY <3>1, <3>2, <3>3
  <2>4. first.publication = publication => first.whole = published
    BY <1>2, <1>9, <2>1 DEF Chain, NewestIs
  <2>5. ASSUME NEW j \in 1 .. Len(rest)
        PROVE  Based(rest[j], first.publication, first.whole)
    <3>1. j + 1 \in 1 .. Len(outbox) /\ rest[j] = outbox[j + 1]
      BY <1>2, <1>3
    <3>2. QED BY <1>2, <1>9, <2>1, <3>1 DEF Chain, DeltasFollow
  <2>6. QED BY <2>2, <2>3, <2>4, <2>5 DEF NumbersLie
<1>10. QED BY <1>4, <1>5, <1>6, <1>7, <1>8, <1>9 DEF Chain, rest, first

\* The chain holds from the first publication on, through every loss and every restart.
LEMMA ChainInvariant == Spec => []ChainInv
<1>1. ASSUME Init PROVE ChainInv
  <2>1. /\ Len(outbox) = 0 /\ publication = 0 /\ heldPublication = 0 /\ held = None /\ truth = None
    BY <1>1 DEF Init
  <2>2. 1 .. Len(outbox) = {}
    BY <2>1
  <2>3. QED
    BY <2>1, <2>2 DEF ChainInv, HeldIsPublished, Chain, NumbersRise, NumbersLie, NewestIs,
       DeltasFollow, HeldFits
<1>2. ASSUME TypeInv, TypeInv', ChainInv, [Next]_vars PROVE ChainInv'
  <2> USE <1>2
  <2>1. outbox \in Seq(Responses) /\ publication \in Nat
    BY DEF TypeInv, TypeOK
  <2>2. Chain(outbox, publication, published) /\ held = truth
    BY DEF ChainInv, HeldIsPublished
  <2>3. ASSUME PageSends \/ WorkerHandles \/ Tick \/ TickThrows PROVE ChainInv'
    <3>1. UNCHANGED <<held, heldPublication, truth>>
      BY <2>3, StepsPost DEF client
    <3>2. CASE Silent
      <4>1. PICK others \in Seq(Unpublished) : outbox' = outbox \o others
        BY <3>2 DEF Silent
      <4>2. Chain(outbox', publication', published')
        BY <2>1, <2>2, <3>2, <4>1, ChainSilent DEF Silent
      <4>3. QED
        BY <2>2, <3>1, <4>2 DEF ChainInv, Chain, HeldFits, HeldIsPublished
    <3>3. CASE Publishing
      <4>1. PICK answers \in Seq(Answers), content \in Contents :
              /\ \E p \in Newest(content) : outbox' = Append(outbox \o answers, p)
              /\ published' = content
              /\ publication' = publication + 1
        BY <3>3 DEF Publishing
      <4>2. PICK p \in Newest(content) : outbox' = Append(outbox \o answers, p)
        BY <4>1
      <4>3. answers \in Seq(Unpublished)
        <5>1. Answers \subseteq Unpublished
          BY DEF Unpublished
        <5>2. QED BY <5>1, SeqMonotonic
      <4>4. Chain(outbox \o answers, publication, published)
        BY <2>1, <2>2, <4>3, ChainSilent
      <4>5. outbox \o answers \in Seq(Responses)
        <5>1. Answers \subseteq Responses
          BY DEF Responses
        <5>2. answers \in Seq(Responses)
          BY <5>1, SeqMonotonic
        <5>3. QED BY <2>1, <5>2, ConcatProperties
      <4>6. Chain(outbox', publication', published')
        BY <4>1, <4>2, <4>4, <4>5, ChainGrows
      <4>7. QED
        BY <2>2, <3>1, <4>6 DEF ChainInv, Chain, HeldFits, HeldIsPublished
    <3>4. QED BY <2>3, <3>2, <3>3, StepsPost
  <2>4. ASSUME ClientReceives \/ LoseResponse PROVE ChainInv'
    <3> DEFINE rest == Tail(outbox)
               first == Head(outbox)
    <3>1. /\ outbox # <<>> /\ outbox' = rest /\ first \in Responses
          /\ UNCHANGED <<publication, published>>
      BY <2>4, StepsReceive DEF worker
    <3>2. /\ Chain(rest, publication, published)
          /\ Publishes(first) =>
               /\ NumbersRise(rest) /\ NumbersLie(rest, first.publication, publication)
               /\ NewestIs(rest, publication, published) /\ DeltasFollow(rest)
               /\ first.publication = publication => first.whole = published
               /\ \A j \in 1 .. Len(rest) : Based(rest[j], first.publication, first.whole)
      BY <2>2, <3>1, ChainShortens
    <3> HIDE DEF rest, first
    <3>3. ASSUME Publishes(first), held' = first.whole, truth' = first.whole,
                 heldPublication' = first.publication
          PROVE  ChainInv'
      <4>1. /\ heldPublication' = publication' => held' = published'
            /\ \A j \in 1 .. Len(outbox') : Based(outbox'[j], heldPublication', held')
            /\ NumbersLie(outbox', heldPublication', publication')
        BY <3>1, <3>2, <3>3
      <4>2. QED
        BY <3>1, <3>2, <3>3, <4>1 DEF ChainInv, Chain, HeldFits, HeldIsPublished
    <3>4. CASE HandleSnapshot
      BY <3>3, <3>4 DEF HandleSnapshot, Receives, Publishes, first
    <3>5. CASE HandleStateDelta
      <4>1. /\ held # None /\ first.base = heldPublication /\ first.type = "STATE_DELTA"
            /\ held' = ApplyStateDelta(held, first.delta)
            /\ heldPublication' = first.publication /\ truth' = first.whole
        BY <3>5 DEF HandleStateDelta, Receives, Follows, first
      <4>2. Based(first, heldPublication, held)
        <5>1. 1 \in 1 .. Len(outbox) /\ first = outbox[1]
          BY <2>1, <3>1 DEF first
        <5>2. QED BY <2>2, <4>1, <5>1 DEF Chain, HeldFits
      <4>3. first.delta = StateDelta(held, first.whole)
        BY <4>1, <4>2 DEF Based
      <4>4. held \in Contents /\ first.whole \in Contents /\ Publishes(first)
        BY <3>1, <4>1, ResponsesAre DEF TypeInv, TypeOK, Publishes
      <4>5. held' = first.whole
        BY <4>1, <4>3, <4>4, DeltaApplies
      <4>6. QED BY <3>3, <4>1, <4>4, <4>5
    <3>6. CASE Resynchronise \/ HandleSaveData \/ HandleOther \/ LoseResponse
      <4>1. UNCHANGED <<held, heldPublication, truth>>
        BY <3>6 DEF Resynchronise, HandleSaveData, HandleOther, LoseResponse, client
      <4>2. QED
        BY <2>2, <3>1, <3>2, <4>1 DEF ChainInv, Chain, HeldFits, HeldIsPublished
    <3>7. QED BY <2>4, <3>4, <3>5, <3>6 DEF ClientReceives
  <2>5. CASE UNCHANGED vars
    BY <2>2, <2>5
       DEF vars, worker, client, ChainInv, Chain, HeldFits, HeldIsPublished
  <2>6. QED BY <2>3, <2>4, <2>5 DEF Next
<1>3. QED BY <1>1, <1>2, TypeInvariant, PTL DEF Spec

\* The page draws a game the worker published, whole: whatever was lost, resynchronised,
\* restarted or loaded, a delta is only ever applied to what it was computed from.
THEOREM HeldWasPublished == Spec => []HeldIsPublished
<1>1. ChainInv => HeldIsPublished
  BY DEF ChainInv
<1>2. QED BY <1>1, ChainInvariant, PTL

-----------------------------------------------------------------------------
\* What a quantum that threw has left is never saved, held by the page or restored.
LEMMA SaveInvariant == Spec => []SaveInv
<1>1. ASSUME Init PROVE SaveInv
  <2>1. /\ inbox = <<>> /\ outbox = <<>> /\ sim = None /\ ~tickFailure /\ saves = {}
    BY <1>1 DEF Init
  <2>2. inbox \in Seq(WholeOrders) /\ outbox \in Seq(WholeResponses)
    BY <2>1
  <2>3. QED BY <2>1, <2>2 DEF SaveInv, HaltedStands, RunningIsWhole
<1>2. ASSUME TypeInv, TypeInv', SaveInv, [Next]_vars PROVE SaveInv'
  <2> USE <1>2
  <2>1. /\ HaltedStands /\ RunningIsWhole
        /\ \A data \in saves : data.torn # "tick"
        /\ inbox \in Seq(WholeOrders) /\ outbox \in Seq(WholeResponses)
    BY DEF SaveInv
  <2>2. ASSUME PageSends \/ WorkerHandles \/ Tick \/ TickThrows
        PROVE  outbox' \in Seq(WholeResponses)
    <3>1. Answers \subseteq WholeResponses
      BY DEF Answers, WholeResponses, Responses
    <3>2. CASE Silent
      <4>1. Unpublished \subseteq WholeResponses
        <5>1. OtherResponses \subseteq WholeResponses
          BY DEF OtherResponses, WholeResponses, Responses
        <5>2. SavesNow \subseteq WholeResponses
          BY <2>1 DEF SavesNow, SaveDatas, RunningIsWhole, WholeResponses, Responses
        <5>3. QED BY <3>1, <5>1, <5>2 DEF Unpublished
      <4>2. PICK others \in Seq(Unpublished) : outbox' = outbox \o others
        BY <3>2 DEF Silent
      <4>3. others \in Seq(WholeResponses)
        BY <4>1, SeqMonotonic
      <4>4. QED BY <2>1, <4>2, <4>3, ConcatProperties
    <3>3. CASE Publishing
      <4>1. PICK answers \in Seq(Answers), content \in Contents :
              \E p \in Newest(content) : outbox' = Append(outbox \o answers, p)
        BY <3>3 DEF Publishing
      <4>2. PICK p \in Newest(content) : outbox' = Append(outbox \o answers, p)
        BY <4>1
      <4>3. answers \in Seq(WholeResponses)
        BY <3>1, SeqMonotonic
      <4>4. p \in WholeResponses
        BY NewestAre DEF WholeResponses, Publishes
      <4>5. outbox \o answers \in Seq(WholeResponses)
        BY <2>1, <4>3, ConcatProperties
      <4>6. QED BY <4>2, <4>4, <4>5, AppendProperties
    <3>4. QED BY <2>2, <3>2, <3>3, StepsPost
  <2>3. ASSUME PageSends PROVE SaveInv'
    <3>1. UNCHANGED <<speed, tickFailure, sim, saves>>
      BY <2>3 DEF PageSends, SendCommand, SendInit, SendLoad, SendControl, Send, worker
    <3>2. PICK m \in Orders :
            /\ Send(m)
            /\ m.type = "LOAD_GAME" => m.data \in saves \cup {None}
      <4>1. CASE \E id \in CommandIds : SendCommand(id)
        <5>1. PICK id \in CommandIds : SendCommand(id)
          BY <4>1
        <5>2. [type |-> "COMMAND", request |-> sent + 1, id |-> id] \in Orders
          BY <5>1 DEF SendCommand, Orders, Commands, Requests, TypeInv, TypeOK
        <5>3. QED BY <5>1, <5>2 DEF SendCommand
      <4>2. CASE SendInit
        BY <4>2 DEF SendInit, Orders, OtherOrders
      <4>3. CASE \E data \in saves \cup {None} : SendLoad(data)
        <5>1. PICK data \in saves \cup {None} : SendLoad(data)
          BY <4>3
        <5>2. [type |-> "LOAD_GAME", data |-> data] \in Orders
          BY <5>1 DEF Orders, LoadGames, TypeInv, TypeOK
        <5>3. QED BY <5>1, <5>2 DEF SendLoad
      <4>4. CASE \E message \in Controls : SendControl(message)
        <5>1. PICK message \in Controls : SendControl(message)
          BY <4>4
        <5>2. message \in Orders /\ message.type # "LOAD_GAME"
          BY DEF Controls, Orders, OtherOrders, SpeedChanges
        <5>3. QED BY <5>1, <5>2 DEF SendControl
      <4>5. QED BY <2>3, <4>1, <4>2, <4>3, <4>4 DEF PageSends
    <3>3. m \in WholeOrders
      BY <2>1, <3>2 DEF WholeOrders
    <3>4. inbox' \in Seq(WholeOrders)
      BY <2>1, <3>2, <3>3, AppendProperties DEF Send
    <3>5. QED BY <2>1, <2>2, <2>3, <3>1, <3>4 DEF SaveInv, HaltedStands, RunningIsWhole
  <2>4. ASSUME WorkerHandles PROVE inbox' \in Seq(WholeOrders) /\ saves' = saves
    <3>1. inbox # <<>> /\ inbox' = Tail(inbox) /\ saves' = saves
      BY <2>4
         DEF WorkerHandles, HandleInitGame, HandleLoadGame, RefuseLoad, RefuseCommand,
         HandleCommandRunning, HandleCommandPaused, HandleCommandPausedThrows, Throws,
         TakesCommand, HandleSetSpeed,
         HandlePause, HandleResume, HandleRequestDetails, HandleRequestSave, RefuseSave,
         Handles, Takes
    <3>2. QED BY <2>1, <3>1, HeadTailProperties
  <2>5. ASSUME WorkerHandles \/ Tick \/ TickThrows,
               inbox' \in Seq(WholeOrders), saves' = saves,
               HaltedStands', RunningIsWhole'
        PROVE  SaveInv'
    BY <2>1, <2>2, <2>5 DEF SaveInv
  <2>6. CASE HandleInitGame
    <3>1. PICK content \in Contents : sim' = Fresh(content)
      BY <2>6 DEF HandleInitGame
    <3>2. HaltedStands' /\ RunningIsWhole'
      BY <2>6, <3>1, Started DEF HandleInitGame, HaltedStands, RunningIsWhole
    <3>3. QED BY <2>4, <2>5, <2>6, <3>2 DEF WorkerHandles
  <2>7. CASE HandleLoadGame
    <3> DEFINE data == Head(inbox).data
               restored == StateOf(data)
    <3>1. data \in Simulations /\ data.torn # "tick"
      <4>1. Head(inbox) \in WholeOrders
        BY <2>1, <2>7, HeadTailProperties DEF HandleLoadGame, Handles, Takes
      <4>2. QED
        BY <2>7, <4>1, Handled, OrdersAre DEF HandleLoadGame, Handles, Takes, WholeOrders
    <3>2. restored.torn # "tick"
      BY <3>1, StateIs
    <3>3. sim' = restored
      BY <2>7 DEF HandleLoadGame
    <3> HIDE DEF restored
    <3>4. HaltedStands' /\ RunningIsWhole'
      BY <2>7, <3>2, <3>3 DEF HandleLoadGame, HaltedStands, RunningIsWhole
    <3>5. QED BY <2>4, <2>5, <2>7, <3>4 DEF WorkerHandles
  <2>8. CASE RefuseLoad \/ RefuseCommand \/ HandleRequestDetails \/ HandleRequestSave \/ RefuseSave
    <3>1. UNCHANGED <<sim, speed, tickFailure>>
      BY <2>8 DEF RefuseLoad, RefuseCommand, HandleRequestDetails, HandleRequestSave,
         RefuseSave, worker
    <3>2. QED
      BY <2>1, <2>4, <2>5, <2>8, <3>1 DEF WorkerHandles, HaltedStands, RunningIsWhole
  <2>9. CASE HandleCommandRunning
    <3>1. TakesCommand /\ sim' = [sim EXCEPT !.queue = Queued] /\ UNCHANGED <<speed, tickFailure>>
      BY <2>9 DEF HandleCommandRunning
    <3>2. sim'.torn = sim.torn /\ sim # None
      BY <3>1, Taken, QueueChanged
    <3>3. HaltedStands' /\ RunningIsWhole'
      BY <2>1, <3>1, <3>2 DEF HaltedStands, RunningIsWhole
    <3>4. QED BY <2>4, <2>5, <2>9, <3>3 DEF WorkerHandles
  <2>10. CASE HandleCommandPaused
    <3>1. PICK d \in Decisions(Queued, sim.log), content \in Contents :
            Decide(Queued, WaitFor(Head(inbox).id, Head(inbox).request), d, content)
      BY <2>10 DEF HandleCommandPaused
    <3>2. sim'.torn = "no" /\ UNCHANGED <<speed, tickFailure>>
      BY <2>10, <3>1, Taken, DecidedIs DEF HandleCommandPaused
    <3>3. HaltedStands' /\ RunningIsWhole'
      BY <2>1, <3>2 DEF HaltedStands, RunningIsWhole
    <3>4. QED BY <2>4, <2>5, <2>10, <3>3 DEF WorkerHandles
  <2>10a. CASE HandleCommandPausedThrows
    <3>1. /\ TakesCommand /\ Throws(Queued, "paused") /\ UNCHANGED <<speed, tickFailure>>
      BY <2>10a DEF HandleCommandPausedThrows
    <3>2. sim'.torn = "paused"
      BY <3>1, Taken, ThrownIs
    <3>3. HaltedStands' /\ RunningIsWhole'
      BY <2>1, <3>1, <3>2 DEF HaltedStands, RunningIsWhole
    <3>4. QED BY <2>4, <2>5, <2>10a, <3>3 DEF WorkerHandles
  <2>11. CASE HandleSetSpeed \/ HandlePause \/ HandleResume
    <3>1. HaltedStands' /\ RunningIsWhole'
      BY <2>1, <2>11
         DEF HandleSetSpeed, HandlePause, HandleResume, HaltedStands, RunningIsWhole
    <3>2. QED BY <2>4, <2>5, <2>11, <3>1 DEF WorkerHandles
  <2>12. CASE Tick
    <3>1. PICK d \in Decisions(sim.queue, sim.log), content \in Contents :
            Decide(sim.queue, correlation, d, content)
      BY <2>12 DEF Tick
    <3>2. sim # None /\ sim.queue \in Seq(Waits) /\ correlation \in Seq(Waits)
      BY <2>12, SimulationsAre DEF Tick, Ticks, TypeInv, TypeOK, Waits
    <3>3. sim'.torn = "no" /\ UNCHANGED <<speed, tickFailure, inbox, saves>>
      BY <2>12, <3>1, <3>2, DecidedIs DEF Tick
    <3>4. HaltedStands' /\ RunningIsWhole'
      BY <2>1, <3>3 DEF HaltedStands, RunningIsWhole
    <3>5. QED BY <2>1, <2>5, <2>12, <3>3, <3>4
  <2>13. CASE TickThrows
    <3>1. HaltedStands' /\ RunningIsWhole' /\ UNCHANGED <<inbox, saves>>
      BY <2>13 DEF TickThrows, HaltedStands, RunningIsWhole
    <3>2. QED BY <2>1, <2>5, <2>13, <3>1
  <2>14. ASSUME ClientReceives \/ LoseResponse PROVE SaveInv'
    <3>1. UNCHANGED <<sim, speed, tickFailure>>
      BY <2>14, StepsReceive DEF worker
    <3>2. Head(outbox) \in WholeResponses /\ outbox' \in Seq(WholeResponses)
      BY <2>1, <2>14, StepsReceive, HeadTailProperties
    <3>3. \A data \in saves' : data.torn # "tick"
      BY <2>1, <2>14, <3>2
         DEF ClientReceives, HandleSnapshot, HandleStateDelta, Resynchronise, HandleSaveData,
         HandleOther, LoseResponse, Receives, WholeResponses
    <3>4. inbox' \in Seq(WholeOrders)
      <4>1. [type |-> "REQUEST_DETAILS"] \in WholeOrders
        BY DEF WholeOrders, Orders, OtherOrders
      <4>2. Append(inbox, [type |-> "REQUEST_DETAILS"]) \in Seq(WholeOrders)
        BY <2>1, <4>1, AppendProperties
      <4>3. QED
        BY <2>1, <2>14, <4>2
           DEF ClientReceives, HandleSnapshot, HandleStateDelta, Resynchronise,
           HandleSaveData, HandleOther, LoseResponse
    <3>5. QED BY <2>1, <3>1, <3>2, <3>3, <3>4 DEF SaveInv, HaltedStands, RunningIsWhole
  <2>15. CASE UNCHANGED vars
    BY <2>1, <2>15
       DEF vars, worker, client, page, SaveInv, HaltedStands, RunningIsWhole
  <2>16. QED
    BY <2>3, <2>6, <2>7, <2>8, <2>9, <2>10, <2>11, <2>12, <2>13, <2>14, <2>15, <2>10a
       DEF Next, WorkerHandles
<1>3. QED BY <1>1, <1>2, TypeInvariant, PTL DEF Spec

\* What a quantum that threw has left is neither run nor kept: not on its way to the page,
\* not in the page's hands, not in the game restored from it.  It says nothing of what the
\* commands of a paused game leave behind when the invariants refuse it.
THEOREM SavedIsWhole == Spec => []HalfRunIsDropped
<1>1. ASSUME TypeInv, SaveInv PROVE HalfRunIsDropped
  <2>1. outbox \in Seq(WholeResponses)
    BY <1>1 DEF SaveInv
  <2>2. \A i \in DOMAIN outbox : outbox[i] \in WholeResponses
    BY <2>1
  <2>3. QED BY <1>1, <2>2 DEF SaveInv, HalfRunIsDropped, RunningIsWhole, WholeResponses
<1>2. QED BY <1>1, TypeInvariant, SaveInvariant, PTL

-----------------------------------------------------------------------------
\* Answers move requests from the waiting to the posted, and nowhere else.
LEMMA DecidedPlaces ==
  ASSUME TypeInv, sim # None, NEW queue \in Seq(Waits), NEW waiting \in Seq(Waits),
         NEW d \in Decisions(queue, sim.log), NEW content \in Contents,
         Decide(queue, waiting, d, content),
         Once(posted), Once(waiting), Of(waiting) \cap Of(posted) = {}
  PROVE  /\ Once(correlation') /\ Once(posted')
         /\ Of(correlation') \cap Of(posted') = {}
         /\ Of(correlation') \cup Of(posted') \subseteq Of(waiting) \cup Of(posted)
<1> DEFINE answered == AnswersTo(waiting, Decided(queue, d))
<1>1. /\ correlation' = answered.waiting /\ posted' = posted \o answered.answers
      /\ answered.answers \in Seq(Answers)
  BY DecidedIs
<1>2. posted \in Seq(Answers) /\ Decided(queue, d) \in Seq(Outcomes)
  BY ResultsGrow DEF TypeInv, TypeOK, Answers
<1>3. /\ Once(answered.waiting) /\ Once(answered.answers)
      /\ Of(answered.waiting) \subseteq Of(waiting)
      /\ Of(answered.answers) \subseteq Of(waiting)
      /\ Of(answered.waiting) \cap Of(answered.answers) = {}
  BY <1>2, AnswersSplit
<1> HIDE DEF answered
<1>4. /\ Of(posted') = Of(posted) \cup Of(answered.answers)
      /\ Once(posted) /\ Once(answered.answers)
           /\ Of(posted) \cap Of(answered.answers) = {} => Once(posted')
  BY <1>1, <1>2, OnceConcatenated
<1>5. QED BY <1>1, <1>3, <1>4

\* A request taken from the inbox is in no other place.
LEMMA TakenOnce ==
  ASSUME TypeInv, OnePlace, inbox # <<>>, inbox' = Tail(inbox), UNCHANGED sent,
         Once(correlation'), Once(posted'), Of(correlation') \cap Of(posted') = {},
         Of(correlation') \cup Of(posted') \subseteq
           Of(correlation) \cup Of(posted)
             \cup {r \in {Head(inbox).request} : Asks(Head(inbox))}
  PROVE  OnePlace'
<1>1. inbox \in Seq(Orders)
  BY DEF TypeInv
<1> DEFINE rest == Tail(inbox)
           first == Head(inbox)
<1>2. /\ Len(inbox) \in Nat /\ Len(rest) \in Nat /\ Len(rest) = Len(inbox) - 1
      /\ \A i \in 1 .. Len(rest) : rest[i] = inbox[i + 1]
      /\ first = inbox[1] /\ Len(inbox) >= 1
  BY <1>1, HeadTailProperties, LenProperties
<1> HIDE DEF rest, first
<1>3. \A i \in 1 .. Len(rest) : i + 1 \in 1 .. Len(inbox) /\ 1 # i + 1
  BY <1>2
<1>4. 1 \in 1 .. Len(inbox)
  BY <1>2
<1>5. ASSUME NEW i \in 1 .. Len(rest), Asks(rest[i])
      PROVE  /\ rest[i].request <= sent
             /\ rest[i].request \notin Of(correlation) \cup Of(posted)
             /\ Asks(first) => first.request # rest[i].request
             /\ \A j \in 1 .. Len(rest) :
                  Asks(rest[j]) /\ rest[j].request = rest[i].request => j = i
  <2>1. i + 1 \in 1 .. Len(inbox) /\ rest[i] = inbox[i + 1] /\ 1 # i + 1
    BY <1>2, <1>3
  <2>2. /\ rest[i].request <= sent
        /\ rest[i].request \notin Of(correlation) \cup Of(posted)
        /\ \A j \in 1 .. Len(inbox) :
             Asks(inbox[j]) /\ inbox[j].request = rest[i].request => j = i + 1
    BY <1>5, <2>1 DEF OnePlace, OnItsWay
  <2>3. Asks(first) => first.request # rest[i].request
    BY <1>2, <1>4, <2>1, <2>2
  <2>4. ASSUME NEW j \in 1 .. Len(rest), Asks(rest[j]), rest[j].request = rest[i].request
        PROVE  j = i
    <3>1. j + 1 \in 1 .. Len(inbox) /\ rest[j] = inbox[j + 1]
      BY <1>2, <1>3
    <3>2. j + 1 = i + 1
      BY <2>2, <2>4, <3>1
    <3>3. QED BY <3>2
  <2>5. QED BY <2>2, <2>3, <2>4
<1>6. OnItsWay'
  <2>1. inbox' = rest
    BY DEF rest
  <2>2. ASSUME NEW i \in 1 .. Len(rest), Asks(rest[i])
        PROVE  rest[i].request \notin Of(correlation') \cup Of(posted')
    BY <1>5, <2>2 DEF first
  <2>3. QED BY <1>5, <2>1, <2>2 DEF OnItsWay
<1>7. WereSent'
  <2>1. Asks(first) => first.request <= sent
    BY <1>2, <1>4 DEF OnePlace, OnItsWay
  <2>2. QED BY <2>1 DEF OnePlace, WereSent, first
<1>8. QED BY <1>6, <1>7 DEF OnePlace, WaitsOnce

\* The same when nothing is taken.
LEMMA StaysOnce ==
  ASSUME TypeInv, OnePlace, UNCHANGED <<inbox, sent>>,
         Once(correlation'), Once(posted'), Of(correlation') \cap Of(posted') = {},
         Of(correlation') \cup Of(posted') \subseteq Of(correlation) \cup Of(posted)
  PROVE  OnePlace'
BY DEF OnePlace, OnItsWay, WaitsOnce, WereSent

\* A message added to the inbox: one that asks for nothing, or the next request.
LEMMA SentOnce ==
  ASSUME TypeInv, OnePlace, NEW m \in Orders, inbox' = Append(inbox, m),
         UNCHANGED <<correlation, posted>>,
         IF Asks(m) THEN m.request = sent + 1 /\ sent' = sent + 1 ELSE sent' = sent
  PROVE  OnePlace'
<1>1. inbox \in Seq(Orders) /\ sent \in Nat
  BY ProtocolAssumption DEF TypeInv, TypeOK
<1>2. /\ Len(inbox) \in Nat /\ Len(inbox') = Len(inbox) + 1
      /\ \A i \in 1 .. Len(inbox) : inbox'[i] = inbox[i]
      /\ inbox'[Len(inbox) + 1] = m
  BY <1>1, AppendProperties, LenProperties
<1>3. \A i \in 1 .. Len(inbox') :
        \/ i \in 1 .. Len(inbox) /\ inbox'[i] = inbox[i]
        \/ i = Len(inbox) + 1 /\ inbox'[i] = m
  BY <1>2
<1>4. \A i \in 1 .. Len(inbox) : Asks(inbox[i]) =>
        inbox[i].request <= sent /\ inbox[i].request \in Nat
  <2>1. \A i \in 1 .. Len(inbox) : inbox[i] \in Orders
    BY <1>1
  <2>2. QED BY <2>1, OrdersAre DEF OnePlace, OnItsWay, Asks, Requests
<1>5. \A r \in Of(correlation) \cup Of(posted) : r <= sent /\ r \in Nat
  <2>1. \A i \in 1 .. Len(correlation) : correlation[i].request \in Nat
    <3>1. SUFFICES ASSUME NEW i \in 1 .. Len(correlation)
                   PROVE  correlation[i].request \in Nat
      OBVIOUS
    <3>2. correlation \in Seq(Waits)
      BY DEF TypeInv, TypeOK, Waits
    <3>3. correlation[i] \in Waits
      BY <3>2
    <3>4. QED BY <3>3 DEF Waits, Requests
  <2>2. \A i \in 1 .. Len(posted) : posted[i].request \in Nat
    <3>1. SUFFICES ASSUME NEW i \in 1 .. Len(posted) PROVE posted[i].request \in Nat
      OBVIOUS
    <3>2. posted \in Seq(Answers)
      BY DEF TypeInv, TypeOK, Answers
    <3>3. posted[i] \in Answers
      BY <3>2
    <3>4. QED BY <3>3 DEF Answers, Requests
  <2>3. QED BY <2>1, <2>2 DEF OnePlace, WereSent, Of
<1>6. OnItsWay'
  <2>1. SUFFICES ASSUME NEW i \in 1 .. Len(inbox'), Asks(inbox'[i])
                 PROVE  /\ inbox'[i].request <= sent'
                        /\ inbox'[i].request \notin Of(correlation) \cup Of(posted)
                        /\ \A j \in 1 .. Len(inbox') :
                             Asks(inbox'[j]) /\ inbox'[j].request = inbox'[i].request => j = i
    BY DEF OnItsWay
  <2>2. CASE i \in 1 .. Len(inbox) /\ inbox'[i] = inbox[i]
    <3>1. /\ inbox[i].request <= sent /\ inbox[i].request \in Nat
          /\ inbox[i].request \notin Of(correlation) \cup Of(posted)
          /\ \A j \in 1 .. Len(inbox) :
               Asks(inbox[j]) /\ inbox[j].request = inbox[i].request => j = i
      BY <1>4, <2>1, <2>2 DEF OnePlace, OnItsWay
    <3>2. inbox[i].request <= sent'
      BY <1>1, <3>1
    <3>3. Asks(m) => m.request # inbox[i].request
      BY <1>1, <3>1
    <3>4. QED BY <1>3, <2>2, <3>1, <3>2, <3>3
  <2>3. CASE i = Len(inbox) + 1 /\ inbox'[i] = m
    <3>1. m.request = sent + 1 /\ sent' = sent + 1
      BY <2>1, <2>3
    <3>2. m.request \notin Of(correlation) \cup Of(posted)
      BY <1>1, <1>5, <3>1
    <3>3. \A j \in 1 .. Len(inbox) : Asks(inbox[j]) => inbox[j].request # m.request
      BY <1>1, <1>4, <3>1
    <3>4. m.request <= sent'
      BY <1>1, <3>1
    <3>5. QED BY <1>3, <2>3, <3>2, <3>3, <3>4
  <2>4. QED BY <1>3, <2>2, <2>3
<1>7. WereSent'
  <2>1. \A r \in Of(correlation) \cup Of(posted) : r <= sent'
    BY <1>1, <1>5
  <2>2. QED BY <2>1 DEF WereSent
<1>8. QED BY <1>6, <1>7 DEF OnePlace, WaitsOnce

\* Whoever waits, and is not yet answered, was sent and is not on its way again.
LEMMA OnePlaceInvariant == Spec => []OnePlace
<1>1. ASSUME Init PROVE OnePlace
  <2>1. Len(inbox) = 0 /\ Len(correlation) = 0 /\ Len(posted) = 0
    BY <1>1 DEF Init
  <2>2. 1 .. Len(inbox) = {} /\ 1 .. Len(correlation) = {} /\ 1 .. Len(posted) = {}
    BY <2>1
  <2>3. QED BY <2>2 DEF OnePlace, OnItsWay, WaitsOnce, WereSent, Once, Of
<1>2. ASSUME TypeInv, TypeInv', OnePlace, [Next]_vars PROVE OnePlace'
  <2> USE <1>2
  <2>1. /\ correlation \in Seq(Waits) /\ posted \in Seq(Answers)
        /\ Once(correlation) /\ Once(posted) /\ Of(correlation) \cap Of(posted) = {}
    BY DEF TypeInv, TypeOK, Waits, Answers, OnePlace, WaitsOnce
  <2>2. ASSUME PageSends PROVE OnePlace'
    <3>1. UNCHANGED <<correlation, posted>>
      BY <2>2 DEF PageSends, SendCommand, SendInit, SendLoad, SendControl, Send, worker,
         ghosts
    <3>2. CASE \E id \in CommandIds : SendCommand(id)
      <4>1. PICK id \in CommandIds : SendCommand(id)
        BY <3>2
      <4> DEFINE m == [type |-> "COMMAND", request |-> sent + 1, id |-> id]
      <4>2. m \in Orders
        BY <4>1 DEF SendCommand, Orders, Commands, Requests, TypeInv, TypeOK
      <4>3. inbox' = Append(inbox, m) /\ sent' = sent + 1
        BY <4>1 DEF SendCommand, Send
      <4>4. m.request = sent + 1 /\ Asks(m)
        BY DEF Asks
      <4> HIDE DEF m
      <4>5. QED BY <3>1, <4>2, <4>3, <4>4, SentOnce
    <3>3. CASE \/ SendInit
               \/ \E data \in saves \cup {None} : SendLoad(data)
               \/ \E message \in Controls : SendControl(message)
      <4>1. PICK m \in Orders : Send(m) /\ ~Asks(m)
        <5>1. [type |-> "INIT_GAME"] \in Orders
          BY DEF Orders, OtherOrders
        <5>2. \A data \in saves \cup {None} : [type |-> "LOAD_GAME", data |-> data] \in Orders
          BY DEF Orders, LoadGames, TypeInv, TypeOK
        <5>3. Controls \subseteq Orders /\ \A m \in Controls : ~Asks(m)
          BY DEF Controls, Orders, OtherOrders, SpeedChanges, Asks
        <5>4. QED
          BY <3>3, <5>1, <5>2, <5>3 DEF SendInit, SendLoad, SendControl, Asks
      <4>2. sent' = sent
        BY <3>3 DEF SendInit, SendLoad, SendControl
      <4>3. QED BY <3>1, <4>1, <4>2, SentOnce DEF Send
    <3>4. QED BY <2>2, <3>2, <3>3 DEF PageSends
  <2>3. ASSUME WorkerHandles PROVE inbox # <<>> /\ inbox' = Tail(inbox) /\ sent' = sent
    BY <2>3
       DEF WorkerHandles, HandleInitGame, HandleLoadGame, RefuseLoad, RefuseCommand,
       HandleCommandRunning, HandleCommandPaused, HandleCommandPausedThrows, Throws,
       TakesCommand, HandleSetSpeed, HandlePause,
       HandleResume, HandleRequestDetails, HandleRequestSave, RefuseSave, Handles, Takes
  <2> DEFINE r == Head(inbox).request
  <2>4. ASSUME Asks(Head(inbox)), inbox # <<>>
        PROVE  r \notin Of(correlation) \cup Of(posted)
    <3>1. inbox \in Seq(Orders)
      BY DEF TypeInv
    <3>2. Head(inbox) = inbox[1] /\ 1 \in 1 .. Len(inbox)
      BY <2>4, <3>1
    <3>3. QED BY <2>4, <3>2 DEF OnePlace, OnItsWay
  <2>5. CASE \/ HandleInitGame \/ RefuseLoad \/ HandleSetSpeed \/ HandlePause \/ HandleResume
             \/ HandleRequestDetails \/ HandleRequestSave \/ RefuseSave
    <3>1. UNCHANGED <<correlation, posted>>
      BY <2>5 DEF HandleInitGame, RefuseLoad, HandleSetSpeed, HandlePause, HandleResume,
         HandleRequestDetails, HandleRequestSave, RefuseSave, worker, ghosts
    <3>2. /\ Once(correlation') /\ Once(posted') /\ Of(correlation') \cap Of(posted') = {}
          /\ Of(correlation') \cup Of(posted') = Of(correlation) \cup Of(posted)
      BY <2>1, <3>1
    <3>3. QED BY <2>3, <2>5, <3>2, TakenOnce DEF WorkerHandles
  <2>6. CASE HandleLoadGame
    <3>1. correlation' = <<>> /\ posted' = posted \o ReplacedVerdicts
      BY <2>6 DEF HandleLoadGame, Post
    <3>2. Of(correlation') = {} /\ Once(correlation')
      <4>1. 1 .. Len(correlation') = {}
        BY <3>1
      <4>2. QED BY <4>1 DEF Of, Once
    <3>3. Once(ReplacedVerdicts) /\ Of(ReplacedVerdicts) = Of(correlation)
      BY <2>1, ReplacedAre DEF Once, Of
    <3>4. Once(posted') /\ Of(posted') = Of(posted) \cup Of(correlation)
      BY <2>1, <3>1, <3>3, ReplacedAre, OnceConcatenated
    <3>5. QED BY <2>3, <2>6, <3>2, <3>4, TakenOnce DEF WorkerHandles
  <2>7. CASE RefuseCommand
    <3>1. /\ correlation' = correlation
          /\ posted' = posted \o <<Verdict(r, "rejected")>>
          /\ r \in Requests /\ Asks(Head(inbox)) /\ inbox # <<>>
      BY <2>7, Handled, OrdersAre DEF RefuseCommand, Handles, Takes, Post, worker, Asks
    <3> DEFINE v == Verdict(r, "rejected")
    <3>2. v \in Answers /\ v.request = r
      BY <3>1 DEF Verdict, Verdicts, Answers
    <3>3. posted' = Append(posted, v)
      <4> HIDE DEF v
      <4>1. posted' = posted \o <<v>>
        BY <3>1 DEF v
      <4>2. QED BY <2>1, <3>2, <4>1, AppendIsConcat
    <3> HIDE DEF v, r
    <3>4. /\ Of(posted') = Of(posted) \cup {r}
          /\ Once(posted) /\ r \notin Of(posted) => Once(posted')
      BY <2>1, <3>2, <3>3, OnceAppended
    <3>5. /\ Once(correlation') /\ Once(posted') /\ Of(correlation') \cap Of(posted') = {}
          /\ Of(correlation') \cup Of(posted') = Of(correlation) \cup Of(posted) \cup {r}
      BY <2>1, <2>4, <3>1, <3>4
    <3>6. QED BY <2>3, <2>7, <3>1, <3>5, TakenOnce DEF WorkerHandles, r
  <2>8. ASSUME TakesCommand
        PROVE  LET waiting == WaitFor(Head(inbox).id, r)
               IN  /\ waiting \in Seq(Waits) /\ Asks(Head(inbox))
                   /\ Once(waiting) /\ Of(waiting) \cap Of(posted) = {}
                   /\ Of(waiting) = Of(correlation) \cup {r}
    <3>1. /\ WaitFor(Head(inbox).id, r) \in Seq(Waits) /\ r \in Requests
          /\ Head(inbox).id \in CommandIds
      BY <2>8, Taken
    <3>2. Asks(Head(inbox)) /\ inbox # <<>>
      BY <2>8 DEF TakesCommand, Handles, Takes, Asks
    <3> DEFINE e == [id |-> Head(inbox).id, request |-> r]
    <3>3. e \in Waits /\ e.request = r
      BY <3>1, WaitsAre
    <3> HIDE DEF e, r
    <3>4. /\ Of(Append(correlation, e)) = Of(correlation) \cup {r}
          /\ Once(correlation) /\ r \notin Of(correlation) => Once(Append(correlation, e))
      BY <2>1, <3>3, OnceAppended
    <3>5. WaitFor(Head(inbox).id, r) = Append(correlation, e)
      BY DEF WaitFor, e
    <3>6. QED BY <2>1, <2>4, <3>1, <3>2, <3>4, <3>5
  <2>9. CASE HandleCommandRunning
    <3>1. TakesCommand /\ posted' = posted /\ correlation' = WaitFor(Head(inbox).id, r)
      BY <2>9 DEF HandleCommandRunning
    <3> HIDE DEF r
    <3>2. /\ Once(correlation') /\ Once(posted') /\ Of(correlation') \cap Of(posted') = {}
          /\ Of(correlation') \cup Of(posted') = Of(correlation) \cup Of(posted) \cup {r}
          /\ Asks(Head(inbox))
      BY <2>1, <2>8, <3>1
    <3>3. QED BY <2>3, <2>9, <3>2, TakenOnce DEF WorkerHandles, r
  <2>9a. CASE HandleCommandPausedThrows
    <3>1. TakesCommand /\ posted' = posted /\ correlation' = WaitFor(Head(inbox).id, r)
      BY <2>9a DEF HandleCommandPausedThrows
    <3> HIDE DEF r
    <3>2. /\ Once(correlation') /\ Once(posted') /\ Of(correlation') \cap Of(posted') = {}
          /\ Of(correlation') \cup Of(posted') = Of(correlation) \cup Of(posted) \cup {r}
          /\ Asks(Head(inbox))
      BY <2>1, <2>8, <3>1
    <3>3. QED BY <2>3, <2>9a, <3>2, TakenOnce DEF WorkerHandles, r
  <2>10. CASE HandleCommandPaused
    <3>1. PICK d \in Decisions(Queued, sim.log), content \in Contents :
            Decide(Queued, WaitFor(Head(inbox).id, r), d, content)
      BY <2>10 DEF HandleCommandPaused
    <3>2. TakesCommand
      BY <2>10 DEF HandleCommandPaused
    <3>3. sim # None /\ Queued \in Seq(Waits)
      BY <3>2, Taken
    <3> DEFINE waiting == WaitFor(Head(inbox).id, r)
    <3> HIDE DEF r
    <3>4. /\ waiting \in Seq(Waits) /\ Asks(Head(inbox))
          /\ Once(waiting) /\ Of(waiting) \cap Of(posted) = {}
          /\ Of(waiting) = Of(correlation) \cup {r}
      BY <2>8, <3>2
    <3> HIDE DEF waiting
    <3>5. Decide(Queued, waiting, d, content)
      BY <3>1 DEF waiting
    <3>6. /\ Once(correlation') /\ Once(posted')
          /\ Of(correlation') \cap Of(posted') = {}
          /\ Of(correlation') \cup Of(posted') \subseteq Of(waiting) \cup Of(posted)
      BY <2>1, <3>3, <3>4, <3>5, DecidedPlaces
    <3>7. QED BY <2>3, <2>10, <3>4, <3>6, TakenOnce DEF WorkerHandles, r
  <2>11. CASE Tick
    <3>1. PICK d \in Decisions(sim.queue, sim.log), content \in Contents :
            Decide(sim.queue, correlation, d, content)
      BY <2>11 DEF Tick
    <3>2. sim # None /\ sim.queue \in Seq(Waits)
      BY <2>11, SimulationsAre DEF Tick, Ticks, TypeInv, TypeOK
    <3>3. /\ Once(correlation') /\ Once(posted')
          /\ Of(correlation') \cap Of(posted') = {}
          /\ Of(correlation') \cup Of(posted') \subseteq Of(correlation) \cup Of(posted)
      BY <2>1, <3>1, <3>2, DecidedPlaces
    <3>4. QED BY <2>11, <3>3, StaysOnce DEF Tick
  <2>12. CASE TickThrows
    <3>1. UNCHANGED <<inbox, sent, correlation, posted>>
      BY <2>12 DEF TickThrows
    <3>2. QED BY <2>1, <3>1, StaysOnce
  <2>13. ASSUME ClientReceives \/ LoseResponse PROVE OnePlace'
    <3>1. UNCHANGED <<correlation, posted, sent>>
      BY <2>13
         DEF ClientReceives, HandleSnapshot, HandleStateDelta, Resynchronise, HandleSaveData,
         HandleOther, LoseResponse, Receives, worker, ghosts
    <3>2. CASE inbox' = inbox
      BY <2>1, <3>1, <3>2, StaysOnce
    <3>3. CASE inbox' = Append(inbox, [type |-> "REQUEST_DETAILS"])
      <4>1. [type |-> "REQUEST_DETAILS"] \in Orders /\ ~Asks([type |-> "REQUEST_DETAILS"])
        BY DEF Orders, OtherOrders, Asks
      <4>2. QED BY <3>1, <3>3, <4>1, SentOnce
    <3>4. QED
      BY <2>13, <3>2, <3>3
         DEF ClientReceives, HandleSnapshot, HandleStateDelta, Resynchronise, HandleSaveData,
         HandleOther, LoseResponse
  <2>14. CASE UNCHANGED vars
    <3>1. UNCHANGED <<inbox, sent, correlation, posted>>
      BY <2>14 DEF vars, worker, page, ghosts
    <3>2. QED BY <2>1, <3>1, StaysOnce
  <2>15. QED
    BY <2>2, <2>5, <2>6, <2>7, <2>9, <2>9a, <2>10, <2>11, <2>12, <2>13, <2>14
       DEF Next, WorkerHandles
<1>3. QED BY <1>1, <1>2, TypeInvariant, PTL DEF Spec

-----------------------------------------------------------------------------
\* Nothing is saved or loaded before the career begins, and it begins once unless the
\* player starts it again.
Blank == {m \in Orders : m.type = "LOAD_GAME" => m.data = None}

LEMMA BegunInvariant == Spec => []Begun
<1>1. ASSUME Init PROVE Begun
  <2>1. /\ sim = None /\ ~tickFailure /\ saves = {} /\ inbox = <<>> /\ outbox = <<>>
    BY <1>1 DEF Init
  <2>2. /\ outbox \in Seq(Responses \ SaveDatas)
        /\ inbox \in Seq({m \in Orders : m.type = "LOAD_GAME" => m.data = None})
        /\ 1 .. Len(inbox) = {}
    BY <2>1
  <2>3. QED BY <2>1, <2>2 DEF Begun, NothingYet, NotStarted, StartsOnce
<1>2. ASSUME TypeInv, TypeInv', Begun, [Next]_vars PROVE Begun'
  <2> USE <1>2
  <2>1. inbox \in Seq(Orders) /\ spent \in Counts /\ Len(inbox) \in Nat
    BY DEF TypeInv
  <2>2. NothingYet /\ NotStarted /\ (~Restarted => StartsOnce)
    BY DEF Begun
  \* The messages of the inbox after one is taken or added.
  <2>3. ASSUME inbox # <<>>, inbox' = Tail(inbox)
        PROVE  /\ Len(inbox') = Len(inbox) - 1
               /\ \A i \in 1 .. Len(inbox') :
                    i + 1 \in 1 .. Len(inbox) /\ inbox'[i] = inbox[i + 1]
               /\ 1 \in 1 .. Len(inbox) /\ Head(inbox) = inbox[1]
    <3>1. /\ Len(Tail(inbox)) = Len(inbox) - 1
          /\ \A i \in 1 .. Len(Tail(inbox)) : Tail(inbox)[i] = inbox[i + 1]
      BY <2>1, <2>3, HeadTailProperties
    <3>2. 1 \in 1 .. Len(inbox) /\ Head(inbox) = inbox[1]
      BY <2>1, <2>3
    <3>3. \A i \in 1 .. Len(inbox) - 1 : i + 1 \in 1 .. Len(inbox)
      BY <2>1
    <3>4. QED BY <2>3, <3>1, <3>2, <3>3
  <2>4. ASSUME NEW m \in Orders, inbox' = Append(inbox, m)
        PROVE  \A i \in 1 .. Len(inbox') :
                 \/ i \in 1 .. Len(inbox) /\ inbox'[i] = inbox[i]
                 \/ i = Len(inbox) + 1 /\ inbox'[i] = m
    <3>1. /\ Len(inbox') = Len(inbox) + 1
          /\ \A i \in 1 .. Len(inbox) : inbox'[i] = inbox[i]
          /\ inbox'[Len(inbox) + 1] = m
      BY <2>1, <2>4, AppendProperties
    <3>2. QED BY <2>1, <3>1
  \* A message that starts nothing is added, and the simulation stays.
  <2>5. ASSUME NEW m \in Orders, inbox' = Append(inbox, m), ~Starts(m),
               UNCHANGED sim, spent'.inits = spent.inits
        PROVE  NotStarted' /\ (~Restarted => StartsOnce)'
    <3>1. NotStarted'
      BY <2>2, <2>4, <2>5 DEF NotStarted
    <3>2. ASSUME ~Restarted' PROVE StartsOnce'
      <4>1. StartsOnce
        BY <2>2, <2>5, <3>2 DEF Restarted
      <4>2. QED BY <2>4, <2>5, <4>1 DEF StartsOnce
    <3>3. QED BY <3>1, <3>2
  <2>6. ASSUME UNCHANGED inbox, UNCHANGED sim, spent'.inits = spent.inits
        PROVE  NotStarted' /\ (~Restarted => StartsOnce)'
    BY <2>2, <2>6 DEF NotStarted, StartsOnce, Restarted
  <2>7. CASE PageSends
    <3>1. UNCHANGED <<sim, tickFailure, saves, outbox>>
      BY <2>7 DEF PageSends, SendCommand, SendInit, SendLoad, SendControl, Send, worker
    <3>2. ASSUME NEW m \in Orders, inbox' = Append(inbox, m),
                 sim = None => m \in Blank
          PROVE  NothingYet'
      <4>1. SUFFICES ASSUME sim = None
                     PROVE  inbox' \in Seq({x \in Orders : x.type = "LOAD_GAME" => x.data = None})
        BY <2>2, <3>1 DEF NothingYet
      <4>2. inbox \in Seq(Blank) /\ m \in Blank
        BY <2>2, <3>2, <4>1 DEF NothingYet, Blank
      <4>3. inbox' \in Seq(Blank)
        BY <3>2, <4>2, AppendProperties
      <4>4. QED BY <4>3 DEF Blank
    <3>3. CASE SendInit
      <4> DEFINE m == [type |-> "INIT_GAME"]
      <4>1. /\ m \in Orders /\ m \in Blank /\ Starts(m)
        BY DEF Orders, OtherOrders, Blank, Starts
      <4>2. inbox' = Append(inbox, m) /\ spent'.inits = spent.inits + 1
        BY <2>1, <3>3 DEF SendInit, Send, Counts
      <4> HIDE DEF m
      <4>3. NothingYet'
        BY <3>2, <4>1, <4>2
      <4>4. spent.inits \in Nat
        BY <2>1 DEF Counts
      <4>5. NotStarted'
        BY <4>2, <4>4 DEF NotStarted
      <4>6. ASSUME ~Restarted' PROVE StartsOnce'
        <5>1. spent.inits = 0
          BY <4>2, <4>4, <4>6 DEF Restarted
        <5>2. sim' = None /\ \A i \in 1 .. Len(inbox) : ~Starts(inbox[i])
          BY <2>2, <3>1, <5>1 DEF NotStarted
        <5>3. \A i \in 1 .. Len(inbox') : Starts(inbox'[i]) => i = Len(inbox) + 1
          BY <2>4, <4>1, <4>2, <5>2
        <5>4. QED BY <5>2, <5>3 DEF StartsOnce
      <4>7. QED BY <4>3, <4>5, <4>6 DEF Begun
    <3>4. CASE \E id \in CommandIds : SendCommand(id)
      <4>1. PICK id \in CommandIds : SendCommand(id)
        BY <3>4
      <4> DEFINE m == [type |-> "COMMAND", request |-> sent + 1, id |-> id]
      <4>2. m \in Orders
        BY <4>1 DEF SendCommand, Orders, Commands, Requests, TypeInv, TypeOK
      <4>3. m \in Blank /\ ~Starts(m)
        BY <4>2 DEF Blank, Starts
      <4>4. inbox' = Append(inbox, m) /\ spent' = spent
        BY <4>1 DEF SendCommand, Send
      <4> HIDE DEF m
      <4>5. QED BY <2>5, <3>1, <3>2, <4>2, <4>3, <4>4 DEF Begun
    <3>5. CASE \E data \in saves \cup {None} : SendLoad(data)
      <4>1. PICK data \in saves \cup {None} : SendLoad(data)
        BY <3>5
      <4> DEFINE m == [type |-> "LOAD_GAME", data |-> data]
      <4>2. m \in Orders
        BY <4>1 DEF Orders, LoadGames, TypeInv, TypeOK
      <4>3. ~Starts(m) /\ (sim = None => m \in Blank)
        BY <2>2, <4>1, <4>2 DEF Blank, Starts, NothingYet
      <4>4. inbox' = Append(inbox, m) /\ spent'.inits = spent.inits
        BY <2>1, <4>1 DEF SendLoad, Send, Counts
      <4> HIDE DEF m
      <4>5. QED BY <2>5, <3>1, <3>2, <4>2, <4>3, <4>4 DEF Begun
    <3>6. CASE \E message \in Controls : SendControl(message)
      <4>1. PICK m \in Controls : SendControl(m)
        BY <3>6
      <4>2. m \in Orders /\ m \in Blank /\ ~Starts(m)
        BY DEF Controls, Orders, OtherOrders, SpeedChanges, Blank, Starts
      <4>3. inbox' = Append(inbox, m) /\ spent'.inits = spent.inits
        BY <2>1, <4>1 DEF SendControl, Send, Counts
      <4>4. QED BY <2>5, <3>1, <3>2, <4>2, <4>3 DEF Begun
    <3>7. QED BY <2>7, <3>3, <3>4, <3>5, <3>6 DEF PageSends
  <2>8. CASE WorkerHandles
    <3>1. /\ inbox # <<>> /\ inbox' = Tail(inbox) /\ spent'.inits = spent.inits
          /\ sim = None => sim' = None \/ Starts(Head(inbox)) \/ Head(inbox) \notin Blank
          /\ sim # None => sim' # None
      <4>1. inbox # <<>> /\ inbox' = Tail(inbox) /\ spent'.inits = spent.inits
        BY <2>1, <2>8
           DEF Counts, WorkerHandles, HandleInitGame, HandleLoadGame, RefuseLoad, RefuseCommand,
           HandleCommandRunning, HandleCommandPaused, HandleCommandPausedThrows, Throws,
           TakesCommand, HandleSetSpeed,
           HandlePause, HandleResume, HandleRequestDetails, HandleRequestSave, RefuseSave,
           Handles, Takes
      <4>2. None \notin Simulations
        BY NoneAssumption
      <4>3. CASE HandleInitGame
        <5>1. PICK content \in Contents : sim' = Fresh(content)
          BY <4>3 DEF HandleInitGame
        <5>2. sim' # None /\ Starts(Head(inbox))
          BY <4>2, <4>3, <5>1, Started DEF HandleInitGame, Handles, Takes, Starts
        <5>3. QED BY <4>1, <5>2
      <4>4. CASE HandleLoadGame
        <5> DEFINE restored == StateOf(Head(inbox).data)
        <5>1. Head(inbox).data \in Simulations /\ Head(inbox) \notin Blank
          BY <4>4, Handled, OrdersAre DEF HandleLoadGame, Handles, Takes, Blank
        <5>3. restored \in Simulations
          BY <5>1, StateIs
        <5>4. sim' = restored
          BY <4>4 DEF HandleLoadGame
        <5> HIDE DEF restored
        <5>5. QED BY <4>1, <4>2, <5>1, <5>3, <5>4
      <4>5. CASE \/ RefuseLoad \/ RefuseCommand \/ HandleSetSpeed \/ HandlePause
                 \/ HandleResume \/ HandleRequestDetails \/ HandleRequestSave \/ RefuseSave
        <5>1. sim' = sim
          BY <4>5 DEF RefuseLoad, RefuseCommand, HandleSetSpeed, HandlePause, HandleResume,
             HandleRequestDetails, HandleRequestSave, RefuseSave, worker
        <5>2. QED BY <4>1, <5>1
      <4>6. CASE HandleCommandRunning
        <5>1. TakesCommand /\ sim' = [sim EXCEPT !.queue = Queued]
          BY <4>6 DEF HandleCommandRunning
        <5>2. sim # None /\ sim' \in Simulations
          BY <5>1, Taken, QueueChanged
        <5>3. QED BY <4>1, <4>2, <5>2
      <4>7. CASE HandleCommandPaused
        <5>1. PICK d \in Decisions(Queued, sim.log), content \in Contents :
                Decide(Queued, WaitFor(Head(inbox).id, Head(inbox).request), d, content)
          BY <4>7 DEF HandleCommandPaused
        <5>2. sim # None /\ sim' \in Simulations
          BY <4>7, <5>1, Taken, DecidedIs DEF HandleCommandPaused
        <5>3. QED BY <4>1, <4>2, <5>2
      <4>8. CASE HandleCommandPausedThrows
        <5>1. TakesCommand /\ Throws(Queued, "paused")
          BY <4>8 DEF HandleCommandPausedThrows
        <5>2. sim # None /\ sim' \in Simulations
          BY <5>1, Taken, ThrownIs
        <5>3. QED BY <4>1, <4>2, <5>2
      <4>9. QED BY <2>8, <4>3, <4>4, <4>5, <4>6, <4>7, <4>8 DEF WorkerHandles
    <3>2. ASSUME sim' = None
          PROVE  /\ sim = None /\ ~tickFailure' /\ saves' = saves
                 /\ outbox' \in Seq(Responses \ SaveDatas)
                 /\ inbox' \in Seq(Blank)
      <4>1. sim = None
        BY <3>1, <3>2
      <4>2. /\ ~tickFailure /\ outbox \in Seq(Responses \ SaveDatas) /\ inbox \in Seq(Blank)
        BY <2>2, <4>1 DEF NothingYet, Blank
      <4>3. ~tickFailure'
        BY <2>8, <4>2
           DEF WorkerHandles, HandleInitGame, HandleLoadGame, RefuseLoad, RefuseCommand,
           HandleCommandRunning, HandleCommandPaused, HandleCommandPausedThrows, Throws,
           TakesCommand, HandleSetSpeed,
           HandlePause, HandleResume, HandleRequestDetails, HandleRequestSave, RefuseSave,
           Handles, Takes, worker
      <4>4. saves' = saves
        BY <2>8
           DEF WorkerHandles, HandleInitGame, HandleLoadGame, RefuseLoad, RefuseCommand,
           HandleCommandRunning, HandleCommandPaused, HandleCommandPausedThrows, Throws,
           TakesCommand, HandleSetSpeed,
           HandlePause, HandleResume, HandleRequestDetails, HandleRequestSave, RefuseSave,
           Handles, Takes
      <4>5. inbox' \in Seq(Blank)
        BY <3>1, <4>2, HeadTailProperties
      <4>6. outbox' \in Seq(Responses \ SaveDatas)
        <5>1. Answers \subseteq Responses \ SaveDatas
          BY DEF Responses, Answers, SaveDatas
        <5>2. CASE Silent
          <6>1. Unpublished \subseteq Responses \ SaveDatas
            <7>1. OtherResponses \subseteq Responses \ SaveDatas
              BY DEF Responses, OtherResponses, SaveDatas
            <7>2. QED BY <4>1, <5>1, <7>1 DEF Unpublished, SavesNow
          <6>2. PICK others \in Seq(Unpublished) : outbox' = outbox \o others
            BY <5>2 DEF Silent
          <6>3. others \in Seq(Responses \ SaveDatas)
            BY <6>1, SeqMonotonic
          <6>4. QED BY <4>2, <6>2, <6>3, ConcatProperties
        <5>3. CASE Publishing
          <6>1. PICK answers \in Seq(Answers), content \in Contents :
                  \E p \in Newest(content) : outbox' = Append(outbox \o answers, p)
            BY <5>3 DEF Publishing
          <6>2. PICK p \in Newest(content) : outbox' = Append(outbox \o answers, p)
            BY <6>1
          <6>3. answers \in Seq(Responses \ SaveDatas)
            BY <5>1, SeqMonotonic
          <6>4. p \in Responses \ SaveDatas
            BY NewestAre DEF Publishes, SaveDatas
          <6>5. outbox \o answers \in Seq(Responses \ SaveDatas)
            BY <4>2, <6>3, ConcatProperties
          <6>6. QED BY <6>2, <6>4, <6>5, AppendProperties
        <5>4. QED BY <2>8, <5>2, <5>3, StepsPost
      <4>7. QED BY <4>1, <4>3, <4>4, <4>5, <4>6
    <3>3. NothingYet'
      BY <2>2, <3>2 DEF NothingYet, Blank
    <3>4. NotStarted'
      <4>1. SUFFICES ASSUME spent'.inits = 0
                     PROVE  sim' = None /\ \A i \in 1 .. Len(inbox') : ~Starts(inbox'[i])
        BY DEF NotStarted
      <4>2. sim = None /\ \A i \in 1 .. Len(inbox) : ~Starts(inbox[i])
        BY <2>2, <3>1, <4>1 DEF NotStarted
      <4>3. Head(inbox) \in Blank /\ ~Starts(Head(inbox))
        <5>1. inbox \in Seq(Blank)
          BY <2>2, <4>2 DEF NothingYet, Blank
        <5>2. QED BY <2>3, <3>1, <4>2, <5>1, HeadTailProperties
      <4>4. QED BY <2>3, <3>1, <4>2, <4>3
    <3>5. ASSUME ~Restarted' PROVE StartsOnce'
      <4>1. StartsOnce
        BY <2>2, <3>1, <3>5 DEF Restarted
      <4>2. ASSUME NEW i \in 1 .. Len(inbox'), Starts(inbox'[i])
            PROVE  /\ sim' = None
                   /\ \A j \in 1 .. Len(inbox') : Starts(inbox'[j]) => j = i
        <5>1. i + 1 \in 1 .. Len(inbox) /\ inbox'[i] = inbox[i + 1]
          BY <2>3, <3>1
        <5>2. sim = None /\ \A j \in 1 .. Len(inbox) : Starts(inbox[j]) => j = i + 1
          BY <4>1, <4>2, <5>1 DEF StartsOnce
        <5>3. ~Starts(Head(inbox))
          <6>1. 1 # i + 1
            OBVIOUS
          <6>2. QED BY <2>3, <3>1, <5>2, <6>1
        <5>4. Head(inbox) \in Blank
          <6>1. inbox \in Seq(Blank)
            BY <2>2, <5>2 DEF NothingYet, Blank
          <6>2. QED BY <3>1, <6>1, HeadTailProperties
        <5>5. sim' = None
          BY <3>1, <5>2, <5>3, <5>4
        <5>6. ASSUME NEW j \in 1 .. Len(inbox'), Starts(inbox'[j]) PROVE j = i
          <6>1. j + 1 \in 1 .. Len(inbox) /\ inbox'[j] = inbox[j + 1]
            BY <2>3, <3>1
          <6>2. j + 1 = i + 1
            BY <5>2, <5>6, <6>1
          <6>3. QED BY <6>2
        <5>7. QED BY <5>5, <5>6
      <4>3. QED BY <4>2 DEF StartsOnce
    <3>6. QED BY <3>3, <3>4, <3>5 DEF Begun
  <2>9. CASE Tick \/ TickThrows
    <3>1. sim # None /\ inbox' = inbox /\ spent'.inits = spent.inits
      BY <2>1, <2>9 DEF Tick, TickThrows, Throws, Ticks, Counts
    <3>2. sim' # None
      <4>1. CASE Tick
        <5>1. PICK d \in Decisions(sim.queue, sim.log), content \in Contents :
                Decide(sim.queue, correlation, d, content)
          BY <4>1 DEF Tick
        <5>2. sim.queue \in Seq(Waits) /\ correlation \in Seq(Waits)
          BY <3>1, SimulationsAre DEF TypeInv, TypeOK, Waits
        <5>3. QED BY <3>1, <5>1, <5>2, DecidedIs, NoneAssumption
      <4>2. CASE TickThrows
        <5>1. Throws(sim.queue, "tick") /\ sim.queue \in Seq(Waits)
          BY <3>1, <4>2, SimulationsAre DEF TickThrows, TypeInv, TypeOK
        <5>2. sim' \in Simulations
          BY <3>1, <5>1, ThrownIs
        <5>3. QED BY <5>2, NoneAssumption
      <4>3. QED BY <2>9, <4>1, <4>2
    <3>3. NothingYet' /\ NotStarted'
      BY <2>2, <3>1, <3>2 DEF NothingYet, NotStarted
    <3>4. ASSUME ~Restarted' PROVE StartsOnce'
      <4>1. StartsOnce
        BY <2>2, <3>1, <3>4 DEF Restarted
      <4>2. QED BY <3>1, <4>1 DEF StartsOnce
    <3>5. QED BY <3>3, <3>4 DEF Begun
  <2>10. CASE ClientReceives \/ LoseResponse
    <3>1. /\ outbox # <<>> /\ outbox' = Tail(outbox)
          /\ UNCHANGED <<sim, tickFailure>>
      BY <2>10, StepsReceive DEF worker
    <3>2. spent'.inits = spent.inits
      BY <2>1, <2>10
         DEF ClientReceives, HandleSnapshot, HandleStateDelta, Resynchronise, HandleSaveData,
         HandleOther, LoseResponse, Receives, Counts
    <3> DEFINE m == [type |-> "REQUEST_DETAILS"]
    <3>3. m \in Orders /\ m \in Blank /\ ~Starts(m)
      BY DEF Orders, OtherOrders, Blank, Starts
    <3>4. inbox' = inbox \/ inbox' = Append(inbox, m)
      BY <2>10
         DEF ClientReceives, HandleSnapshot, HandleStateDelta, Resynchronise, HandleSaveData,
         HandleOther, LoseResponse
    <3> HIDE DEF m
    <3>5. NotStarted' /\ (~Restarted => StartsOnce)'
      BY <2>5, <2>6, <3>1, <3>2, <3>3, <3>4
    <3>6. NothingYet'
      <4>1. SUFFICES ASSUME sim = None
                     PROVE  /\ saves' = {}
                            /\ outbox' \in Seq(Responses \ SaveDatas) /\ inbox' \in Seq(Blank)
        BY <2>2, <3>1 DEF NothingYet, Blank
      <4>2. saves = {} /\ outbox \in Seq(Responses \ SaveDatas) /\ inbox \in Seq(Blank)
        BY <2>2, <4>1 DEF NothingYet, Blank
      <4>3. /\ outbox' \in Seq(Responses \ SaveDatas)
            /\ Head(outbox) \in Responses \ SaveDatas
        BY <3>1, <4>2, HeadTailProperties
      <4>4. inbox' \in Seq(Blank)
        BY <3>3, <3>4, <4>2, AppendProperties
      <4>5. Head(outbox).type # "SAVE_DATA"
        BY <4>3 DEF Responses, Snapshots, StateDeltas, SaveDatas, Answers, OtherResponses
      <4>6. saves' = {}
        BY <2>10, <4>2, <4>5
           DEF ClientReceives, HandleSnapshot, HandleStateDelta, Resynchronise,
           HandleSaveData, HandleOther, LoseResponse, Receives
      <4>7. QED BY <4>3, <4>4, <4>6
    <3>7. QED BY <3>5, <3>6 DEF Begun
  <2>11. CASE UNCHANGED vars
    <3>1. UNCHANGED <<sim, tickFailure, saves, inbox, outbox, spent>>
      BY <2>11 DEF vars, worker, page
    <3>2. QED BY <2>2, <2>6, <3>1 DEF Begun, NothingYet
  <2>12. QED BY <2>7, <2>8, <2>9, <2>10, <2>11 DEF Next
<1>3. QED BY <1>1, <1>2, TypeInvariant, PTL DEF Spec

-----------------------------------------------------------------------------
\* What the simulation holds: the envelopes of its results, then those of a queue.
LEMMA HeldIs ==
  ASSUME TypeInv, sim # None, NEW queue \in Seq(Waits)
  PROVE  /\ sim.results \in Seq(Outcomes) /\ sim.queue \in Seq(Waits)
         /\ HeldWith(queue) \in Seq(Waits)
         /\ Len(HeldWith(queue)) = Len(sim.results) + Len(queue)
         /\ \A i \in 1 .. Len(sim.results) :
              HeldWith(queue)[i] = [id |-> sim.results[i].id, request |-> sim.results[i].request]
         /\ \A i \in 1 .. Len(queue) : HeldWith(queue)[Len(sim.results) + i] = queue[i]
<1>1. sim.results \in Seq(Outcomes) /\ sim.queue \in Seq(Waits)
  BY SimulationsAre DEF TypeInv, TypeOK
<1> DEFINE old == Envelopes(sim.results)
<1>2. /\ old \in Seq(Waits) /\ Len(old) = Len(sim.results)
      /\ \A i \in 1 .. Len(sim.results) :
           old[i] = [id |-> sim.results[i].id, request |-> sim.results[i].request]
  BY <1>1, EnvelopesAre
<1>3. HeldWith(queue) = old \o queue
  BY DEF HeldWith
<1> HIDE DEF old
<1>4. Len(old) \in Nat /\ Len(queue) \in Nat
  BY <1>2, LenProperties
<1>5. /\ old \o queue \in Seq(Waits) /\ Len(old \o queue) = Len(old) + Len(queue)
      /\ \A i \in 1 .. Len(old) + Len(queue) :
           (old \o queue)[i] = IF i <= Len(old) THEN old[i] ELSE queue[i - Len(old)]
  <2>1. old \in Seq(Waits) /\ queue \in Seq(Waits)
    BY <1>2
  <2>2. QED BY ONLY <2>1, ConcatProperties
<1>6. \A i \in 1 .. Len(old) : (old \o queue)[i] = old[i]
  BY <1>4, <1>5
<1>7. \A i \in 1 .. Len(queue) : (old \o queue)[Len(old) + i] = queue[i]
  BY <1>4, <1>5
<1>8. QED BY <1>1, <1>2, <1>3, <1>5, <1>6, <1>7

\* When those are held once each, so are the two parts, and they share none.
LEMMA HeldOnce ==
  ASSUME TypeInv, sim # None, NEW queue \in Seq(Waits)
  PROVE  /\ Of(HeldWith(queue)) = Of(sim.results) \cup Of(queue)
         /\ Once(HeldWith(queue)) =>
              Once(queue) /\ Of(sim.results) \cap Of(queue) = {}
<1> DEFINE old == Envelopes(sim.results)
<1>1. /\ old \in Seq(Waits) /\ Len(old) = Len(sim.results) /\ Len(old) \in Nat
      /\ \A i \in 1 .. Len(sim.results) : old[i].request = sim.results[i].request
  BY HeldIs, EnvelopesAre, LenProperties
<1>2. Of(old) = Of(sim.results)
  BY <1>1 DEF Of
<1>3. HeldWith(queue) = old \o queue
  BY DEF HeldWith
<1> HIDE DEF old
<1>4. Of(HeldWith(queue)) = Of(sim.results) \cup Of(queue)
  BY <1>1, <1>2, <1>3, OnceConcatenated
<1>5. /\ Len(HeldWith(queue)) = Len(old) + Len(queue) /\ Len(queue) \in Nat
      /\ \A i \in 1 .. Len(old) : HeldWith(queue)[i].request = sim.results[i].request
      /\ \A i \in 1 .. Len(queue) : HeldWith(queue)[Len(old) + i] = queue[i]
  <2>1. /\ Len(HeldWith(queue)) = Len(sim.results) + Len(queue)
        /\ \A i \in 1 .. Len(sim.results) :
             HeldWith(queue)[i] = [id |-> sim.results[i].id, request |-> sim.results[i].request]
        /\ \A i \in 1 .. Len(queue) : HeldWith(queue)[Len(sim.results) + i] = queue[i]
    BY HeldIs
  <2>2. Len(queue) \in Nat
    BY LenProperties
  <2>3. \A i \in 1 .. Len(old) : HeldWith(queue)[i].request = sim.results[i].request
    <3>1. SUFFICES ASSUME NEW i \in 1 .. Len(sim.results)
                   PROVE  HeldWith(queue)[i].request = sim.results[i].request
      BY <1>1
    <3>2. HeldWith(queue)[i] = [id |-> sim.results[i].id, request |-> sim.results[i].request]
      BY <2>1
    <3>3. QED BY ONLY <3>2
  <2>4. \A i \in 1 .. Len(queue) : HeldWith(queue)[Len(old) + i] = queue[i]
    <3>1. Len(old) = Len(sim.results)
      BY <1>1
    <3>2. QED BY ONLY <2>1, <3>1, Zenon
  <2>5. QED BY <1>1, <2>1, <2>2, <2>3, <2>4
<1>6. ASSUME Once(HeldWith(queue)) PROVE Once(queue) /\ Of(sim.results) \cap Of(queue) = {}
  <2> DEFINE w == HeldWith(queue)
  <2>0. \A i, j \in 1 .. Len(w) : w[i].request = w[j].request => i = j
    BY <1>6 DEF Once
  <2> HIDE DEF w
  <2>1. \A i \in 1 .. Len(queue) :
          Len(old) + i \in 1 .. Len(w) /\ w[Len(old) + i] = queue[i]
    BY <1>1, <1>5 DEF w
  <2>2. \A i \in 1 .. Len(old) : i \in 1 .. Len(w) /\ w[i].request = sim.results[i].request
    BY <1>1, <1>5 DEF w
  <2>3. ASSUME NEW i \in 1 .. Len(queue), NEW j \in 1 .. Len(queue),
               queue[i].request = queue[j].request
        PROVE  i = j
    <3>1. Len(old) + i = Len(old) + j
      BY <2>0, <2>1, <2>3
    <3>2. QED BY <1>1, <3>1
  <2>4. ASSUME NEW i \in 1 .. Len(old), NEW j \in 1 .. Len(queue),
               sim.results[i].request = queue[j].request
        PROVE  FALSE
    <3>1. i = Len(old) + j
      BY <2>0, <2>1, <2>2, <2>4
    <3>2. QED BY <1>1, <3>1
  <2>5. Of(sim.results) \cap Of(queue) = {}
    BY <1>1, <2>4 DEF Of
  <2>6. QED BY <2>3, <2>5 DEF Once
<1>7. QED BY <1>4, <1>6

\* A queue decided leaves the envelopes where they were, those of the results first; and
\* the results tell what became of them.
LEMMA DecidedEnvelopes ==
  ASSUME TypeInv, sim # None, NEW queue \in Seq(Waits), NEW d \in Decisions(queue, sim.log)
  PROVE  Envelopes(Decided(queue, d)) = HeldWith(queue)
<1> DEFINE all == Decided(queue, d)
           n == Len(sim.results)
<1>1. /\ all \in Seq(Outcomes) /\ Len(all) = n + Len(queue)
      /\ \A i \in 1 .. n : all[i] = sim.results[i]
      /\ \A i \in 1 .. Len(queue) :
           all[n + i].request = queue[i].request /\ all[n + i].id = queue[i].id
  BY ResultsGrow
<1>2. n \in Nat /\ Len(queue) \in Nat
  BY HeldIs, LenProperties
<1> HIDE DEF all
<1>3. /\ Envelopes(all) \in Seq(Waits) /\ Len(Envelopes(all)) = Len(all)
      /\ \A i \in 1 .. Len(all) :
           Envelopes(all)[i] = [id |-> all[i].id, request |-> all[i].request]
  BY <1>1, EnvelopesAre
<1>4. /\ HeldWith(queue) \in Seq(Waits) /\ Len(HeldWith(queue)) = n + Len(queue)
      /\ \A i \in 1 .. n :
           HeldWith(queue)[i] = [id |-> sim.results[i].id, request |-> sim.results[i].request]
      /\ \A i \in 1 .. Len(queue) : HeldWith(queue)[n + i] = queue[i]
  BY HeldIs
<1> HIDE DEF n
<1>5. ASSUME NEW i \in 1 .. Len(all) PROVE Envelopes(all)[i] = HeldWith(queue)[i]
  <2>1. CASE i \in 1 .. n
    BY <1>1, <1>3, <1>4, <2>1
  <2>2. CASE i \notin 1 .. n
    <3> DEFINE j == i - n
    <3>1. j \in 1 .. Len(queue) /\ i = n + j
      BY <1>1, <1>2, <2>2
    <3> HIDE DEF j
    <3>2. Envelopes(all)[i] = [id |-> queue[j].id, request |-> queue[j].request]
      BY <1>1, <1>3, <3>1
    <3>3. queue[j] \in Waits
      BY <3>1
    <3>4. queue[j] = [id |-> queue[j].id, request |-> queue[j].request]
      BY <3>3 DEF Waits
    <3>5. QED BY <1>4, <3>1, <3>2, <3>4
  <2>3. QED BY <2>1, <2>2
<1>6. Envelopes(all) = HeldWith(queue)
  BY <1>1, <1>3, <1>4, <1>5, SeqEqual
<1>7. QED BY <1>6 DEF all

LEMMA DecidedHappened ==
  ASSUME TypeInv, sim # None, NEW queue \in Seq(Waits), NEW d \in Decisions(queue, sim.log),
         Once(HeldWith(queue)), Happened(sim.results, fate)
  PROVE  Happened(Decided(queue, d), FateAfter(queue, d))
<1> DEFINE all == Decided(queue, d)
           n == Len(sim.results)
           f == FateAfter(queue, d)
<1>1. /\ Len(all) = n + Len(queue)
      /\ \A i \in 1 .. n : all[i] = sim.results[i]
      /\ \A i \in 1 .. Len(queue) :
           all[n + i].request = queue[i].request /\ all[n + i].verdict = d[i]
  BY ResultsGrow
<1>2. n \in Nat /\ Len(queue) \in Nat /\ sim.results \in Seq(Outcomes)
  BY HeldIs, LenProperties
<1>3. Once(queue) /\ Of(sim.results) \cap Of(queue) = {}
  BY HeldOnce
<1>4. /\ \A r \in Requests : r \notin Of(queue) => f[r] = fate[r]
      /\ \A i \in 1 .. Len(queue) : f[queue[i].request] = d[i]
  BY <1>3, DecisionsAre, FatesAre
<1>5. ASSUME NEW i \in 1 .. n PROVE f[sim.results[i].request] = sim.results[i].verdict
  <2>1. sim.results[i].request \in Requests
    BY <1>2, OutcomesAre
  <2>2. sim.results[i].request \in Of(sim.results)
    BY DEF Of
  <2>3. f[sim.results[i].request] = fate[sim.results[i].request]
    <3> HIDE DEF f
    <3>1. QED BY <1>3, <1>4, <2>1, <2>2
  <2>4. QED BY <2>3 DEF Happened
<1> HIDE DEF all, f, n
<1>6. ASSUME NEW i \in 1 .. Len(all) PROVE f[all[i].request] = all[i].verdict
  <2>1. CASE i \in 1 .. n
    BY <1>1, <1>5, <2>1
  <2>2. CASE i \notin 1 .. n
    <3>1. PICK j \in 1 .. Len(queue) : i = n + j
      <4>1. i - n \in 1 .. Len(queue) /\ i = n + (i - n)
        BY <1>1, <1>2, <2>2
      <4>2. QED BY <4>1
    <3>2. QED BY <1>1, <1>4, <3>1
  <2>3. QED BY <2>1, <2>2
<1>7. QED BY <1>6 DEF Happened, all, f

\* A queue decided for those whose envelopes are held answers each with the verdict on his.
LEMMA DecidedAnswers ==
  ASSUME TypeInv, sim # None, NEW queue \in Seq(Waits),
         NEW d \in Decisions(queue, sim.log), NEW content \in Contents,
         Decide(queue, HeldWith(queue), d, content),
         Once(HeldWith(queue)), Of(HeldWith(queue)) \cap Of(posted) = {},
         Happened(sim.results, fate), VerdictIsItsOwn
  PROVE  /\ correlation' = <<>> /\ sim'.queue = <<>> /\ sim'.results = <<>>
         /\ VerdictIsItsOwn'
<1> DEFINE all == Decided(queue, d)
           answers == AnswersTo(Envelopes(all), all).answers
<1>0. all \in Seq(Outcomes) /\ HeldWith(queue) = Envelopes(all) /\ HeldWith(queue) \in Seq(Waits)
  BY ResultsGrow, DecidedEnvelopes, HeldIs
<1>1. Of(queue) \subseteq Of(HeldWith(queue))
  BY HeldOnce
<1>2. /\ correlation' = AnswersTo(HeldWith(queue), all).waiting
      /\ posted' = posted \o AnswersTo(HeldWith(queue), all).answers
      /\ AnswersTo(HeldWith(queue), all).answers \in Seq(Answers)
      /\ fate' = FateAfter(queue, d) /\ sim'.queue = <<>> /\ sim'.results = <<>>
  BY <1>0, DecidedIs
<1> HIDE DEF all
<1>2a. correlation' = AnswersTo(Envelopes(all), all).waiting
       /\ posted' = posted \o answers /\ answers \in Seq(Answers)
  BY <1>0, <1>2
<1>3. /\ AnswersTo(Envelopes(all), all).waiting = <<>>
      /\ Len(answers) = Len(all)
      /\ \A i \in 1 .. Len(all) : answers[i] = Verdict(all[i].request, all[i].verdict)
  BY <1>0, AnswersInOrder
<1> HIDE DEF answers
<1>4. /\ \A r \in Requests : r \notin Of(queue) => fate'[r] = fate[r]
      /\ \A i \in 1 .. Len(all) : fate'[all[i].request] = all[i].verdict
  <2>1. \A r \in Requests : r \notin Of(queue) => fate'[r] = fate[r]
    BY <1>2, DecisionsAre, FatesAre
  <2>2. Happened(all, fate')
    BY <1>2, DecidedHappened DEF all
  <2>3. QED BY <2>1, <2>2 DEF Happened
<1>5. posted \in Seq(Answers) /\ Len(posted) \in Nat /\ Len(answers) \in Nat
  BY <1>2a, LenProperties DEF TypeInv, TypeOK, Answers
<1>6. /\ Len(posted') = Len(posted) + Len(answers)
      /\ \A i \in 1 .. Len(posted) + Len(answers) :
           posted'[i] = IF i <= Len(posted) THEN posted[i] ELSE answers[i - Len(posted)]
      /\ DOMAIN posted' = 1 .. Len(posted')
  BY <1>2a, <1>5, ConcatProperties, LenProperties
<1>7. VerdictIsItsOwn'
  <2>1. SUFFICES ASSUME NEW i \in 1 .. Len(posted) + Len(answers),
                        posted'[i].verdict # "replaced"
                 PROVE  fate'[posted'[i].request] = posted'[i].verdict
    BY <1>6 DEF VerdictIsItsOwn
  <2>2. CASE i <= Len(posted)
    <3>1. i \in DOMAIN posted /\ posted'[i] = posted[i] /\ posted[i] \in Answers
      BY <1>5, <1>6, <2>2
    <3>2. posted[i].request \in Requests /\ posted[i].request \notin Of(queue)
      <4>1. i \in 1 .. Len(posted)
        BY <1>5, <2>2
      <4>2. posted[i].request \in Of(posted)
        BY <4>1 DEF Of
      <4>3. posted[i].request \in Requests
        BY <3>1 DEF Answers
      <4>4. QED BY <1>1, <4>2, <4>3
    <3>3. QED BY <1>4, <2>1, <3>1, <3>2 DEF VerdictIsItsOwn
  <2>3. CASE i > Len(posted)
    <3> DEFINE j == i - Len(posted)
    <3>1. j \in 1 .. Len(all) /\ ~(i <= Len(posted))
      BY <1>3, <1>5, <2>3
    <3>2. posted'[i] = answers[j]
      BY <1>6, <3>1
    <3> HIDE DEF j
    <3>3. posted'[i].request = all[j].request /\ posted'[i].verdict = all[j].verdict
      <4>1. answers[j] = Verdict(all[j].request, all[j].verdict)
        BY <1>3, <3>1
      <4>2. QED BY <3>2, <4>1 DEF Verdict
    <3>4. QED BY <1>4, <3>1, <3>3
  <2>4. QED BY <1>5, <2>2, <2>3
<1>8. QED BY <1>2, <1>2a, <1>3, <1>7

\* Nothing is posted, and the fates of the answered stay.
LEMMA VerdictsStay ==
  ASSUME TypeInv, VerdictIsItsOwn, UNCHANGED posted,
         \A r \in Of(posted) : fate'[r] = fate[r]
  PROVE  VerdictIsItsOwn'
<1>1. posted \in Seq(Answers)
  BY DEF TypeInv, TypeOK, Answers
<1>2. DOMAIN posted = 1 .. Len(posted)
  BY <1>1
<1>3. \A i \in DOMAIN posted : fate'[posted[i].request] = fate[posted[i].request]
  <2>1. SUFFICES ASSUME NEW i \in 1 .. Len(posted)
                 PROVE  posted[i].request \in Of(posted)
    BY <1>2
  <2>2. QED BY DEF Of
<1>4. QED BY <1>3 DEF VerdictIsItsOwn

\* The page starts no career again without counting it.
LEMMA RestartsCount ==
  ASSUME TypeInv, [Next]_vars, ~Restarted'
  PROVE  ~Restarted
<1>1. spent \in Counts
  BY DEF TypeInv
<1>2. CASE PageSends
  <2>1. \/ spent' = spent
        \/ spent' = [spent EXCEPT !.inits = @ + 1]
        \/ spent' = [spent EXCEPT !.loads = @ + 1]
        \/ spent' = [spent EXCEPT !.controls = @ + 1]
    BY <1>2 DEF PageSends, SendCommand, SendInit, SendLoad, SendControl
  <2>2. spent.inits \in Nat /\ spent'.inits \in {spent.inits, spent.inits + 1}
    BY <1>1, <2>1 DEF Counts
  <2>3. QED BY <2>2 DEF Restarted
<1>3. CASE WorkerHandles
  <2>1. spent'.inits = spent.inits
    BY <1>1, <1>3
       DEF Counts, WorkerHandles, HandleInitGame, HandleLoadGame, RefuseLoad, RefuseCommand,
       HandleCommandRunning, HandleCommandPaused, HandleCommandPausedThrows, Throws,
       TakesCommand, HandleSetSpeed, HandlePause,
       HandleResume, HandleRequestDetails, HandleRequestSave, RefuseSave, Handles, Takes
  <2>2. QED BY <2>1 DEF Restarted
<1>4. CASE Tick \/ TickThrows
  BY <1>1, <1>4 DEF Tick, TickThrows, Throws, Counts, Restarted
<1>5. CASE ClientReceives \/ LoseResponse
  BY <1>1, <1>5
     DEF ClientReceives, HandleSnapshot, HandleStateDelta, Resynchronise, HandleSaveData,
     HandleOther, LoseResponse, Receives, Counts, Restarted
<1>6. CASE UNCHANGED vars
  BY <1>6 DEF vars, page, Restarted
<1>7. QED BY <1>2, <1>3, <1>4, <1>5, <1>6 DEF Next

\* Until the career is started again, those who wait are those whose envelopes the
\* simulation holds, decided or not, in order, and each verdict is of the envelope it was
\* asked for.
LEMMA AnsweredInvariant == Spec => []Answered
<1>1. ASSUME Init PROVE Answered
  <2>1. sim = None /\ correlation = <<>> /\ posted = <<>>
    BY <1>1 DEF Init
  <2>2. DOMAIN posted = {}
    BY <2>1
  <2>3. QED BY <2>1, <2>2 DEF Answered, WaitsForHeld, ResultsHappened, Held, VerdictIsItsOwn
<1>2. ASSUME TypeInv, TypeInv', OnePlace, Begun, SaveInv, Answered, [Next]_vars
      PROVE  Answered'
  <2> USE <1>2
  <2>1. SUFFICES ASSUME ~Restarted'
                 PROVE  WaitsForHeld' /\ ResultsHappened' /\ VerdictIsItsOwn'
    BY DEF Answered
  <2>2. WaitsForHeld /\ ResultsHappened /\ VerdictIsItsOwn /\ ~Restarted
    BY <2>1, RestartsCount DEF Answered
  <2>3. /\ correlation \in Seq(Waits) /\ posted \in Seq(Answers) /\ fate \in Fates
        /\ Once(correlation) /\ Of(correlation) \cap Of(posted) = {}
        /\ sim \in Simulations \cup {None}
    BY DEF TypeInv, TypeOK, Waits, Answers, OnePlace, WaitsOnce
  \* What the simulation holds is waited for, and what it decided has happened.
  <2>3a. ASSUME sim # None, ~tickFailure
         PROVE  /\ correlation = HeldWith(sim.queue) /\ Happened(sim.results, fate)
                /\ Of(sim.results) \subseteq Of(correlation)
    <3>1. sim.queue \in Seq(Waits)
      BY <2>3, <2>3a, SimulationsAre
    <3>2. Of(HeldWith(sim.queue)) = Of(sim.results) \cup Of(sim.queue)
      BY <2>3a, <3>1, HeldOnce
    <3>3. correlation = HeldWith(sim.queue) /\ Happened(sim.results, fate)
      BY <2>2, <2>3a DEF WaitsForHeld, Held, ResultsHappened
    <3>4. QED BY <3>2, <3>3
  \* The fates of the decided stay when those of others change.
  <2>3b. ASSUME sim # None, ~tickFailure,
                \A q \in Of(correlation) \cap Requests : fate'[q] = fate[q]
         PROVE  Happened(sim.results, fate')
    <3>1. SUFFICES ASSUME NEW i \in 1 .. Len(sim.results)
                   PROVE  fate'[sim.results[i].request] = sim.results[i].verdict
      BY DEF Happened
    <3>2. sim.results \in Seq(Outcomes)
      BY <2>3b, SimulationsAre DEF TypeInv, TypeOK
    <3>3. sim.results[i].request \in Requests /\ sim.results[i].request \in Of(sim.results)
      BY <3>2, OutcomesAre DEF Of
    <3>4. QED BY <2>3a, <2>3b, <3>3 DEF Happened
  <2>4. \A i \in 1 .. Len(posted) : posted[i].request \in Requests
    <3>1. \A i \in 1 .. Len(posted) : posted[i] \in Answers
      BY <2>3
    <3>2. QED BY <3>1 DEF Answers
  \* Nobody waits, and the simulation holds nothing.
  <2>0. ASSUME correlation' = <<>>, sim'.queue = <<>>, sim'.results = <<>>
        PROVE  WaitsForHeld' /\ ResultsHappened'
    <3>1. Len(sim'.results) = 0 /\ Envelopes(sim'.results) = <<>>
      <4>1. Len(<<>>) = 0 /\ 1 .. 0 = {}
        OBVIOUS
      <4>2. QED BY <2>0, <4>1 DEF Envelopes
    <3>2. Held' = <<>>
      BY <2>0, <3>1 DEF Held, HeldWith
    <3>3. Happened(sim'.results, fate')
      BY <3>1 DEF Happened
    <3>4. QED BY <2>0, <3>2, <3>3 DEF WaitsForHeld, ResultsHappened
  <2>5. CASE PageSends
    <3>1. UNCHANGED <<sim, tickFailure, correlation, posted>>
      BY <2>5 DEF PageSends, SendCommand, SendInit, SendLoad, SendControl, Send, worker,
         ghosts
    <3>2. \A r \in Of(posted) : fate'[r] = fate[r]
      <4>1. \A r \in Of(posted) : r <= sent /\ r \in Requests
        BY <2>4 DEF OnePlace, WereSent, Of
      <4>2. sent \in Nat
        BY ProtocolAssumption DEF TypeInv, TypeOK
      <4>3. \A r \in Of(posted) : r # sent + 1
        BY <4>1, <4>2 DEF Requests
      <4>4. QED
        BY <2>3, <2>5, <4>1, <4>3
           DEF PageSends, SendCommand, SendInit, SendLoad, SendControl, ghosts, Fates
    <3>3. VerdictIsItsOwn'
      BY <2>2, <3>1, <3>2, VerdictsStay
    <3>4. \A q \in Of(correlation) \cap Requests : fate'[q] = fate[q]
      <4>1. \A q \in Of(correlation) : q <= sent
        BY DEF OnePlace, WereSent
      <4>2. sent \in Nat
        BY ProtocolAssumption DEF TypeInv, TypeOK
      <4>3. \A q \in Of(correlation) \cap Requests : q # sent + 1
        BY <4>1, <4>2 DEF Requests
      <4>4. QED
        BY <2>3, <2>5, <4>3
           DEF PageSends, SendCommand, SendInit, SendLoad, SendControl, ghosts, Fates
    <3>5. ResultsHappened'
      BY <2>3b, <3>1, <3>4 DEF ResultsHappened
    <3>6. QED BY <2>2, <3>1, <3>3, <3>5 DEF WaitsForHeld, Held, HeldWith
  <2>6. CASE HandleInitGame
    <3>1. Starts(Head(inbox)) /\ Head(inbox) = inbox[1] /\ 1 \in 1 .. Len(inbox)
      BY <2>6 DEF HandleInitGame, Handles, Takes, Starts, TypeInv
    <3>2. sim = None /\ ~tickFailure
      BY <2>2, <3>1 DEF Begun, StartsOnce, NothingYet
    <3>3. correlation = <<>>
      BY <2>2, <3>2 DEF WaitsForHeld, Held
    <3>4. PICK content \in Contents : sim' = Fresh(content)
      BY <2>6 DEF HandleInitGame
    <3>5. sim'.queue = <<>> /\ sim'.results = <<>> /\ correlation' = <<>>
      BY <2>6, <3>3, <3>4, Started DEF HandleInitGame
    <3>6. VerdictIsItsOwn'
      BY <2>2, <2>6, VerdictsStay DEF HandleInitGame, ghosts
    <3>7. QED BY <2>0, <3>5, <3>6
  <2>7. CASE HandleLoadGame
    <3> DEFINE restored == StateOf(Head(inbox).data)
    <3>1. Head(inbox).data \in Simulations
      BY <2>7, Handled, OrdersAre DEF HandleLoadGame, Handles
    <3>3. restored.queue = <<>> /\ restored.results = <<>>
      BY <3>1, StateIs
    <3>4. sim' = restored /\ correlation' = <<>> /\ fate' = fate
          /\ posted' = posted \o ReplacedVerdicts
      BY <2>7 DEF HandleLoadGame, Post
    <3> HIDE DEF restored
    <3>5. WaitsForHeld' /\ ResultsHappened'
      BY <2>0, <3>3, <3>4
    <3>6. /\ Len(posted) \in Nat /\ Len(correlation) \in Nat
          /\ DOMAIN posted' = 1 .. Len(posted) + Len(correlation)
          /\ \A i \in 1 .. Len(posted) + Len(correlation) :
               posted'[i] = IF i <= Len(posted) THEN posted[i]
                            ELSE ReplacedVerdicts[i - Len(posted)]
      <4>1. ReplacedVerdicts \in Seq(Answers) /\ Len(ReplacedVerdicts) = Len(correlation)
        BY ReplacedAre
      <4>2. Len(posted) \in Nat /\ Len(correlation) \in Nat
        BY <2>3, LenProperties
      <4>3. /\ posted' \in Seq(Answers)
            /\ Len(posted') = Len(posted) + Len(ReplacedVerdicts)
            /\ \A i \in 1 .. Len(posted) + Len(ReplacedVerdicts) :
                 posted'[i] = IF i <= Len(posted) THEN posted[i]
                              ELSE ReplacedVerdicts[i - Len(posted)]
        BY ZenonT(60), <2>3, <3>4, <4>1, ConcatProperties
      <4>4. DOMAIN posted' = 1 .. Len(posted')
        BY <4>3, LenProperties
      <4>5. QED BY <4>1, <4>2, <4>3, <4>4
    <3>7. ASSUME NEW i \in 1 .. Len(posted) + Len(correlation),
                 posted'[i].verdict # "replaced"
          PROVE  fate'[posted'[i].request] = posted'[i].verdict
      <4>1. CASE i <= Len(posted)
        <5>1. i \in DOMAIN posted /\ posted'[i] = posted[i]
          BY <2>3, <3>6, <4>1
        <5>2. QED BY <2>2, <3>4, <3>7, <5>1 DEF VerdictIsItsOwn
      <4>2. CASE i > Len(posted)
        <5>1. i - Len(posted) \in 1 .. Len(correlation) /\ ~(i <= Len(posted))
          BY <3>6, <4>2
        <5>2. posted'[i] = ReplacedVerdicts[i - Len(posted)]
          BY <3>6, <5>1
        <5>3. QED BY <3>7, <5>1, <5>2, ReplacedAre
      <4>3. QED BY <3>6, <4>1, <4>2
    <3>8. VerdictIsItsOwn'
      BY <3>6, <3>7 DEF VerdictIsItsOwn
    <3>9. QED BY <3>5, <3>8
  <2>8. CASE \/ RefuseLoad \/ HandleSetSpeed \/ HandlePause \/ HandleResume
             \/ HandleRequestDetails \/ HandleRequestSave \/ RefuseSave
    <3>1. UNCHANGED <<sim, tickFailure, correlation, posted, fate>>
      BY <2>8 DEF RefuseLoad, HandleSetSpeed, HandlePause, HandleResume,
         HandleRequestDetails, HandleRequestSave, RefuseSave, worker, ghosts
    <3>2. VerdictIsItsOwn'
      BY <2>2, <3>1, VerdictsStay
    <3>3. QED BY <2>2, <3>1, <3>2 DEF WaitsForHeld, Held, HeldWith, ResultsHappened
  <2> DEFINE r == Head(inbox).request
  <2>9. ASSUME Takes("COMMAND")
        PROVE  r \in Requests /\ r \notin Of(posted) /\ r \notin Of(correlation)
    <3>1. Asks(Head(inbox)) /\ r \in Requests
      BY <2>9, Handled, OrdersAre DEF Asks, Handles
    <3>2. Head(inbox) = inbox[1] /\ 1 \in 1 .. Len(inbox)
      BY <2>9 DEF Handles, Takes, TypeInv
    <3>3. r \notin Of(correlation) \cup Of(posted)
      BY <3>1, <3>2 DEF OnePlace, OnItsWay
    <3>4. QED BY <3>1, <3>3
  <2>10. CASE RefuseCommand
    <3> DEFINE v == Verdict(r, "rejected")
    <3>1. r \in Requests /\ r \notin Of(posted)
      BY <2>9, <2>10 DEF RefuseCommand, Handles
    <3>2. v \in Answers /\ v.request = r /\ v.verdict = "rejected"
      BY <3>1 DEF Verdict, Verdicts, Answers
    <3>3. /\ posted' = posted \o <<v>> /\ fate' = [fate EXCEPT ![r] = "rejected"]
          /\ UNCHANGED <<sim, tickFailure, correlation>>
      BY <2>10 DEF RefuseCommand, Post, worker
    <3> HIDE DEF v, r
    <3>4. /\ Len(posted) \in Nat /\ DOMAIN posted' = 1 .. Len(posted) + 1
          /\ \A i \in 1 .. Len(posted) : posted'[i] = posted[i]
          /\ posted'[Len(posted) + 1] = v
      BY <2>3, <3>2, <3>3, AppendIsConcat, AppendProperties
    <3>5. ASSUME NEW i \in 1 .. Len(posted) + 1, posted'[i].verdict # "replaced"
          PROVE  fate'[posted'[i].request] = posted'[i].verdict
      <4>1. CASE i \in 1 .. Len(posted)
        <5>1. posted[i].request # r /\ posted[i].request \in Requests /\ i \in DOMAIN posted
          BY <2>3, <2>4, <3>1, <4>1 DEF Of
        <5>2. QED BY <2>2, <2>3, <3>3, <3>4, <3>5, <4>1, <5>1 DEF VerdictIsItsOwn, Fates
      <4>2. CASE i = Len(posted) + 1
        BY <2>3, <3>1, <3>2, <3>3, <3>4, <4>2 DEF Fates
      <4>3. QED BY <3>4, <4>1, <4>2
    <3>6. VerdictIsItsOwn'
      BY <3>4, <3>5 DEF VerdictIsItsOwn
    <3>7. r \notin Of(correlation)
      BY <2>9, <2>10 DEF RefuseCommand, Handles, r
    <3>8. ResultsHappened'
      <4>1. \A q \in Of(correlation) \cap Requests : fate'[q] = fate[q]
        BY <2>3, <3>3, <3>7 DEF Fates
      <4>2. QED BY <2>3b, <3>3, <4>1 DEF ResultsHappened
    <3>9. QED BY <2>2, <3>3, <3>6, <3>8 DEF WaitsForHeld, Held, HeldWith
  <2>11. ASSUME TakesCommand
         PROVE  /\ WaitFor(Head(inbox).id, r) = HeldWith(Queued)
                /\ Queued \in Seq(Waits) /\ HeldWith(Queued) \in Seq(Waits)
                /\ Once(HeldWith(Queued)) /\ Of(HeldWith(Queued)) \cap Of(posted) = {}
                /\ Happened(sim.results, fate)
    <3>1. sim # None /\ ~tickFailure /\ r \in Requests /\ Head(inbox).id \in CommandIds
          /\ Queued \in Seq(Waits)
      BY <2>11, Taken
    <3>2. correlation = HeldWith(sim.queue) /\ Happened(sim.results, fate)
      BY <2>3a, <3>1
    <3> DEFINE e == [id |-> Head(inbox).id, request |-> r]
    <3>3. e = [request |-> r, id |-> Head(inbox).id] /\ e \in Waits /\ e.request = r
      BY <3>1, WaitsAre
    <3>4. /\ WaitFor(Head(inbox).id, r) = Append(correlation, e)
          /\ Queued = Append(sim.queue, e)
      BY <3>3 DEF WaitFor, Queued
    <3> HIDE DEF e
    <3>4a. Append(correlation, e) = HeldWith(Queued)
      <4> DEFINE old == Envelopes(sim.results)
                 q == sim.queue
      <4>1. old \in Seq(Waits) /\ q \in Seq(Waits) /\ <<e>> \in Seq(Waits)
        BY <3>1, <3>3, HeldIs, EnvelopesAre
      <4>2. correlation = old \o q /\ HeldWith(Queued) = old \o Append(q, e)
        BY <3>2, <3>4 DEF HeldWith
      <4> HIDE DEF old, q
      <4>3. Append(correlation, e) = correlation \o <<e>> /\ Append(q, e) = q \o <<e>>
        BY <2>3, <3>3, <4>1, AppendIsConcat
      <4>4. (old \o q) \o <<e>> = old \o (q \o <<e>>)
        BY <4>1, ConcatAssociative
      <4>5. QED BY <4>2, <4>3, <4>4
    <3>5. r \notin Of(posted) /\ r \notin Of(correlation)
      BY <2>9, <2>11 DEF TakesCommand
    <3> HIDE DEF r
    <3>6. /\ Of(Append(correlation, e)) = Of(correlation) \cup {r}
          /\ Once(correlation) /\ r \notin Of(correlation) => Once(Append(correlation, e))
      BY <2>3, <3>3, OnceAppended
    <3>7. HeldWith(Queued) \in Seq(Waits)
      BY <3>1, HeldIs
    <3>8. QED BY <2>3, <3>1, <3>2, <3>4, <3>4a, <3>5, <3>6, <3>7
  <2>12. CASE HandleCommandRunning
    <3>1. /\ TakesCommand /\ correlation' = WaitFor(Head(inbox).id, r)
          /\ sim' = [sim EXCEPT !.queue = Queued]
          /\ fate' = [fate EXCEPT ![r] = "queued"] /\ posted' = posted
      BY <2>12 DEF HandleCommandRunning
    <3>2. sim \in Simulations /\ sim # None /\ Queued \in Seq(Waits)
      BY <3>1, Taken
    <3>3. sim'.queue = Queued /\ sim'.results = sim.results /\ sim' \in Simulations
      BY <3>1, <3>2, QueueChanged
    <3>4. sim' # None
      BY <3>3, NoneAssumption
    <3>5. WaitsForHeld' /\ ResultsHappened'
      <4>1. Held' = HeldWith(Queued)
        BY <3>3, <3>4 DEF Held, HeldWith
      <4>2. \A q \in Of(correlation) \cap Requests : fate'[q] = fate[q]
        BY <2>3, <2>9, <3>1 DEF TakesCommand, Fates
      <4>3. ~tickFailure
        BY <3>1, Taken
      <4>4. QED
        BY <2>3b, <2>11, <3>1, <3>2, <3>3, <4>1, <4>2, <4>3 DEF WaitsForHeld, ResultsHappened
    <3>6. \A q \in Of(posted) : fate'[q] = fate[q]
      BY <2>3, <2>4, <2>9, <3>1 DEF TakesCommand, Fates, Of
    <3>7. VerdictIsItsOwn'
      BY <2>2, <3>1, <3>6, VerdictsStay
    <3>8. QED BY <3>5, <3>7
  <2>13. CASE HandleCommandPaused
    <3>1. PICK d \in Decisions(Queued, sim.log), content \in Contents :
            Decide(Queued, WaitFor(Head(inbox).id, r), d, content)
      BY <2>13 DEF HandleCommandPaused
    <3>2. TakesCommand
      BY <2>13 DEF HandleCommandPaused
    <3>3. sim # None
      BY <3>2, Taken
    <3>4. Decide(Queued, HeldWith(Queued), d, content)
      BY <2>11, <3>1, <3>2
    <3>5. correlation' = <<>> /\ sim'.queue = <<>> /\ sim'.results = <<>> /\ VerdictIsItsOwn'
      BY <2>2, <2>11, <3>2, <3>3, <3>4, DecidedAnswers
    <3>6. QED BY <2>0, <3>5
  <2>13a. CASE HandleCommandPausedThrows
    <3>1. /\ TakesCommand /\ Throws(Queued, "paused") /\ UNCHANGED <<posted, tickFailure>>
          /\ correlation' = WaitFor(Head(inbox).id, r)
      BY <2>13a DEF HandleCommandPausedThrows
    <3>2. sim # None /\ Queued \in Seq(Waits)
      BY <3>1, Taken
    <3>3. PICK d \in Decisions(Queued, sim.log) :
            sim'.results = Decided(Queued, d) /\ fate' = FateAfter(Queued, d)
      BY <3>1, <3>2, ThrownIs
    <3>4. sim' \in Simulations /\ sim'.queue = <<>> /\ sim' # None
      BY <3>1, <3>2, ThrownIs, NoneAssumption
    <3>5. WaitsForHeld'
      <4>1. Envelopes(sim'.results) = HeldWith(Queued)
        BY <3>2, <3>3, DecidedEnvelopes
      <4>2. HeldWith(Queued) \in Seq(Waits)
        BY <2>11, <3>1
      <4>3. HeldWith(Queued) \o <<>> = HeldWith(Queued)
        BY <4>2, ConcatEmptySeq
      <4>4. Held' = HeldWith(Queued)
        BY <3>4, <4>1, <4>3 DEF Held, HeldWith
      <4>5. QED BY <2>11, <3>1, <4>4 DEF WaitsForHeld
    <3>6. ResultsHappened'
      <4>1. Happened(sim'.results, fate')
        BY <2>11, <3>1, <3>2, <3>3, DecidedHappened
      <4>2. QED BY <4>1 DEF ResultsHappened
    <3>7. \A q \in Of(posted) : fate'[q] = fate[q]
      <4>1. Of(Queued) \cap Of(posted) = {}
        BY <2>11, <3>1, <3>2, HeldOnce
      <4>2. \A q \in Of(posted) : q \in Requests
        BY <2>4 DEF Of
      <4>3. QED BY <3>2, <3>3, <4>1, <4>2, DecisionsAre, FatesAre
    <3>8. VerdictIsItsOwn'
      BY <2>2, <3>1, <3>7, VerdictsStay
    <3>9. QED BY <3>5, <3>6, <3>8
  <2>14. ASSUME Tick \/ TickThrows
         PROVE  /\ sim # None /\ ~tickFailure /\ correlation = HeldWith(sim.queue)
                /\ Happened(sim.results, fate)
                /\ sim.queue \in Seq(Waits)
    <3>1. sim # None /\ speed # 0
      BY <2>14 DEF Tick, TickThrows, Ticks
    <3>2. ~tickFailure
      BY <3>1 DEF SaveInv, HaltedStands
    <3>3. QED BY <2>3, <2>3a, <3>1, <3>2, SimulationsAre
  <2>15. CASE Tick
    <3>1. PICK d \in Decisions(sim.queue, sim.log), content \in Contents :
            Decide(sim.queue, correlation, d, content)
      BY <2>15 DEF Tick
    <3>2. Decide(sim.queue, HeldWith(sim.queue), d, content)
      BY <2>14, <2>15, <3>1
    <3>3. Once(HeldWith(sim.queue)) /\ Of(HeldWith(sim.queue)) \cap Of(posted) = {}
      BY <2>3, <2>14, <2>15
    <3>4. correlation' = <<>> /\ sim'.queue = <<>> /\ sim'.results = <<>> /\ VerdictIsItsOwn'
      BY <2>2, <2>14, <2>15, <3>2, <3>3, DecidedAnswers
    <3>5. QED BY <2>0, <3>4
  <2>16. CASE TickThrows
    <3>1. tickFailure' /\ posted' = posted /\ Throws(sim.queue, "tick")
      BY <2>16 DEF TickThrows
    <3>2. PICK d \in Decisions(sim.queue, sim.log) : fate' = FateAfter(sim.queue, d)
      BY <2>14, <2>16, <3>1, ThrownIs
    <3>3. \A q \in Requests : q \notin Of(sim.queue) => fate'[q] = fate[q]
      BY <2>14, <2>16, <3>2, DecisionsAre, FatesAre
    <3>4. \A q \in Of(posted) : fate'[q] = fate[q]
      <4>1. Of(sim.queue) \cap Of(posted) = {}
        BY <2>3, <2>14, <2>16, HeldOnce
      <4>2. \A q \in Of(posted) : q \in Requests
        BY <2>4 DEF Of
      <4>3. QED BY <3>3, <4>1, <4>2
    <3>5. VerdictIsItsOwn'
      BY <2>2, <3>1, <3>4, VerdictsStay
    <3>6. QED BY <3>1, <3>5 DEF WaitsForHeld, ResultsHappened
  <2>17. CASE ClientReceives \/ LoseResponse
    <3>1. UNCHANGED <<sim, tickFailure, correlation, posted, fate>>
      BY <2>17
         DEF ClientReceives, HandleSnapshot, HandleStateDelta, Resynchronise, HandleSaveData,
         HandleOther, LoseResponse, Receives, worker, ghosts
    <3>2. VerdictIsItsOwn'
      BY <2>2, <3>1, VerdictsStay
    <3>3. QED BY <2>2, <3>1, <3>2 DEF WaitsForHeld, Held, HeldWith, ResultsHappened
  <2>18. CASE UNCHANGED vars
    <3>1. UNCHANGED <<sim, tickFailure, correlation, posted, fate>>
      BY <2>18 DEF vars, worker, ghosts
    <3>2. VerdictIsItsOwn'
      BY <2>2, <3>1, VerdictsStay
    <3>3. QED BY <2>2, <3>1, <3>2 DEF WaitsForHeld, Held, HeldWith, ResultsHappened
  <2>19. QED
    BY <2>5, <2>6, <2>7, <2>8, <2>10, <2>12, <2>13, <2>13a, <2>15, <2>16, <2>17, <2>18
       DEF Next, WorkerHandles
<1>3. QED
  BY <1>1, <1>2, TypeInvariant, OnePlaceInvariant, BegunInvariant, SaveInvariant, PTL DEF Spec

\* No caller is answered twice; and until the career is started again each is answered for
\* what it sent, and whoever still waits waits for an envelope that will be decided, or was
\* and whose result is still to be taken.
THEOREM VerdictReachesCaller == Spec => []VerdictReachesItsCaller
<1>1. ASSUME TypeInv, OnePlace PROVE AnsweredAtMostOnce
  <2>1. posted \in Seq(Answers)
    BY <1>1 DEF TypeInv, TypeOK, Answers
  <2>2. DOMAIN posted = 1 .. Len(posted)
    BY <2>1
  <2>3. QED BY <1>1, <2>2 DEF OnePlace, Once, AnsweredAtMostOnce
<1>2. ASSUME TypeInv, Answered, ~Restarted PROVE VerdictIsItsOwn /\ WaitingIsHeld
  <2>1. WaitsForHeld /\ VerdictIsItsOwn
    BY <1>2 DEF Answered
  <2>2. CASE sim = None
    <3>1. ~tickFailure => correlation = <<>>
      BY <2>1, <2>2 DEF WaitsForHeld, Held
    <3>2. RequestsOf(<<>>) = <<>>
      BY DEF RequestsOf
    <3>3. QED BY <2>1, <2>2, <3>1, <3>2 DEF WaitingIsHeld
  <2>3. CASE sim # None
    <3> DEFINE names == RequestsOf(sim.results) \o RequestsOf(sim.queue)
    <3>1. /\ sim.results \in Seq(Outcomes) /\ sim.queue \in Seq(Waits)
          /\ sim.queue \in Seq(Waits) /\ HeldWith(sim.queue) \in Seq(Waits)
          /\ Len(HeldWith(sim.queue)) = Len(sim.results) + Len(sim.queue)
          /\ \A i \in 1 .. Len(sim.results) :
               HeldWith(sim.queue)[i].request = sim.results[i].request
          /\ \A i \in 1 .. Len(sim.queue) :
               HeldWith(sim.queue)[Len(sim.results) + i] = sim.queue[i]
      <4>1. sim.queue \in Seq(Waits)
        BY <1>2, <2>3, SimulationsAre DEF TypeInv, TypeOK
      <4>2. /\ sim.results \in Seq(Outcomes) /\ HeldWith(sim.queue) \in Seq(Waits)
            /\ Len(HeldWith(sim.queue)) = Len(sim.results) + Len(sim.queue)
            /\ \A i \in 1 .. Len(sim.results) :
                 HeldWith(sim.queue)[i]
                   = [id |-> sim.results[i].id, request |-> sim.results[i].request]
            /\ \A i \in 1 .. Len(sim.queue) :
                 HeldWith(sim.queue)[Len(sim.results) + i] = sim.queue[i]
        BY <1>2, <2>3, <4>1, HeldIs
      <4>3. \A i \in 1 .. Len(sim.results) :
               HeldWith(sim.queue)[i].request = sim.results[i].request
        <5>1. SUFFICES ASSUME NEW i \in 1 .. Len(sim.results)
                       PROVE  HeldWith(sim.queue)[i].request = sim.results[i].request
          OBVIOUS
        <5>2. HeldWith(sim.queue)[i]
                = [id |-> sim.results[i].id, request |-> sim.results[i].request]
          BY <4>2
        <5>3. QED BY ONLY <5>2
      <4>4. QED BY ONLY <4>1, <4>2, <4>3, Zenon
    <3>2. RequestsOf(HeldWith(sim.queue)) = names
      <4> DEFINE s == sim.results
                 q == sim.queue
                 w == HeldWith(sim.queue)
      <4>1. /\ s \in Seq(Outcomes) /\ q \in Seq(Waits) /\ w \in Seq(Waits)
            /\ Len(w) = Len(s) + Len(q)
            /\ \A i \in 1 .. Len(s) : w[i].request = s[i].request
            /\ \A i \in 1 .. Len(q) : w[Len(s) + i] = q[i]
        BY <3>1
      <4> HIDE DEF s, q, w
      <4>2. /\ Len(s) \in Nat /\ Len(q) \in Nat
            /\ DOMAIN s = 1 .. Len(s) /\ DOMAIN q = 1 .. Len(q) /\ DOMAIN w = 1 .. Len(w)
        BY <4>1
      <4>3. /\ \A i \in 1 .. Len(s) : s[i].request \in Requests
            /\ \A i \in 1 .. Len(q) : q[i].request \in Requests
            /\ \A i \in 1 .. Len(w) : w[i].request \in Requests
        <5>1. \A x \in Seq(Waits) : \A i \in 1 .. Len(x) : x[i].request \in Requests
          <6>1. SUFFICES ASSUME NEW x \in Seq(Waits), NEW i \in 1 .. Len(x)
                         PROVE  x[i].request \in Requests
            OBVIOUS
          <6>2. x[i] \in Waits
            OBVIOUS
          <6>3. QED BY <6>2 DEF Waits
        <5>2. QED BY <4>1, <5>1, OutcomesAre
      <4>4. /\ RequestsOf(s) \in Seq(Requests) /\ Len(RequestsOf(s)) = Len(s)
            /\ \A i \in 1 .. Len(s) : RequestsOf(s)[i] = s[i].request
        BY <4>2, <4>3 DEF RequestsOf
      <4>5. /\ RequestsOf(q) \in Seq(Requests) /\ Len(RequestsOf(q)) = Len(q)
            /\ \A i \in 1 .. Len(q) : RequestsOf(q)[i] = q[i].request
        BY <4>2, <4>3 DEF RequestsOf
      <4>6. /\ RequestsOf(w) \in Seq(Requests) /\ Len(RequestsOf(w)) = Len(w)
            /\ \A i \in 1 .. Len(w) : RequestsOf(w)[i] = w[i].request
        BY <4>1, <4>2, <4>3 DEF RequestsOf
      <4> DEFINE a == RequestsOf(s)
                 b == RequestsOf(q)
                 c == RequestsOf(w)
      <4> HIDE DEF a, b, c
      <4>7. /\ a \o b \in Seq(Requests) /\ Len(a \o b) = Len(a) + Len(b)
            /\ \A i \in 1 .. Len(a) + Len(b) :
                 (a \o b)[i] = IF i <= Len(a) THEN a[i] ELSE b[i - Len(a)]
        <5>1. a \in Seq(Requests) /\ b \in Seq(Requests)
          BY <4>4, <4>5 DEF a, b
        <5>2. QED BY ONLY <5>1, ConcatProperties
      <4>8. ASSUME NEW i \in 1 .. Len(s) + Len(q) PROVE c[i] = (a \o b)[i]
        <5>1. CASE i <= Len(s)
          <6>1. i \in 1 .. Len(s)
            BY <4>2, <5>1
          <6>2. (a \o b)[i] = a[i]
            BY <4>4, <4>5, <4>7, <5>1 DEF a, b
          <6>3. QED BY <4>1, <4>4, <4>6, <6>1, <6>2 DEF a, c
        <5>2. CASE ~(i <= Len(s))
          <6>1. PICK j \in 1 .. Len(q) : i = Len(s) + j /\ j = i - Len(s)
            <7>1. i - Len(s) \in 1 .. Len(q) /\ i = Len(s) + (i - Len(s))
              BY <4>2, <5>2
            <7>2. QED BY <7>1
          <6>2. (a \o b)[i] = b[j]
            BY <4>4, <4>5, <4>7, <5>2, <6>1 DEF a, b
          <6>3. w[i] = q[j]
            <7>1. j \in 1 .. Len(q)
              BY <6>1
            <7>2. w[Len(s) + j] = q[j]
              BY <4>1, <7>1
            <7>3. QED BY <6>1, <7>2
          <6>4. QED BY <4>1, <4>5, <4>6, <6>1, <6>2, <6>3 DEF b, c
        <5>3. QED BY <5>1, <5>2
      <4>9. c = a \o b
        <5>1. c \in Seq(Requests) /\ Len(c) = Len(s) + Len(q)
          BY <4>1, <4>6 DEF c
        <5>2. Len(a \o b) = Len(s) + Len(q)
          BY <4>4, <4>5, <4>7 DEF a, b
        <5>3. QED BY <4>7, <4>8, <5>1, <5>2, SeqEqual
      <4>10. QED BY <4>9 DEF a, b, c, s, q, w
    <3>3. QED BY <2>1, <2>3, <3>2 DEF WaitsForHeld, Held, WaitingIsHeld
  <2>4. QED BY <2>2, <2>3
<1>3. TypeInv /\ OnePlace /\ Begun /\ Answered => VerdictReachesItsCaller
  BY <1>1, <1>2 DEF VerdictReachesItsCaller
<1>4. QED
  BY <1>3, TypeInvariant, OnePlaceInvariant, BegunInvariant, AnsweredInvariant, PTL

\* Every variable keeps its type.
THEOREM TypeCorrect == Spec => []TypeOK
<1>1. TypeInv => TypeOK
  BY DEF TypeInv
<1>2. QED BY <1>1, TypeInvariant, PTL
=============================================================================
