---------------------------- MODULE DataInduction ----------------------------
(***************************************************************************)
(* Induction stated over sets, and what rests on it: recursions and sifted *)
(* lists.  The library states its induction theorems for an operator       *)
(* parameter; the least-element form below needs none and serves for       *)
(* whatever can be written as a set of numbers.                            *)
(***************************************************************************)
EXTENDS Lists, Functions, FiniteSetTheorems, WellFoundedInduction, TLAPS

\* Every set of natural numbers that holds one has a least.
LEMMA LeastNumber ==
  ASSUME NEW T, T \subseteq Nat, T # {}
  PROVE  \E x \in T : \A y \in T : x <= y
<1> DEFINE R == OpToRel(<, Nat)
<1>1. IsWellFoundedOn(R, Nat)
  BY NatLessThanWellFounded
<1>2. \A y, x \in Nat : y < x => <<y, x>> \in R
  BY DEF OpToRel
<1> HIDE DEF R
<1>3. PICK x \in T : \A y \in T : ~(<<y, x>> \in R)
  BY <1>1, WFMin
<1>4. \A y \in T : ~(y < x)
  BY <1>2, <1>3
<1>5. \A y \in T : x <= y
  BY <1>4
<1>6. QED BY <1>5

\* A set that holds 0, and with a number its successor, holds every number.
LEMMA SetInduction ==
  ASSUME NEW P, 0 \in P, \A n \in Nat : n \in P => n + 1 \in P
  PROVE  Nat \subseteq P
<1> DEFINE T == Nat \ P
<1>1. SUFFICES ASSUME T # {} PROVE FALSE
  OBVIOUS
<1>2. PICK x \in T : \A y \in T : x <= y
  <2>1. T \subseteq Nat
    OBVIOUS
  <2> HIDE DEF T
  <2>2. QED BY <1>1, <2>1, LeastNumber
<1>3. x - 1 \in Nat
  OBVIOUS
<1>4. x - 1 \in P
  BY <1>2, <1>3
<1>5. (x - 1) + 1 \in P
  BY <1>3, <1>4
<1>6. QED BY <1>5

\* The same up to a bound, for what is defined no further.
LEMMA BoundedInduction ==
  ASSUME NEW N \in Nat, NEW P, 0 \in P, \A n \in 0 .. N - 1 : n \in P => n + 1 \in P
  PROVE  0 .. N \subseteq P
<1> DEFINE Q == {n \in Nat : n <= N => n \in P}
<1>1. 0 \in Q
  OBVIOUS
<1>2. \A n \in Nat : n \in Q => n + 1 \in Q
  <2>1. SUFFICES ASSUME NEW n \in Nat, n \in Q, n + 1 <= N PROVE n + 1 \in P
    OBVIOUS
  <2>2. n \in 0 .. N - 1 /\ n \in P
    BY <2>1
  <2>3. QED BY <2>2
<1>3. Nat \subseteq Q
  <2> HIDE DEF Q
  <2>1. QED BY <1>1, <1>2, SetInduction
<1>4. QED BY <1>3

\* What a recursion computes, from a first value and a step, up to a bound.
CoursesOf(N, V, base, step) ==
  {f \in [0 .. N -> V] : f[0] = base /\ \A n \in 1 .. N : f[n] = step[<<f[n - 1], n>>]}

\* A recursion whose step stays within a set of values computes something.
LEMMA BoundedRecursion ==
  ASSUME NEW N \in Nat, NEW V, NEW base \in V, NEW step \in [V \X (1 .. N) -> V]
  PROVE  CoursesOf(N, V, base, step) # {}
<1> DEFINE Solves(f, m) == f[0] = base /\ \A n \in 1 .. m : f[n] = step[<<f[n - 1], n>>]
           P == {m \in 0 .. N : \E f \in [0 .. m -> V] : Solves(f, m)}
<1>1. 0 \in P
  <2> DEFINE f == [n \in 0 .. 0 |-> base]
  <2>1. f \in [0 .. 0 -> V] /\ Solves(f, 0)
    OBVIOUS
  <2>2. 0 \in 0 .. N
    OBVIOUS
  <2> HIDE DEF f, Solves
  <2>3. QED BY <2>1, <2>2
<1>2. \A m \in 0 .. N - 1 : m \in P => m + 1 \in P
  <2>1. SUFFICES ASSUME NEW m \in 0 .. N - 1, m \in P PROVE m + 1 \in P
    OBVIOUS
  <2>2. PICK f \in [0 .. m -> V] : Solves(f, m)
    BY <2>1
  <2> DEFINE last == step[<<f[m], m + 1>>]
             g == [n \in 0 .. m + 1 |-> IF n = m + 1 THEN last ELSE f[n]]
  <2>3. last \in V
    OBVIOUS
  <2>4. g \in [0 .. m + 1 -> V]
    BY <2>3
  <2>5. \A n \in 1 .. m + 1 : g[n] = step[<<g[n - 1], n>>]
    <3>1. SUFFICES ASSUME NEW n \in 1 .. m + 1 PROVE g[n] = step[<<g[n - 1], n>>]
      OBVIOUS
    <3>2. CASE n = m + 1
      <4>1. g[n] = last /\ n - 1 = m
        BY <3>2
      <4>2. g[m] = f[m]
        OBVIOUS
      <4>3. QED BY <3>2, <4>1, <4>2
    <3>3. CASE n # m + 1
      <4>1. n \in 1 .. m
        BY <3>3
      <4>2. g[n] = f[n] /\ g[n - 1] = f[n - 1]
        BY <4>1
      <4>3. f[n] = step[<<f[n - 1], n>>]
        BY <2>2, <4>1
      <4>4. QED BY <4>2, <4>3
    <3>4. QED BY <3>2, <3>3
  <2>6. Solves(g, m + 1)
    <3>1. g[0] = f[0]
      OBVIOUS
    <3> HIDE DEF last, g
    <3>2. QED BY <2>2, <2>5, <3>1
  <2>7. m + 1 \in 0 .. N
    OBVIOUS
  <2> HIDE DEF g, Solves
  <2>8. QED BY <2>4, <2>6, <2>7
<1>3. N \in P
  <2> HIDE DEF P
  <2>1. 0 .. N \subseteq P
    BY <1>1, <1>2, BoundedInduction
  <2>2. QED BY <2>1
<1>4. QED BY <1>3 DEF CoursesOf
-----------------------------------------------------------------------------
(* Lists.                                                                  *)

\* What is put at the end of a list is in it, and once if it was not.
LEMMA Appended ==
  ASSUME NEW V, NEW s \in Seq(V), NEW x \in V
  PROVE  /\ Append(s, x) \in Seq(V)
         /\ ElementsOf(Append(s, x)) = ElementsOf(s) \cup {x}
         /\ NoneTwice(s) /\ x \notin ElementsOf(s) => NoneTwice(Append(s, x))
PROOF
  <1> DEFINE t == Append(s, x)
  <1>1. /\ t \in Seq(V) /\ Len(t) = Len(s) + 1 /\ t[Len(s) + 1] = x
        /\ \A i \in 1 .. Len(s) : t[i] = s[i]
        /\ DOMAIN t = 1 .. Len(t) /\ DOMAIN s = 1 .. Len(s) /\ Len(s) \in Nat
    OBVIOUS
  <1> HIDE DEF t
  <1>2. \A i \in DOMAIN t : i \in DOMAIN s \/ i = Len(s) + 1
    BY <1>1
  <1>3. \A i \in DOMAIN s : i \in DOMAIN t /\ i # Len(s) + 1
    BY <1>1
  <1>4. Len(s) + 1 \in DOMAIN t
    BY <1>1
  <1>5. ElementsOf(t) = ElementsOf(s) \cup {x}
    BY <1>1, <1>2, <1>3, <1>4 DEF ElementsOf
  <1>6. NoneTwice(s) /\ x \notin ElementsOf(s) => NoneTwice(t)
    BY <1>1, <1>2 DEF NoneTwice, ElementsOf
  <1>7. QED BY <1>1, <1>5, <1>6 DEF t

\* What a sifting computes, element by element.
SiftingCourses(V, s, kept) ==
  {u \in [0 .. Len(s) -> Seq(V)] :
     /\ u[0] = <<>>
     /\ \A n \in 1 .. Len(s) :
          u[n] = IF s[n] \in kept THEN Append(u[n - 1], s[n]) ELSE u[n - 1]
     /\ Sifted(s, kept) = u[Len(s)]}

LEMMA SiftingCourse ==
  ASSUME NEW V, NEW s \in Seq(V), NEW kept
  PROVE  SiftingCourses(V, s, kept) # {}
PROOF
  <1> DEFINE N == Len(s)
             step == [p \in Seq(V) \X (1 .. N) |->
                        IF s[p[2]] \in kept THEN Append(p[1], s[p[2]]) ELSE p[1]]
             Solves(f) == f = [n \in 0 .. N |->
                IF n = 0 THEN <<>>
                ELSE IF s[n] \in kept THEN Append(f[n - 1], s[n]) ELSE f[n - 1]]
             u == CHOOSE f : Solves(f)
  <1>1. N \in Nat /\ \A n \in 1 .. N : s[n] \in V
    OBVIOUS
  <1>2. step \in [Seq(V) \X (1 .. N) -> Seq(V)]
    <2>1. ASSUME NEW t \in Seq(V), NEW n \in 1 .. N PROVE Append(t, s[n]) \in Seq(V)
      BY <1>1, Appended
    <2>2. QED BY <2>1
  <1>3. PICK f \in [0 .. N -> Seq(V)] :
          f[0] = <<>> /\ \A n \in 1 .. N : f[n] = step[<<f[n - 1], n>>]
    <2> HIDE DEF N, step
    <2>1. <<>> \in Seq(V)
      OBVIOUS
    <2>2. CoursesOf(N, Seq(V), <<>>, step) # {}
      BY <1>1, <1>2, <2>1, BoundedRecursion
    <2>3. QED BY <2>2 DEF CoursesOf
  <1>4. \A n \in 1 .. N :
          step[<<f[n - 1], n>>] = IF s[n] \in kept THEN Append(f[n - 1], s[n]) ELSE f[n - 1]
    <2>1. SUFFICES ASSUME NEW n \in 1 .. N
                   PROVE  step[<<f[n - 1], n>>] =
                            IF s[n] \in kept THEN Append(f[n - 1], s[n]) ELSE f[n - 1]
      OBVIOUS
    <2>2. f[n - 1] \in Seq(V)
      BY <1>1
    <2>3. QED BY <2>2
  <1>5. Solves(f)
    <2>1. f = [n \in 0 .. N |-> f[n]]
      OBVIOUS
    <2> HIDE DEF N, step
    <2>2. \A n \in 0 .. N : f[n] =
            IF n = 0 THEN <<>>
            ELSE IF s[n] \in kept THEN Append(f[n - 1], s[n]) ELSE f[n - 1]
      <3>1. \A n \in 0 .. N : n = 0 \/ n \in 1 .. N
        BY <1>1
      <3>2. QED BY <1>3, <1>4, <3>1
    <2>3. QED BY <2>1, <2>2, Zenon
  <1>6. Solves(u)
    <2> HIDE DEF Solves
    <2>1. QED BY <1>5
  <1>7. Sifted(s, kept) = u[N]
    BY DEF Sifted
  <1> HIDE DEF u
  <1>8. u[0] = <<>>
    <2>1. 0 \in 0 .. N
      BY <1>1
    <2> HIDE DEF N
    <2>2. u[0] = IF 0 = 0 THEN <<>>
                 ELSE IF s[0] \in kept THEN Append(u[0 - 1], s[0]) ELSE u[0 - 1]
      BY <1>6, <2>1, Zenon
    <2>3. QED BY <2>2
  <1>9. \A n \in 1 .. N : u[n] = IF s[n] \in kept THEN Append(u[n - 1], s[n]) ELSE u[n - 1]
    <2> SUFFICES ASSUME NEW n \in 1 .. N
                 PROVE  u[n] = IF s[n] \in kept THEN Append(u[n - 1], s[n]) ELSE u[n - 1]
      OBVIOUS
    <2>1. n \in 0 .. N /\ n # 0
      BY <1>1
    <2> HIDE DEF N
    <2>2. u[n] = IF n = 0 THEN <<>>
                 ELSE IF s[n] \in kept THEN Append(u[n - 1], s[n]) ELSE u[n - 1]
      BY <1>6, <2>1, Zenon
    <2>3. QED BY <2>1, <2>2
  <1>10. u \in [0 .. N -> Seq(V)]
    <2> DEFINE P == {n \in 0 .. N : u[n] \in Seq(V)}
    <2>1. 0 \in P
      <3>1. 0 \in 0 .. N /\ <<>> \in Seq(V)
        BY <1>1
      <3>2. QED BY <1>8, <3>1
    <2>2. \A n \in 0 .. N - 1 : n \in P => n + 1 \in P
      <3>1. SUFFICES ASSUME NEW n \in 0 .. N - 1, u[n] \in Seq(V) PROVE u[n + 1] \in Seq(V)
        BY <1>1
      <3>2. n + 1 \in 1 .. N /\ (n + 1) - 1 = n
        BY <1>1
      <3>3. u[n + 1] = IF s[n + 1] \in kept THEN Append(u[n], s[n + 1]) ELSE u[n]
        BY <1>9, <3>2
      <3>4. Append(u[n], s[n + 1]) \in Seq(V)
        BY <1>1, <3>1, <3>2, Appended
      <3>5. QED BY <3>1, <3>3, <3>4
    <2> HIDE DEF P
    <2>3. 0 .. N \subseteq P
      BY <1>1, <2>1, <2>2, BoundedInduction
    <2>4. \A n \in 0 .. N : u[n] \in Seq(V)
      BY <2>3 DEF P
    <2>5. u = [n \in 0 .. N |-> u[n]]
      BY <1>6
    <2>6. QED BY <2>4, <2>5
  <1>11. QED BY <1>7, <1>8, <1>9, <1>10 DEF SiftingCourses

\* Sifting keeps the elements meant, each as often as before.
LEMMA SiftedIs ==
  ASSUME NEW V, NEW s \in Seq(V), NEW kept
  PROVE  /\ Sifted(s, kept) \in Seq(V)
         /\ ElementsOf(Sifted(s, kept)) = ElementsOf(s) \cap kept
         /\ NoneTwice(s) => NoneTwice(Sifted(s, kept))
PROOF
  <1>1. PICK u \in [0 .. Len(s) -> Seq(V)] :
          /\ u[0] = <<>>
          /\ \A n \in 1 .. Len(s) :
               u[n] = IF s[n] \in kept THEN Append(u[n - 1], s[n]) ELSE u[n - 1]
          /\ Sifted(s, kept) = u[Len(s)]
    <2>1. SiftingCourses(V, s, kept) # {}
      BY SiftingCourse
    <2>2. QED BY <2>1, Zenon DEF SiftingCourses
  <1> DEFINE N == Len(s)
             First(n) == {s[i] : i \in 1 .. n}
  <1>2. N \in Nat /\ DOMAIN s = 1 .. N /\ \A n \in 1 .. N : s[n] \in V
    OBVIOUS
  <1> DEFINE P == {n \in 0 .. N : /\ ElementsOf(u[n]) = First(n) \cap kept
                                  /\ NoneTwice(s) => NoneTwice(u[n])}
  <1>3. 0 \in P
    BY <1>1, <1>2 DEF ElementsOf, NoneTwice
  <1>4. \A n \in 0 .. N - 1 : n \in P => n + 1 \in P
    <2>1. SUFFICES ASSUME NEW n \in 0 .. N - 1, n \in P PROVE n + 1 \in P
      OBVIOUS
    <2> DEFINE x == s[n + 1]
    <2>2. n + 1 \in 1 .. N /\ (n + 1) - 1 = n /\ n \in 0 .. N /\ n + 1 \in 0 .. N /\ x \in V
      BY <1>2
    <2>3. u[n + 1] = IF x \in kept THEN Append(u[n], x) ELSE u[n]
      BY <1>1, <2>2
    <2>4. First(n + 1) = First(n) \cup {x}
      <3>1. \A i \in 1 .. n + 1 : i \in 1 .. n \/ i = n + 1
        BY <2>2
      <3>2. \A i \in 1 .. n : i \in 1 .. n + 1
        BY <2>2
      <3>3. n + 1 \in 1 .. n + 1
        BY <2>2
      <3>4. QED BY <3>1, <3>2, <3>3
    <2>5. NoneTwice(s) => x \notin First(n)
      BY <1>2, <2>2 DEF NoneTwice
    <2>6. u[n] \in Seq(V)
      BY <1>1, <2>2
    <2>7. /\ ElementsOf(u[n]) = First(n) \cap kept
          /\ NoneTwice(s) => NoneTwice(u[n])
      BY <2>1
    <2> HIDE DEF P, First, x, N
    <2>8. /\ ElementsOf(u[n + 1]) = First(n + 1) \cap kept
          /\ NoneTwice(s) => NoneTwice(u[n + 1])
      <3>1. CASE x \in kept
        <4>1. /\ ElementsOf(Append(u[n], x)) = ElementsOf(u[n]) \cup {x}
              /\ NoneTwice(u[n]) /\ x \notin ElementsOf(u[n]) => NoneTwice(Append(u[n], x))
          BY <2>2, <2>6, Appended
        <4>2. QED BY <2>3, <2>4, <2>5, <2>7, <3>1, <4>1
      <3>2. CASE x \notin kept
        BY <2>3, <2>4, <2>7, <3>2
      <3>3. QED BY <3>1, <3>2
    <2>9. QED BY <2>2, <2>8 DEF P
  <1> HIDE DEF P
  <1>5. 0 .. N \subseteq P
    BY <1>2, <1>3, <1>4, BoundedInduction
  <1>6. N \in P
    BY <1>2, <1>5
  <1>7. ElementsOf(s) = First(N)
    BY <1>2 DEF ElementsOf
  <1>8. u[N] \in Seq(V)
    BY <1>1, <1>2
  <1> HIDE DEF N, First
  <1>9. QED BY <1>1, <1>6, <1>7, <1>8 DEF P, N

\* Two places of what was sifted are two places of the list.
LEMMA SiftedApart ==
  ASSUME NEW V, NEW s \in Seq(V), NEW kept,
         NEW i \in DOMAIN Sifted(s, kept), NEW j \in DOMAIN Sifted(s, kept), i # j
  PROVE  \E k, l \in DOMAIN s :
           k # l /\ s[k] = Sifted(s, kept)[i] /\ s[l] = Sifted(s, kept)[j]
PROOF
  <1>1. PICK u \in [0 .. Len(s) -> Seq(V)] :
          /\ u[0] = <<>>
          /\ \A n \in 1 .. Len(s) :
               u[n] = IF s[n] \in kept THEN Append(u[n - 1], s[n]) ELSE u[n - 1]
          /\ Sifted(s, kept) = u[Len(s)]
    <2>1. SiftingCourses(V, s, kept) # {}
      BY SiftingCourse
    <2>2. QED BY <2>1, Zenon DEF SiftingCourses
  <1> DEFINE N == Len(s)
             From(t, n) == /\ \A a \in DOMAIN t : \E k \in 1 .. n : s[k] = t[a]
                           /\ \A a, b \in DOMAIN t : a # b =>
                                \E k, l \in 1 .. n : k # l /\ s[k] = t[a] /\ s[l] = t[b]
             P == {n \in 0 .. N : From(u[n], n)}
  <1>2. N \in Nat /\ DOMAIN s = 1 .. N /\ \A n \in 1 .. N : s[n] \in V
    OBVIOUS
  <1>3. 0 \in P
    BY <1>1, <1>2
  <1>4. \A n \in 0 .. N - 1 : n \in P => n + 1 \in P
    <2>1. SUFFICES ASSUME NEW n \in 0 .. N - 1, n \in P PROVE n + 1 \in P
      OBVIOUS
    <2> DEFINE x == s[n + 1]
               t == u[n]
    <2>2. n + 1 \in 1 .. N /\ (n + 1) - 1 = n /\ n \in 0 .. N /\ n + 1 \in 0 .. N /\ x \in V
      BY <1>2
    <2>3. u[n + 1] = IF x \in kept THEN Append(t, x) ELSE t
      BY <1>1, <2>2
    <2>4. t \in Seq(V) /\ DOMAIN t = 1 .. Len(t) /\ Len(t) \in Nat
      BY <1>1, <2>2
    <2>5. From(t, n)
      BY <2>1
    <2>6. \A k \in 1 .. n : k \in 1 .. n + 1 /\ k # n + 1
      BY <2>2
    <2>7. n + 1 \in 1 .. n + 1
      BY <2>2
    <2>8. CASE x \in kept
      <3> DEFINE v == Append(t, x)
      <3>1. /\ DOMAIN v = 1 .. Len(t) + 1 /\ v[Len(t) + 1] = x
            /\ \A a \in 1 .. Len(t) : v[a] = t[a]
        BY <2>2, <2>4
      <3>2. u[n + 1] = v
        BY <2>3, <2>8
      <3> HIDE DEF v, t, P, N
      <3>3. \A a \in DOMAIN v : (a \in DOMAIN t /\ v[a] = t[a]) \/ (a = Len(t) + 1 /\ v[a] = s[n + 1])
        BY <2>4, <3>1
      <3>4. \A a \in DOMAIN v : \E k \in 1 .. n + 1 : s[k] = v[a]
        BY <2>5, <2>6, <2>7, <3>3
      <3>5. ASSUME NEW a \in DOMAIN v, NEW b \in DOMAIN v, a # b
            PROVE  \E k, l \in 1 .. n + 1 : k # l /\ s[k] = v[a] /\ s[l] = v[b]
        <4>1. CASE a \in DOMAIN t /\ v[a] = t[a] /\ b \in DOMAIN t /\ v[b] = t[b]
          BY <2>5, <2>6, <3>5, <4>1
        <4>2. CASE a \in DOMAIN t /\ v[a] = t[a] /\ v[b] = s[n + 1]
          BY <2>5, <2>6, <2>7, <4>2
        <4>3. CASE b \in DOMAIN t /\ v[b] = t[b] /\ v[a] = s[n + 1]
          BY <2>5, <2>6, <2>7, <4>3
        <4>4. QED BY <3>3, <3>5, <4>1, <4>2, <4>3
      <3>6. From(v, n + 1)
        BY <3>4, <3>5
      <3> HIDE DEF From
      <3>7. From(u[n + 1], n + 1)
        BY <3>2, <3>6
      <3>8. QED BY <2>2, <3>7 DEF P
    <2>9. CASE x \notin kept
      <3>1. u[n + 1] = t
        BY <2>3, <2>9
      <3> HIDE DEF t
      <3>2. From(t, n + 1)
        BY <2>5, <2>6
      <3> HIDE DEF From
      <3>3. From(u[n + 1], n + 1)
        BY <3>1, <3>2
      <3>4. QED BY <2>2, <3>3
    <2>10. QED BY <2>8, <2>9
  <1>5. N \in P
    <2> HIDE DEF P
    <2>1. 0 .. N \subseteq P
      BY <1>2, <1>3, <1>4, BoundedInduction
    <2>2. QED BY <1>2, <2>1
  <1>6. From(u[N], N)
    BY <1>5
  <1>7. QED BY <1>1, <1>2, <1>6
-----------------------------------------------------------------------------
(* Sums over finite sets, of which the library says how they are added up. *)

\* What holds of the empty set, and with a set of the set and one more, holds of all of them.
LEMMA SubsetInduction ==
  ASSUME NEW S, IsFiniteSet(S), NEW P, {} \in P,
         \A T \in SUBSET S, x \in S : T \in P /\ x \notin T => T \cup {x} \in P
  PROVE  S \in P
  <1> DEFINE Q == {n \in Nat : \A T \in SUBSET S : Cardinality(T) = n => T \in P}
  <1>1. \A T \in SUBSET S : IsFiniteSet(T) /\ Cardinality(T) \in Nat
    <2>1. ASSUME NEW T \in SUBSET S PROVE IsFiniteSet(T) /\ Cardinality(T) \in Nat
      <3>1. IsFiniteSet(T)
        BY FS_Subset
      <3>2. QED BY <3>1, FS_CardinalityType
    <2>2. QED BY <2>1
  <1>2. 0 \in Q
    <2>1. \A T \in SUBSET S : Cardinality(T) = 0 => T = {}
      BY <1>1, FS_EmptySet
    <2>2. QED BY <2>1
  <1>3. \A n \in Nat : n \in Q => n + 1 \in Q
    <2>1. SUFFICES ASSUME NEW n \in Nat, n \in Q, NEW T \in SUBSET S, Cardinality(T) = n + 1
                   PROVE  T \in P
      OBVIOUS
    <2>2. T # {}
      <3>1. Cardinality({}) = 0
        BY FS_EmptySet
      <3>2. QED BY <2>1, <3>1
    <2>3. PICK x \in T : TRUE
      BY <2>2
    <2>4. T \ {x} \in SUBSET S /\ x \notin T \ {x} /\ (T \ {x}) \cup {x} = T /\ x \in S
      BY <2>3
    <2>5. Cardinality(T \ {x}) = n
      <3>1. Cardinality(T \ {x}) = Cardinality(T) - 1
        BY <1>1, <2>3, FS_RemoveElement
      <3>2. QED BY <2>1, <3>1
    <2>6. T \ {x} \in P
      BY <2>1, <2>4, <2>5
    <2>7. (T \ {x}) \cup {x} \in P
      <3> DEFINE U == T \ {x}
      <3>1. U \in SUBSET S /\ x \notin U /\ U \in P /\ x \in S
        BY <2>4, <2>6
      <3> HIDE DEF U
      <3>2. U \cup {x} \in P
        BY <3>1
      <3>3. QED BY <3>2 DEF U
    <2>8. QED BY <2>4, <2>7
  <1>4. Nat \subseteq Q
    <2> HIDE DEF Q
    <2>1. QED BY <1>2, <1>3, SetInduction
  <1>5. S \in SUBSET S /\ Cardinality(S) \in Nat
    BY <1>1
  <1>6. QED BY <1>4, <1>5

\* The element that the library takes first out of a set.
FirstOut(T) == CHOOSE x \in T : TRUE

LEMMA FirstOutOf == \A T : T # {} => FirstOut(T) \in T
  BY DEF FirstOut

\* What a summing computes, of every part of a set.
SumCourses(w, S) ==
  {g \in [SUBSET S -> Int] :
     /\ g[{}] = 0
     /\ \A T \in SUBSET S : T # {} => g[T] = w[FirstOut(T)] + g[T \ {FirstOut(T)}]}

LEMMA SumCourse ==
  ASSUME NEW S, IsFiniteSet(S), NEW w, \A x \in S : w[x] \in Int
  PROVE  SumCourses(w, S) # {}
  <1> DEFINE Small(n) == {T \in SUBSET S : Cardinality(T) <= n}
             Solves(g, n) ==
               /\ g[{}] = 0
               /\ \A T \in Small(n) : T # {} => g[T] = w[FirstOut(T)] + g[T \ {FirstOut(T)}]
             P == {n \in Nat : \E g \in [Small(n) -> Int] : Solves(g, n)}
  <1>1. \A T \in SUBSET S : IsFiniteSet(T) /\ Cardinality(T) \in Nat
    <2>1. ASSUME NEW T \in SUBSET S PROVE IsFiniteSet(T) /\ Cardinality(T) \in Nat
      <3>1. IsFiniteSet(T)
        BY FS_Subset
      <3>2. QED BY <3>1, FS_CardinalityType
    <2>2. QED BY <2>1
  <1>2. {} \in SUBSET S /\ Cardinality({}) = 0
    BY FS_EmptySet
  <1>3. \A T \in SUBSET S : T # {} =>
          /\ FirstOut(T) \in T /\ T \ {FirstOut(T)} \in SUBSET S
          /\ Cardinality(T \ {FirstOut(T)}) = Cardinality(T) - 1
    <2>1. SUFFICES ASSUME NEW T \in SUBSET S, T # {}
                   PROVE  /\ FirstOut(T) \in T /\ T \ {FirstOut(T)} \in SUBSET S
                          /\ Cardinality(T \ {FirstOut(T)}) = Cardinality(T) - 1
      OBVIOUS
    <2>2. FirstOut(T) \in T
      BY <2>1, FirstOutOf
    <2>3. QED BY <1>1, <2>2, FS_RemoveElement
  <1>4. 0 \in P
    <2> DEFINE g == [T \in Small(0) |-> 0]
    <2>1. \A T \in Small(0) : T = {}
      <3>1. \A T \in SUBSET S : Cardinality(T) = 0 => T = {}
        BY <1>1, FS_EmptySet
      <3>2. QED BY <1>1, <3>1
    <2>2. {} \in Small(0)
      BY <1>2
    <2>3. g \in [Small(0) -> Int] /\ Solves(g, 0)
      BY <2>1, <2>2
    <2> HIDE DEF g, Solves
    <2>4. QED BY <2>3
  <1>5. \A n \in Nat : n \in P => n + 1 \in P
    <2>1. SUFFICES ASSUME NEW n \in Nat, n \in P PROVE n + 1 \in P
      OBVIOUS
    <2>2. PICK g \in [Small(n) -> Int] : Solves(g, n)
      BY <2>1
    <2> DEFINE value(T) == IF T \in Small(n) THEN g[T] ELSE w[FirstOut(T)] + g[T \ {FirstOut(T)}]
               h == [T \in Small(n + 1) |-> value(T)]
    <2>3. \A T \in Small(n) : T \in Small(n + 1)
      BY <1>1
    <2>4. \A T \in Small(n + 1) : T # {} => T \ {FirstOut(T)} \in Small(n)
      BY <1>1, <1>3
    <2>5. {} \in Small(n)
      BY <1>2
    <2>6. \A T \in Small(n + 1) : value(T) \in Int
      <3>1. SUFFICES ASSUME NEW T \in Small(n + 1), T \notin Small(n)
                     PROVE w[FirstOut(T)] + g[T \ {FirstOut(T)}] \in Int
        BY <2>2
      <3>2. T # {} /\ T \in SUBSET S
        BY <2>5, <3>1
      <3>3. FirstOut(T) \in S /\ T \ {FirstOut(T)} \in Small(n)
        BY <1>3, <2>4, <3>1, <3>2
      <3> HIDE DEF Small
      <3>4. w[FirstOut(T)] \in Int /\ g[T \ {FirstOut(T)}] \in Int
        BY <2>2, <3>3
      <3>5. QED BY <3>4
    <2> HIDE DEF value
    <2>7. h \in [Small(n + 1) -> Int] /\ \A T \in Small(n + 1) : h[T] = value(T)
      BY <2>6
    <2> HIDE DEF h, Small
    <2>8. h[{}] = 0
      <3>1. value({}) = g[{}]
        BY <2>5 DEF value
      <3>2. QED BY <2>2, <2>3, <2>5, <2>7, <3>1
    <2>9. ASSUME NEW T \in Small(n + 1), T # {}
          PROVE  h[T] = w[FirstOut(T)] + g[T \ {FirstOut(T)}]
      <3>1. CASE T \in Small(n)
        BY <2>2, <2>7, <2>9, <3>1 DEF value
      <3>2. CASE T \notin Small(n)
        BY <2>7, <3>2 DEF value
      <3>3. QED BY <3>1, <3>2
    <2>10. \A T \in Small(n) : h[T] = g[T]
      BY <2>3, <2>7 DEF value
    <2>11. \A T \in Small(n + 1) : T # {} => h[T] = w[FirstOut(T)] + h[T \ {FirstOut(T)}]
      BY <2>4, <2>9, <2>10
    <2>12. Solves(h, n + 1)
      BY <2>8, <2>11
    <2> HIDE DEF Solves
    <2>13. QED BY <2>7, <2>12
  <1>6. Nat \subseteq P
    <2> HIDE DEF P
    <2>1. QED BY <1>4, <1>5, SetInduction
  <1> DEFINE N == Cardinality(S)
  <1>7. N \in Nat /\ Small(N) = SUBSET S
    <2>1. \A T \in SUBSET S : Cardinality(T) <= N
      BY FS_Subset
    <2>2. QED BY <1>1, <2>1
  <1>8. PICK g \in [Small(N) -> Int] : Solves(g, N)
    BY <1>6, <1>7
  <1>9. g \in SumCourses(w, S)
    BY <1>7, <1>8 DEF SumCourses
  <1>10. QED BY <1>9

\* Whichever element is taken first, the rest adds up to what is left.
LEMMA SumInAnyOrder ==
  ASSUME NEW S, IsFiniteSet(S), NEW w, \A x \in S : w[x] \in Int, NEW g \in SumCourses(w, S)
  PROVE  \A T \in SUBSET S, x \in S : x \in T => g[T] = w[x] + g[T \ {x}]
  <1> DEFINE Q == {n \in Nat : \A T \in SUBSET S, x \in S :
                                 Cardinality(T) = n /\ x \in T => g[T] = w[x] + g[T \ {x}]}
  <1>1. /\ g \in [SUBSET S -> Int]
        /\ \A T \in SUBSET S : T # {} => g[T] = w[FirstOut(T)] + g[T \ {FirstOut(T)}]
    BY DEF SumCourses
  <1>2. \A T \in SUBSET S : IsFiniteSet(T) /\ Cardinality(T) \in Nat
    <2>1. ASSUME NEW T \in SUBSET S PROVE IsFiniteSet(T) /\ Cardinality(T) \in Nat
      <3>1. IsFiniteSet(T)
        BY FS_Subset
      <3>2. QED BY <3>1, FS_CardinalityType
    <2>2. QED BY <2>1
  <1>3. 0 \in Q
    <2>1. \A T \in SUBSET S : Cardinality(T) = 0 => T = {}
      BY <1>2, FS_EmptySet
    <2>2. QED BY <2>1
  <1>4. \A n \in Nat : n \in Q => n + 1 \in Q
    <2>1. SUFFICES ASSUME NEW n \in Nat, n \in Q, NEW T \in SUBSET S, NEW x \in S,
                          Cardinality(T) = n + 1, x \in T
                   PROVE  g[T] = w[x] + g[T \ {x}]
      OBVIOUS
    <2> DEFINE c == FirstOut(T)
    <2>2. c \in T /\ c \in S
      BY <2>1, FirstOutOf
    <2> HIDE DEF c
    <2>3. g[T] = w[c] + g[T \ {c}]
      BY <1>1, <2>1 DEF c
    <2>4. CASE x = c
      BY <2>3, <2>4
    <2>5. CASE x # c
      <3> DEFINE A == T \ {c}
                 B == T \ {x}
                 R == T \ {x, c}
      <3>1. A \in SUBSET S /\ B \in SUBSET S /\ R \in SUBSET S /\ x \in A /\ c \in B
            /\ A \ {x} = R /\ B \ {c} = R
        BY <2>1, <2>2, <2>5
      <3>2. Cardinality(A) = n /\ Cardinality(B) = n
        <4>1. Cardinality(A) = Cardinality(T) - 1
          BY <1>2, <2>2, FS_RemoveElement
        <4>2. Cardinality(B) = Cardinality(T) - 1
          BY <1>2, <2>1, FS_RemoveElement
        <4>3. QED BY <2>1, <4>1, <4>2
      <3> HIDE DEF A, B, R
      <3>3. g[A] = w[x] + g[R]
        BY <2>1, <3>1, <3>2
      <3>4. g[B] = w[c] + g[R]
        BY <2>1, <2>2, <3>1, <3>2
      <3>5. g[T] = w[c] + g[A]
        BY <2>3 DEF A
      <3>6. w[x] \in Int /\ w[c] \in Int /\ g[R] \in Int
        BY <1>1, <2>1, <2>2, <3>1
      <3>7. g[T] = w[x] + g[B]
        BY <3>3, <3>4, <3>5, <3>6
      <3>8. QED BY <3>7 DEF B
    <2>6. QED BY <2>4, <2>5
  <1>5. Nat \subseteq Q
    <2> HIDE DEF Q
    <2>1. QED BY <1>3, <1>4, SetInduction
  <1>6. QED BY <1>2, <1>5

\* The library's sum of a function is the course's, at the whole of its domain.
LEMMA SumIsACourse ==
  ASSUME NEW S, IsFiniteSet(S), NEW w, \A x \in S : w[x] \in Int
  PROVE  \E g \in SumCourses(w, S) : SumFunctionOnSet(w, S) = g[S]
  <1> DEFINE Solves(g) == g = [T \in SUBSET S |-> IF T = {} THEN 0
                               ELSE w[CHOOSE x \in T : TRUE] + g[T \ {CHOOSE x \in T : TRUE}]]
             u == CHOOSE g : Solves(g)
  <1>1. SumFunctionOnSet(w, S) = u[S]
    BY DEF SumFunctionOnSet, FoldFunctionOnSet, MapThenFoldSet
  <1>2. PICK f \in [SUBSET S -> Int] :
          /\ f[{}] = 0
          /\ \A T \in SUBSET S : T # {} => f[T] = w[FirstOut(T)] + f[T \ {FirstOut(T)}]
    <2>1. SumCourses(w, S) # {}
      BY SumCourse
    <2>2. QED BY <2>1, Zenon DEF SumCourses
  <1>3. Solves(f)
    <2>1. f = [T \in SUBSET S |-> f[T]]
      OBVIOUS
    <2>2. \A T \in SUBSET S : f[T] = IF T = {} THEN 0
            ELSE w[CHOOSE x \in T : TRUE] + f[T \ {CHOOSE x \in T : TRUE}]
      BY <1>2 DEF FirstOut
    <2>3. QED BY <2>1, <2>2, Zenon
  <1>4. Solves(u)
    <2> HIDE DEF Solves
    <2>1. QED BY <1>3
  <1> HIDE DEF u
  <1>5. \A T \in SUBSET S : u[T] = IF T = {} THEN 0
          ELSE w[CHOOSE x \in T : TRUE] + u[T \ {CHOOSE x \in T : TRUE}]
    BY <1>4, Zenon
  <1>6. /\ u[{}] = 0
        /\ \A T \in SUBSET S : T # {} => u[T] = w[FirstOut(T)] + u[T \ {FirstOut(T)}]
    BY <1>5 DEF FirstOut
  <1> HIDE DEF Solves
  <1>7. \A T \in SUBSET S : u[T] \in Int
    <2> DEFINE Q == {n \in Nat : \A T \in SUBSET S : Cardinality(T) = n => u[T] \in Int}
    <2>1. \A T \in SUBSET S : IsFiniteSet(T) /\ Cardinality(T) \in Nat
      <3>1. ASSUME NEW T \in SUBSET S PROVE IsFiniteSet(T) /\ Cardinality(T) \in Nat
        <4>1. IsFiniteSet(T)
          BY FS_Subset
        <4>2. QED BY <4>1, FS_CardinalityType
      <3>2. QED BY <3>1
    <2>2. 0 \in Q
      <3>1. \A T \in SUBSET S : Cardinality(T) = 0 => T = {}
        BY <2>1, FS_EmptySet
      <3>2. u[{}] \in Int
        BY <1>6
      <3>3. QED BY <3>1, <3>2
    <2>3. \A n \in Nat : n \in Q => n + 1 \in Q
      <3>1. SUFFICES ASSUME NEW n \in Nat, n \in Q, NEW T \in SUBSET S, Cardinality(T) = n + 1
                     PROVE  u[T] \in Int
        OBVIOUS
      <3>2. T # {}
        <4>1. Cardinality({}) = 0
          BY FS_EmptySet
        <4>2. n + 1 # 0 /\ Cardinality(T) = n + 1
          BY <3>1
        <4> HIDE DEF Q
        <4>3. QED BY <4>1, <4>2
      <3>3. FirstOut(T) \in T
        BY <3>2, FirstOutOf
      <3>4. Cardinality(T \ {FirstOut(T)}) = n
        <4>1. Cardinality(T \ {FirstOut(T)}) = Cardinality(T) - 1
          BY <2>1, <3>3, FS_RemoveElement
        <4>2. \A c, d \in Nat : d = c + 1 => d - 1 = c
          OBVIOUS
        <4>3. n \in Nat /\ Cardinality(T) = n + 1 /\ Cardinality(T) \in Nat
          BY <3>1
        <4> HIDE DEF Q
        <4>4. Cardinality(T) - 1 = n
          BY <4>2, <4>3
        <4>5. QED BY <4>1, <4>4
      <3>5. u[T \ {FirstOut(T)}] \in Int /\ w[FirstOut(T)] \in Int
        BY <3>1, <3>3, <3>4
      <3>6. QED BY <1>6, <3>2, <3>5
    <2>4. Nat \subseteq Q
      <3> HIDE DEF Q
      <3>1. QED BY <2>2, <2>3, SetInduction
    <2>5. QED BY <2>1, <2>4
  <1>8. u \in SumCourses(w, S)
    <2>1. u = [T \in SUBSET S |-> u[T]]
      BY <1>4 DEF Solves
    <2>2. u \in [SUBSET S -> Int]
      BY <1>7, <2>1
    <2>3. QED BY <1>6, <2>2 DEF SumCourses
  <1>9. QED BY <1>1, <1>8

LEMMA SumOfNothing == \A w : SumFunctionOnSet(w, {}) = 0
  <1> SUFFICES ASSUME NEW w PROVE SumFunctionOnSet(w, {}) = 0
    OBVIOUS
  <1>1. IsFiniteSet({})
    BY FS_EmptySet
  <1>2. PICK g \in SumCourses(w, {}) : SumFunctionOnSet(w, {}) = g[{}]
    BY <1>1, SumIsACourse
  <1>3. QED BY <1>2 DEF SumCourses

\* A sum is any one element's and the sum of the others.
LEMMA SumTakesOut ==
  ASSUME NEW S, IsFiniteSet(S), NEW w, \A y \in S : w[y] \in Int, NEW x \in S
  PROVE  /\ SumFunctionOnSet(w, S) = w[x] + SumFunctionOnSet(w, S \ {x})
         /\ SumFunctionOnSet(w, S) \in Int /\ SumFunctionOnSet(w, S \ {x}) \in Int
  <1> DEFINE R == S \ {x}
  <1>1. IsFiniteSet(R) /\ R \in SUBSET S /\ \A y \in R : w[y] \in Int
    BY FS_RemoveElement
  <1>2. PICK g \in SumCourses(w, S) : SumFunctionOnSet(w, S) = g[S]
    BY SumIsACourse
  <1> HIDE DEF R
  <1>3. PICK h \in SumCourses(w, R) : SumFunctionOnSet(w, R) = h[R]
    BY <1>1, SumIsACourse
  <1> DEFINE P == {T \in SUBSET R : g[T] = h[T]}
  <1>4. {} \in P
    BY <1>2, <1>3 DEF SumCourses
  <1>5. \A T \in SUBSET R, y \in R : T \in P /\ y \notin T => T \cup {y} \in P
    <2>1. SUFFICES ASSUME NEW T \in SUBSET R, NEW y \in R, g[T] = h[T], y \notin T
                   PROVE  g[T \cup {y}] = h[T \cup {y}]
      OBVIOUS
    <2> DEFINE U == T \cup {y}
    <2>2. U \in SUBSET R /\ U \in SUBSET S /\ y \in U /\ U \ {y} = T /\ y \in S
      BY <1>1, <2>1
    <2> HIDE DEF U
    <2>3. g[U] = w[y] + g[U \ {y}]
      BY <1>2, <2>2, SumInAnyOrder
    <2>4. h[U] = w[y] + h[U \ {y}]
      BY <1>1, <1>3, <2>2, SumInAnyOrder
    <2>5. g[U] = h[U]
      BY <2>1, <2>2, <2>3, <2>4
    <2>6. QED BY <2>5 DEF U
  <1>6. R \in P
    <2> HIDE DEF P
    <2>1. QED BY <1>1, <1>4, <1>5, SubsetInduction
  <1>7. g[R] = h[R]
    BY <1>6
  <1>8. g[S] = w[x] + g[S \ {x}]
    <2>1. \A T \in SUBSET S, y \in S : y \in T => g[T] = w[y] + g[T \ {y}]
      BY <1>2, SumInAnyOrder
    <2>2. S \in SUBSET S /\ x \in S
      OBVIOUS
    <2>3. QED BY <2>1, <2>2
  <1>9. g[S] \in Int /\ g[R] \in Int
    BY <1>1, <1>2 DEF SumCourses
  <1>10. QED BY <1>2, <1>3, <1>7, <1>8, <1>9 DEF R

LEMMA SumIsANumber ==
  ASSUME NEW S, IsFiniteSet(S), NEW w, \A y \in S : w[y] \in Int
  PROVE  SumFunctionOnSet(w, S) \in Int
  <1>1. CASE S = {}
    BY <1>1, SumOfNothing
  <1>2. CASE S # {}
    <2>1. PICK x \in S : TRUE
      BY <1>2
    <2>2. QED BY <2>1, SumTakesOut
  <1>3. QED BY <1>1, <1>2

\* What is added to a set is added to its sum.
LEMMA SumPutsIn ==
  ASSUME NEW S, IsFiniteSet(S), NEW w, \A y \in S : w[y] \in Int,
         NEW x, x \notin S, w[x] \in Int
  PROVE  SumFunctionOnSet(w, S \cup {x}) = w[x] + SumFunctionOnSet(w, S)
  <1> DEFINE U == S \cup {x}
  <1>1. IsFiniteSet(U) /\ x \in U /\ U \ {x} = S /\ \A y \in U : w[y] \in Int
    BY FS_AddElement
  <1> HIDE DEF U
  <1>2. SumFunctionOnSet(w, U) = w[x] + SumFunctionOnSet(w, U \ {x})
    BY <1>1, SumTakesOut
  <1>3. QED BY <1>1, <1>2 DEF U

\* Two sums, element by element: the one is at most, at least or just the other.
LEMMA SumsCompare ==
  ASSUME NEW S, IsFiniteSet(S), NEW v, NEW w, \A y \in S : v[y] \in Int /\ w[y] \in Int
  PROVE  /\ (\A y \in S : v[y] <= w[y]) => SumFunctionOnSet(v, S) <= SumFunctionOnSet(w, S)
         /\ (\A y \in S : v[y] = w[y]) => SumFunctionOnSet(v, S) = SumFunctionOnSet(w, S)
  <1> DEFINE Less(T) == (\A y \in T : v[y] <= w[y]) =>
                          SumFunctionOnSet(v, T) <= SumFunctionOnSet(w, T)
             Same(T) == (\A y \in T : v[y] = w[y]) =>
                          SumFunctionOnSet(v, T) = SumFunctionOnSet(w, T)
             P == {T \in SUBSET S : Less(T) /\ Same(T)}
  <1>1. {} \in P
    <2>1. SumFunctionOnSet(v, {}) = 0 /\ SumFunctionOnSet(w, {}) = 0
      BY SumOfNothing
    <2>2. QED BY <2>1
  <1>2. \A T \in SUBSET S, x \in S : T \in P /\ x \notin T => T \cup {x} \in P
    <2>1. SUFFICES ASSUME NEW T \in SUBSET S, NEW x \in S, Less(T), Same(T), x \notin T
                   PROVE  Less(T \cup {x}) /\ Same(T \cup {x})
      OBVIOUS
    <2>2. IsFiniteSet(T)
      BY FS_Subset
    <2>3. /\ SumFunctionOnSet(v, T \cup {x}) = v[x] + SumFunctionOnSet(v, T)
          /\ SumFunctionOnSet(w, T \cup {x}) = w[x] + SumFunctionOnSet(w, T)
      BY <2>1, <2>2, SumPutsIn
    <2>4. /\ SumFunctionOnSet(v, T) \in Int /\ SumFunctionOnSet(w, T) \in Int
          /\ v[x] \in Int /\ w[x] \in Int
      BY <2>2, SumIsANumber
    <2>5. QED BY <2>1, <2>3, <2>4
  <1>3. S \in P
    <2> HIDE DEF P
    <2>1. QED BY <1>1, <1>2, SubsetInduction
  <1>4. QED BY <1>3

\* A sum of numbers none of which is negative is none, and is at least each of them.
LEMMA SumOfNaturals ==
  ASSUME NEW S, IsFiniteSet(S), NEW w, \A y \in S : w[y] \in Nat
  PROVE  /\ SumFunctionOnSet(w, S) \in Nat
         /\ \A x \in S : w[x] <= SumFunctionOnSet(w, S)
  <1> DEFINE P == {T \in SUBSET S : SumFunctionOnSet(w, T) \in Nat}
  <1>1. {} \in P
    BY SumOfNothing
  <1>2. \A T \in SUBSET S, x \in S : T \in P /\ x \notin T => T \cup {x} \in P
    <2>1. SUFFICES ASSUME NEW T \in SUBSET S, NEW x \in S, SumFunctionOnSet(w, T) \in Nat,
                          x \notin T
                   PROVE  SumFunctionOnSet(w, T \cup {x}) \in Nat
      OBVIOUS
    <2>2. IsFiniteSet(T)
      BY FS_Subset
    <2>3. SumFunctionOnSet(w, T \cup {x}) = w[x] + SumFunctionOnSet(w, T)
      BY <2>1, <2>2, SumPutsIn
    <2>4. w[x] \in Nat
      OBVIOUS
    <2>5. QED BY <2>1, <2>3, <2>4
  <1>3. \A R \in SUBSET S : SumFunctionOnSet(w, R) \in Nat
    <2>1. SUFFICES ASSUME NEW R \in SUBSET S PROVE R \in P
      OBVIOUS
    <2>2. IsFiniteSet(R) /\ \A T \in SUBSET R, x \in R : T \in P /\ x \notin T => T \cup {x} \in P
      BY <1>2, FS_Subset
    <2> HIDE DEF P
    <2>3. QED BY <1>1, <2>2, SubsetInduction
  <1>4. ASSUME NEW x \in S PROVE w[x] <= SumFunctionOnSet(w, S)
    <2>1. SumFunctionOnSet(w, S) = w[x] + SumFunctionOnSet(w, S \ {x})
      BY SumTakesOut
    <2>2. SumFunctionOnSet(w, S \ {x}) \in Nat /\ w[x] \in Nat
      BY <1>3
    <2>3. QED BY <2>1, <2>2
  <1>5. S \in SUBSET S
    OBVIOUS
  <1>6. QED BY <1>3, <1>4, <1>5

\* One number changed changes the sum by what it changed.
LEMMA SumChanges ==
  ASSUME NEW S, IsFiniteSet(S), NEW v, NEW w, \A y \in S : v[y] \in Int /\ w[y] \in Int,
         NEW x \in S, \A y \in S : y # x => v[y] = w[y]
  PROVE  SumFunctionOnSet(w, S) = SumFunctionOnSet(v, S) + (w[x] - v[x])
  <1> DEFINE R == S \ {x}
  <1>1. IsFiniteSet(R) /\ \A y \in R : v[y] \in Int /\ w[y] \in Int /\ v[y] = w[y]
    BY FS_RemoveElement
  <1>2. /\ SumFunctionOnSet(v, S) = v[x] + SumFunctionOnSet(v, R)
        /\ SumFunctionOnSet(w, S) = w[x] + SumFunctionOnSet(w, R)
        /\ SumFunctionOnSet(v, R) \in Int /\ v[x] \in Int /\ w[x] \in Int
    BY SumTakesOut
  <1> HIDE DEF R
  <1>3. SumFunctionOnSet(v, R) = SumFunctionOnSet(w, R)
    BY <1>1, SumsCompare
  <1>4. QED BY <1>2, <1>3

\* Sums are added element by element.
LEMMA SumsAddUp ==
  ASSUME NEW S, IsFiniteSet(S), NEW u, NEW v, NEW w,
         \A y \in S : u[y] \in Int /\ v[y] \in Int /\ w[y] = u[y] + v[y]
  PROVE  SumFunctionOnSet(w, S) = SumFunctionOnSet(u, S) + SumFunctionOnSet(v, S)
  <1> DEFINE P == {T \in SUBSET S :
                     SumFunctionOnSet(w, T) = SumFunctionOnSet(u, T) + SumFunctionOnSet(v, T)}
  <1>1. {} \in P
    <2>1. SumFunctionOnSet(u, {}) = 0 /\ SumFunctionOnSet(v, {}) = 0 /\ SumFunctionOnSet(w, {}) = 0
      BY SumOfNothing
    <2>2. QED BY <2>1
  <1>2. \A T \in SUBSET S, x \in S : T \in P /\ x \notin T => T \cup {x} \in P
    <2>1. SUFFICES ASSUME NEW T \in SUBSET S, NEW x \in S, x \notin T,
                          SumFunctionOnSet(w, T) = SumFunctionOnSet(u, T) + SumFunctionOnSet(v, T)
                   PROVE  SumFunctionOnSet(w, T \cup {x}) =
                            SumFunctionOnSet(u, T \cup {x}) + SumFunctionOnSet(v, T \cup {x})
      OBVIOUS
    <2>2. IsFiniteSet(T) /\ \A y \in T : w[y] \in Int
      BY FS_Subset
    <2>3. SumFunctionOnSet(u, T \cup {x}) = u[x] + SumFunctionOnSet(u, T)
      BY <2>1, <2>2, SumPutsIn
    <2>4. SumFunctionOnSet(v, T \cup {x}) = v[x] + SumFunctionOnSet(v, T)
      BY <2>1, <2>2, SumPutsIn
    <2>5. SumFunctionOnSet(w, T \cup {x}) = w[x] + SumFunctionOnSet(w, T)
      BY <2>1, <2>2, SumPutsIn
    <2>6. SumFunctionOnSet(u, T) \in Int /\ SumFunctionOnSet(v, T) \in Int
      BY <2>2, SumIsANumber
    <2>7. u[x] \in Int /\ v[x] \in Int /\ w[x] = u[x] + v[x]
      OBVIOUS
    <2>8. QED BY <2>1, <2>3, <2>4, <2>5, <2>6, <2>7
  <1>3. S \in P
    <2> HIDE DEF P
    <2>1. QED BY <1>1, <1>2, SubsetInduction
  <1>4. QED BY <1>3
=============================================================================
