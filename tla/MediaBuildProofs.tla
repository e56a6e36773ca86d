-------------------------- MODULE MediaBuildProofs --------------------------
(***************************************************************************)
(* What a written tape reads as (SimhTape), for every sequence of files,   *)
(* and what a published destination holds (MediaBuild), for any number of  *)
(* commands and of changes to the sources.                                 *)
(***************************************************************************)
EXTENDS MediaBuild, SequenceTheorems, WellFoundedInduction, TLAPS

------------------------------------------------------------------------------
(* Induction over the naturals, from their least elements. *)

LEMMA LeastElement ==
  ASSUME NEW T, T \subseteq Nat, T # {}
  PROVE  \E n \in T : \A m \in T : n <= m
<1>1. IsWellFoundedOn(OpToRel(<, Nat), Nat)
  BY NatLessThanWellFounded
<1>2. PICK n \in T : \A m \in T : ~ (<<m, n>> \in OpToRel(<, Nat))
  BY <1>1, WFMin
<1>3. ASSUME NEW m \in T PROVE n <= m
  <2>1. ~ (<<m, n>> \in OpToRel(<, Nat))
    BY <1>2
  <2>2. m \in Nat /\ n \in Nat
    OBVIOUS
  <2>3. ~(m < n)
    BY <2>1, <2>2 DEF OpToRel
  <2> QED BY <2>2, <2>3
<1> QED BY <1>2, <1>3

LEMMA Induction ==
  ASSUME NEW S, 0 \in S, \A n \in Nat : n \in S => n + 1 \in S
  PROVE  Nat \subseteq S
<1> SUFFICES ASSUME Nat \ S # {} PROVE FALSE
  OBVIOUS
<1>1. PICK n \in Nat \ S : \A m \in Nat \ S : n <= m
  BY LeastElement
<1>2. n # 0 /\ n \in Nat
  BY <1>1
<1>3. n - 1 \in Nat /\ n - 1 + 1 = n /\ ~(n <= n - 1)
  BY <1>2
<1> QED BY <1>1, <1>3

LEMMA DownwardInduction ==
  ASSUME NEW N \in Nat, NEW S, N \in S, \A n \in 1..N : n \in S => n - 1 \in S
  PROVE  0..N \subseteq S
<1> DEFINE T == {n \in Nat : n <= N => N - n \in S}
<1>1. 0 \in T
  OBVIOUS
<1>2. ASSUME NEW n \in Nat, n \in T PROVE n + 1 \in T
  <2> SUFFICES ASSUME n + 1 <= N PROVE N - (n + 1) \in S
    OBVIOUS
  <2>1. N - n \in S /\ N - n \in 1..N
    BY <1>2
  <2>2. N - n - 1 \in S
    BY <2>1
  <2> QED BY <2>2
<1>3. Nat \subseteq T
  <2> HIDE DEF T
  <2> QED BY <1>1, <1>2, Induction
<1>4. ASSUME NEW n \in 0..N PROVE n \in S
  <2>1. N - n \in T /\ N - (N - n) = n /\ N - n <= N
    BY <1>3
  <2> QED BY <2>1
<1> QED BY <1>4

------------------------------------------------------------------------------
(* FlattenSeq: what is flattened up to each of the pieces. *)

Flattened(seqs, f) ==
  /\ f[0] = <<>>
  /\ \A i \in 1..Len(seqs) : f[i] = f[i - 1] \o seqs[i]

LEMMA FlattenExists ==
  ASSUME NEW seqs, NEW N \in Nat
  PROVE  \E f : f = [i \in 1..N |-> IF i = 1 THEN seqs[i] ELSE f[i - 1] \o seqs[i]]
<1> DEFINE P(n) == \E f : f = [i \in 1..n |-> IF i = 1 THEN seqs[i] ELSE f[i - 1] \o seqs[i]]
           S == {n \in Nat : P(n)}
<1>1. P(0)
  <2> DEFINE g == [i \in 1..0 |-> <<>>]
  <2>1. g = [i \in 1..0 |-> IF i = 1 THEN seqs[i] ELSE g[i - 1] \o seqs[i]]
    OBVIOUS
  <2> QED BY <2>1
<1>2. ASSUME NEW n \in Nat, P(n) PROVE P(n + 1)
  <2>1. PICK f : f = [i \in 1..n |-> IF i = 1 THEN seqs[i] ELSE f[i - 1] \o seqs[i]]
    BY <1>2
  <2> DEFINE last == IF n + 1 = 1 THEN seqs[n + 1] ELSE f[n] \o seqs[n + 1]
             g == [i \in 1..(n + 1) |-> IF i = n + 1 THEN last ELSE f[i]]
  <2> HIDE DEF last
  <2>2. ASSUME NEW i \in 1..(n + 1)
        PROVE  g[i] = IF i = 1 THEN seqs[i] ELSE g[i - 1] \o seqs[i]
    <3>1. CASE i = n + 1
      <4>1. i # 1 => g[i - 1] = f[n] /\ n # 0
        BY <3>1
      <4>2. g[i] = last
        BY <3>1
      <4> QED BY <3>1, <4>1, <4>2 DEF last
    <3>2. CASE i # n + 1
      <4>1. i \in 1..n /\ g[i] = f[i]
        BY <3>2
      <4>2. f[i] = IF i = 1 THEN seqs[i] ELSE f[i - 1] \o seqs[i]
        BY <2>1, <4>1
      <4>3. i # 1 => g[i - 1] = f[i - 1]
        BY <4>1
      <4> QED BY <4>1, <4>2, <4>3
    <3> QED BY <3>1, <3>2
  <2>3. g = [i \in 1..(n + 1) |-> IF i = 1 THEN seqs[i] ELSE g[i - 1] \o seqs[i]]
    BY <2>2
  <2> HIDE DEF g
  <2>4. \E h : h = [i \in 1..(n + 1) |-> IF i = 1 THEN seqs[i] ELSE h[i - 1] \o seqs[i]]
    BY <2>3
  <2> QED BY <2>4
<1> HIDE DEF P
<1>3. 0 \in S /\ \A n \in Nat : n \in S => n + 1 \in S
  BY <1>1, <1>2
<1>4. Nat \subseteq S
  <2> HIDE DEF S
  <2> QED BY <1>3, Induction
<1>5. P(N)
  BY <1>4
<1> QED BY <1>5 DEF P

LEMMA Flattens ==
  ASSUME NEW seqs \in Seq(Seq(Nat))
  PROVE  \E f \in [0..Len(seqs) -> Seq(Nat)] :
           Flattened(seqs, f) /\ FlattenSeq(seqs) = f[Len(seqs)]
<1> DEFINE N == Len(seqs)
           flatten == CHOOSE f : f = [i \in 1..N |-> IF i = 1 THEN seqs[i] ELSE f[i - 1] \o seqs[i]]
           f == [i \in 0..N |-> IF i = 0 THEN <<>> ELSE flatten[i]]
<1>1. N \in Nat /\ \A i \in 1..N : seqs[i] \in Seq(Nat)
  OBVIOUS
<1> HIDE DEF N
<1>2. flatten = [i \in 1..N |-> IF i = 1 THEN seqs[i] ELSE flatten[i - 1] \o seqs[i]]
  BY <1>1, FlattenExists
<1>3. FlattenSeq(seqs) = IF N = 0 THEN seqs ELSE flatten[N]
  BY DEF FlattenSeq, N
<1> HIDE DEF flatten
<1>4. f = [i \in 0..N |-> f[i]] /\ f[0] = <<>> /\ \A i \in 1..N : f[i] = flatten[i]
  BY <1>1
<1> HIDE DEF f
<1>5. \A i \in 1..N : f[i] = f[i - 1] \o seqs[i]
  <2> SUFFICES ASSUME NEW i \in 1..N PROVE f[i] = f[i - 1] \o seqs[i]
    OBVIOUS
  <2>1. flatten[i] = IF i = 1 THEN seqs[i] ELSE flatten[i - 1] \o seqs[i]
    BY <1>2
  <2>2. CASE i = 1
    <3>1. i - 1 = 0 /\ seqs[i] \in Seq(Nat)
      BY <1>1, <2>2
    <3>2. f[i] = seqs[i] /\ f[i - 1] = <<>>
      BY <1>4, <2>1, <2>2, <3>1
    <3>3. <<>> \o seqs[i] = seqs[i]
      BY <3>1
    <3> QED BY <3>2, <3>3
  <2>3. CASE i # 1
    <3>1. i - 1 \in 1..N
      BY <1>1, <2>3
    <3> QED BY <1>4, <2>1, <2>3, <3>1
  <2> QED BY <2>2, <2>3
<1> DEFINE S == {n \in Nat : n <= N => f[n] \in Seq(Nat)}
<1>6. 0 \in S
  <2>1. <<>> \in Seq(Nat)
    OBVIOUS
  <2> QED BY <1>4, <2>1
<1>7. ASSUME NEW n \in Nat, n \in S PROVE n + 1 \in S
  <2> SUFFICES ASSUME n + 1 <= N PROVE f[n + 1] \in Seq(Nat)
    OBVIOUS
  <2> DEFINE m == n + 1
  <2>1. f[n] \in Seq(Nat) /\ m \in 1..N /\ m - 1 = n
    BY <1>1, <1>7
  <2> HIDE DEF m
  <2>2. f[m] = f[n] \o seqs[m] /\ seqs[m] \in Seq(Nat)
    BY <1>1, <1>5, <2>1
  <2>3. f[m] \in Seq(Nat)
    BY <2>1, <2>2
  <2> QED BY <2>3 DEF m
<1>8. Nat \subseteq S
  <2> HIDE DEF S
  <2> QED BY <1>6, <1>7, Induction
<1>9. f \in [0..N -> Seq(Nat)]
  <2>1. \A i \in 0..N : f[i] \in Seq(Nat)
    BY <1>1, <1>8
  <2> QED BY <1>4, <2>1
<1>10. FlattenSeq(seqs) = f[N]
  <2>1. N = 0 => seqs = <<>>
    BY DEF N
  <2>2. CASE N = 0
    BY <1>3, <1>4, <2>1, <2>2
  <2>3. CASE N # 0
    <3>1. N \in 1..N
      BY <1>1, <2>3
    <3> QED BY <1>3, <1>4, <2>3, <3>1
  <2> QED BY <2>2, <2>3
<1> QED BY <1>4, <1>5, <1>9, <1>10 DEF N, Flattened

\* After its first p items the tape holds s.
Holds(tape, p, s) ==
  /\ p + Len(s) <= Len(tape)
  /\ \A j \in 1..Len(s) : tape[p + j] = s[j]

HoldsBoth(tape, p, s, t) ==
  /\ Holds(tape, p, s) /\ Holds(tape, p + Len(s), t)
  /\ Len(s \o t) = Len(s) + Len(t)

LEMMA HoldsParts ==
  ASSUME NEW tape \in Seq(Nat), NEW p \in Nat, NEW s \in Seq(Nat), NEW t \in Seq(Nat),
         Holds(tape, p, s \o t)
  PROVE  HoldsBoth(tape, p, s, t)
<1>1. /\ Len(s) \in Nat /\ Len(t) \in Nat /\ Len(tape) \in Nat
      /\ Len(s \o t) = Len(s) + Len(t)
      /\ \A j \in 1..Len(s) : (s \o t)[j] = s[j]
      /\ \A j \in 1..Len(t) : (s \o t)[Len(s) + j] = t[j]
  OBVIOUS
<1>2. p + Len(s \o t) <= Len(tape) /\ \A j \in 1..Len(s \o t) : tape[p + j] = (s \o t)[j]
  BY DEF Holds
<1>3. ASSUME NEW j \in 1..Len(s) PROVE tape[p + j] = s[j]
  <2>1. j \in 1..Len(s \o t)
    BY <1>1
  <2> QED BY <1>1, <1>2, <2>1
<1>4. ASSUME NEW j \in 1..Len(t) PROVE tape[p + Len(s) + j] = t[j]
  <2>1. Len(s) + j \in 1..Len(s \o t) /\ p + (Len(s) + j) = p + Len(s) + j
    BY <1>1
  <2> QED BY <1>1, <1>2, <2>1
<1>5. p + Len(s) <= Len(tape) /\ p + Len(s) + Len(t) <= Len(tape)
  BY <1>1, <1>2
<1> QED BY <1>1, <1>3, <1>4, <1>5 DEF Holds, HoldsBoth

\* A tape that holds a flattened sequence holds each of its pieces.
HoldsEach(tape, p, seqs, f) ==
  /\ \A i \in 0..Len(seqs) : Holds(tape, p, f[i])
  /\ \A i \in 1..Len(seqs) : /\ Holds(tape, p + Len(f[i - 1]), seqs[i])
                              /\ Len(f[i]) = Len(f[i - 1]) + Len(seqs[i])

LEMMA HoldsPieces ==
  ASSUME NEW tape \in Seq(Nat), NEW p \in Nat, NEW seqs \in Seq(Seq(Nat)),
         NEW f \in [0..Len(seqs) -> Seq(Nat)], Flattened(seqs, f),
         Holds(tape, p, f[Len(seqs)])
  PROVE  HoldsEach(tape, p, seqs, f)
<1> DEFINE N == Len(seqs)
           S == {i \in 0..N : Holds(tape, p, f[i])}
<1>1. N \in Nat /\ N \in S
  OBVIOUS
<1>2. ASSUME NEW i \in 1..N, i \in S
      PROVE  /\ i - 1 \in S /\ Holds(tape, p + Len(f[i - 1]), seqs[i])
             /\ Len(f[i]) = Len(f[i - 1]) + Len(seqs[i])
  <2>1. i - 1 \in 0..N /\ f[i - 1] \in Seq(Nat) /\ seqs[i] \in Seq(Nat)
    <3>1. seqs[i] \in Seq(Nat)
      OBVIOUS
    <3> HIDE DEF N
    <3>2. i - 1 \in 0..N
      BY <1>1
    <3>3. f[i - 1] \in Seq(Nat)
      BY <3>2 DEF N
    <3> QED BY <3>1, <3>2, <3>3
  <2>2. f[i] = f[i - 1] \o seqs[i] /\ Holds(tape, p, f[i])
    BY <1>2 DEF Flattened
  <2>3. Holds(tape, p, f[i - 1] \o seqs[i])
    BY <2>2
  <2>4. /\ Holds(tape, p, f[i - 1]) /\ Holds(tape, p + Len(f[i - 1]), seqs[i])
        /\ Len(f[i - 1] \o seqs[i]) = Len(f[i - 1]) + Len(seqs[i])
    <3>1. HoldsBoth(tape, p, f[i - 1], seqs[i])
      BY <2>1, <2>3, HoldsParts
    <3> QED BY <3>1 DEF HoldsBoth
  <2> QED BY <2>1, <2>2, <2>4
<1>3. 0..N \subseteq S
  <2> HIDE DEF S, N
  <2> QED BY <1>1, <1>2, DownwardInduction
<1>4. \A i \in 0..N : Holds(tape, p, f[i])
  BY <1>3
<1>5. ASSUME NEW i \in 1..N
      PROVE  /\ Holds(tape, p + Len(f[i - 1]), seqs[i])
             /\ Len(f[i]) = Len(f[i - 1]) + Len(seqs[i])
  <2>1. i \in S
    <3>1. i \in 0..N
      BY <1>1
    <3> HIDE DEF S
    <3> QED BY <1>3, <3>1
  <2> QED BY <1>2, <2>1
<1> QED BY <1>4, <1>5 DEF HoldsEach

------------------------------------------------------------------------------
(* The tape drive. *)

\* One step of the drive at p, given what it finds from later positions on.
Found(tape, read, p) ==
  IF EndsFile(tape, p)
    THEN <<<<>>>> \o (IF p < Len(tape) /\ ~EndsFile(tape, p + 1) THEN read[p + 1] ELSE <<>>)
    ELSE LET rest == read[p + tape[p] + 2]
         IN <<SubSeq(tape, p + 1, p + tape[p]) \o Head(rest)>> \o Tail(rest)

\* Where it goes on.
LEMMA FoundLater ==
  ASSUME NEW tape \in Seq(Nat), NEW p \in 1..Len(tape), NEW g, NEW h,
         \A q \in (p + 1)..Len(tape) : g[q] = h[q]
  PROVE  Found(tape, g, p) = Found(tape, h, p)
<1>1. tape[p] \in Nat /\ Len(tape) \in Nat /\ p \in Nat
  OBVIOUS
<1>2. CASE EndsFile(tape, p)
  <2>1. p < Len(tape) => g[p + 1] = h[p + 1]
    BY <1>1
  <2>2. \A r : Found(tape, r, p) =
          <<<<>>>> \o (IF p < Len(tape) /\ ~EndsFile(tape, p + 1) THEN r[p + 1] ELSE <<>>)
    BY <1>2 DEF Found
  <2> QED BY <2>1, <2>2
<1>3. CASE ~EndsFile(tape, p)
  <2>1. p + tape[p] + 2 \in (p + 1)..Len(tape)
    <3>1. ~(p + tape[p] + 2 > Len(tape))
      BY <1>3 DEF EndsFile
    <3> DEFINE n == tape[p]
    <3>2. n \in Nat /\ p + n + 2 <= Len(tape)
      BY <1>1, <3>1
    <3> HIDE DEF n
    <3>3. p + n + 2 \in (p + 1)..Len(tape)
      BY <1>1, <3>2
    <3> QED BY <3>3 DEF n
  <2>2. g[p + tape[p] + 2] = h[p + tape[p] + 2]
    BY <2>1
  <2> QED BY <1>3, <2>2 DEF Found
<1> QED BY <1>2, <1>3

\* The drive's function exists: a step looks only at later positions.
LEMMA ReadingExists ==
  ASSUME NEW tape \in Seq(Nat)
  PROVE  \E g : g = [p \in 1..Len(tape) |-> Found(tape, g, p)]
<1> DEFINE N == Len(tape)
           P(n) == \E g : g = [p \in (n + 1)..N |-> Found(tape, g, p)]
           S == {n \in 0..N : P(n)}
<1>t. N \in Nat
  OBVIOUS
<1>1. P(N)
  <2> DEFINE g == [p \in (N + 1)..N |-> 0]
  <2>1. (N + 1)..N = {}
    BY <1>t
  <2>2. g = [p \in (N + 1)..N |-> Found(tape, g, p)]
    BY <2>1
  <2> HIDE DEF g
  <2> QED BY <2>2
<1>2. ASSUME NEW n \in 1..N, P(n) PROVE P(n - 1)
  <2>1. PICK g : g = [p \in (n + 1)..N |-> Found(tape, g, p)]
    BY <1>2
  <2> DEFINE h == [p \in n..N |-> IF p = n THEN Found(tape, g, n) ELSE g[p]]
  <2>2. (n - 1) + 1 = n /\ h = [p \in n..N |-> h[p]]
    OBVIOUS
  <2>3. \A q \in (n + 1)..N : h[q] = g[q]
    OBVIOUS
  <2>4. h[n] = Found(tape, g, n)
    BY <1>t
  <2> HIDE DEF h, N
  <2>5. ASSUME NEW p \in n..N PROVE h[p] = Found(tape, h, p)
    <3>1. p \in 1..N /\ \A q \in (p + 1)..N : q \in (n + 1)..N
      BY <1>t
    <3>2. Found(tape, g, p) = Found(tape, h, p)
      BY <2>3, <3>1, FoundLater DEF N
    <3>3. CASE p = n
      BY <2>4, <3>2, <3>3
    <3>4. CASE p # n
      <4>1. p \in (n + 1)..N
        BY <1>t, <3>4
      <4>2. g[p] = Found(tape, g, p)
        BY <2>1, <4>1
      <4> QED BY <2>3, <3>2, <4>1, <4>2
    <3> QED BY <3>3, <3>4
  <2>6. h = [p \in n..N |-> Found(tape, h, p)]
    BY <2>2, <2>5
  <2> QED BY <2>2, <2>6
<1> HIDE DEF P
<1>3. N \in S /\ \A n \in 1..N : n \in S => n - 1 \in S
  BY <1>t, <1>1, <1>2
<1>4. 0..N \subseteq S
  <2> HIDE DEF S, N
  <2> QED BY <1>t, <1>3, DownwardInduction
<1>5. P(0)
  BY <1>t, <1>4
<1> QED BY <1>5 DEF P

LEMMA ReadingStep ==
  ASSUME NEW tape \in Seq(Nat), NEW p \in 1..Len(tape)
  PROVE  Reading(tape)[p] = Found(tape, Reading(tape), p)
<1>1. Reading(tape) = CHOOSE g : g = [q \in 1..Len(tape) |-> Found(tape, g, q)]
  BY DEF Reading, Found
<1>2. Reading(tape) = [q \in 1..Len(tape) |-> Found(tape, Reading(tape), q)]
  BY <1>1, ReadingExists
<1> QED BY <1>2

\* A file, perhaps empty, and then others.
Readings == {r \in Seq(Seq(Nat)) : r # <<>>}

LEMMA ReadingParts ==
  ASSUME NEW r \in Readings, NEW s \in Seq(Nat), NEW t \in Seq(Seq(Nat))
  PROVE  /\ Head(r) \in Seq(Nat) /\ Tail(r) \in Seq(Seq(Nat))
         /\ <<s>> \o t \in Readings /\ Head(<<s>> \o t) = s /\ Tail(<<s>> \o t) = t
<1>1. r \in Seq(Seq(Nat)) /\ r # <<>>
  BY DEF Readings
<1>2. Head(r) \in Seq(Nat) /\ Tail(r) \in Seq(Seq(Nat))
  BY <1>1, HeadTailProperties
<1>3. <<s>> \in Seq(Seq(Nat)) /\ Len(<<s>>) = 1 /\ <<s>>[1] = s
  OBVIOUS
<1> DEFINE u == <<s>> \o t
<1>4. u \in Seq(Seq(Nat)) /\ Len(u) = 1 + Len(t) /\ Len(t) \in Nat
  BY <1>3, ConcatProperties
<1>5. u[1] = s /\ \A j \in 1..Len(t) : u[1 + j] = t[j]
  BY <1>3, ConcatProperties
<1>6. u # <<>>
  BY <1>4
<1>7. Head(u) = s
  BY <1>4, <1>5, <1>6
<1>8. Tail(u) \in Seq(Seq(Nat)) /\ Len(Tail(u)) = Len(t) /\ \A j \in 1..Len(t) : Tail(u)[j] = t[j]
  BY <1>4, <1>5, <1>6, HeadTailProperties
<1>9. Tail(u) = t
  BY <1>8, SeqEqual
<1> QED BY <1>2, <1>4, <1>6, <1>7, <1>9 DEF Readings

LEMMA ReadingTypes ==
  ASSUME NEW tape \in Seq(Nat)
  PROVE  \A p \in 1..Len(tape) : Reading(tape)[p] \in Readings
<1> DEFINE N == Len(tape)
           S == {n \in 0..N : \A p \in (n + 1)..N : Reading(tape)[p] \in Readings}
<1>t. N \in Nat /\ N \in S
  OBVIOUS
<1>1. ASSUME NEW n \in 1..N, n \in S PROVE n - 1 \in S
  <2>1. \A p \in (n + 1)..N : Reading(tape)[p] \in Readings
    BY <1>1
  <2>2. Reading(tape)[n] = Found(tape, Reading(tape), n)
    BY ReadingStep
  <2>3. tape[n] \in Nat /\ n \in Nat
    OBVIOUS
  <2>4. Found(tape, Reading(tape), n) \in Readings
    <3>1. CASE EndsFile(tape, n)
      <4> DEFINE t == IF n < N /\ ~EndsFile(tape, n + 1) THEN Reading(tape)[n + 1] ELSE <<>>
      <4>1. t \in Seq(Seq(Nat))
        <5>1. n < N => n + 1 \in (n + 1)..N
          BY <1>t, <2>3
        <5>2. n < N => Reading(tape)[n + 1] \in Seq(Seq(Nat))
          BY <2>1, <5>1 DEF Readings
        <5>3. <<>> \in Seq(Seq(Nat))
          OBVIOUS
        <5> QED BY <5>2, <5>3
      <4>2. Found(tape, Reading(tape), n) = <<<<>>>> \o t
        BY <3>1 DEF Found
      <4>3. <<>> \in Seq(Nat)
        OBVIOUS
      <4> HIDE DEF t
      <4>4. <<<<>>>> \o t \in Readings
        <5>1. <<<<>>>> \in Readings
          <6>1. <<<<>>>> \in Seq(Seq(Nat)) /\ Len(<<<<>>>>) = 1
            BY <4>3
          <6> QED BY <6>1 DEF Readings
        <5> QED BY <4>1, <4>3, <5>1, ReadingParts
      <4> QED BY <4>2, <4>4
    <3>2. CASE ~EndsFile(tape, n)
      <4> DEFINE m == n + tape[n] + 2
                 block == SubSeq(tape, n + 1, n + tape[n])
                 rest == Reading(tape)[m]
      <4>1. m <= N
        BY <1>t, <2>3, <3>2 DEF EndsFile
      <4>2. rest \in Readings
        BY <1>t, <2>1, <2>3, <4>1
      <4>3. block \in Seq(Nat)
        <5>1. n + 1 \in Int /\ n + tape[n] \in Int /\ n + tape[n] <= N
          BY <1>t, <2>3, <4>1
        <5>2. \A i \in (n + 1)..(n + tape[n]) : tape[i] \in Nat
          BY <1>t, <2>3, <5>1
        <5> QED BY <5>1, <5>2, SubSeqProperties
      <4>4. Found(tape, Reading(tape), n) = <<block \o Head(rest)>> \o Tail(rest)
        BY <3>2 DEF Found
      <4> HIDE DEF block, rest
      <4>5. Head(rest) \in Seq(Nat) /\ Tail(rest) \in Seq(Seq(Nat))
        BY <4>2, <4>3, ReadingParts, <<>> \in Seq(Seq(Nat))
      <4>6. block \o Head(rest) \in Seq(Nat)
        BY <4>3, <4>5
      <4> DEFINE s == block \o Head(rest)
                 t == Tail(rest)
      <4>7. s \in Seq(Nat) /\ t \in Seq(Seq(Nat))
        BY <4>5, <4>6
      <4> HIDE DEF s, t
      <4>8. <<s>> \o t \in Readings
        BY <4>2, <4>7, ReadingParts
      <4> QED BY <4>4, <4>8 DEF s, t
    <3> QED BY <3>1, <3>2
  <2>5. \A p \in n..N : Reading(tape)[p] \in Readings
    BY <1>t, <2>1, <2>2, <2>3, <2>4
  <2> QED BY <1>t, <2>3, <2>5
<1>2. 0..N \subseteq S
  <2> HIDE DEF S, N
  <2> QED BY <1>t, <1>1, DownwardInduction
<1>3. 0 \in S
  <2>1. 0 \in 0..N
    BY <1>t
  <2> HIDE DEF S
  <2> QED BY <1>2, <2>1
<1> QED BY <1>3

LEMMA ReadsMark ==
  ASSUME NEW tape \in Seq(Nat), NEW p \in 1..Len(tape), tape[p] = TapeMark
  PROVE  /\ Head(Reading(tape)[p]) = <<>>
         /\ Tail(Reading(tape)[p]) = IF p < Len(tape) /\ ~EndsFile(tape, p + 1)
                                       THEN Reading(tape)[p + 1] ELSE <<>>
<1> DEFINE t == IF p < Len(tape) /\ ~EndsFile(tape, p + 1) THEN Reading(tape)[p + 1] ELSE <<>>
<1>1. Reading(tape)[p] = <<<<>>>> \o t
  BY ReadingStep DEF Found, EndsFile
<1>2. t \in Seq(Seq(Nat))
  <2>1. p < Len(tape) => p + 1 \in 1..Len(tape)
    OBVIOUS
  <2>2. p < Len(tape) => Reading(tape)[p + 1] \in Seq(Seq(Nat))
    BY <2>1, ReadingTypes DEF Readings
  <2>3. <<>> \in Seq(Seq(Nat))
    OBVIOUS
  <2> QED BY <2>2, <2>3
<1> HIDE DEF t
<1>3. <<>> \in Seq(Nat) /\ Reading(tape)[p] \in Readings
  BY ReadingTypes
<1>4. Head(<<<<>>>> \o t) = <<>> /\ Tail(<<<<>>>> \o t) = t
  BY <1>2, <1>3, ReadingParts
<1> QED BY <1>1, <1>4 DEF t

\* A whole record that something follows.
ReadsBlock(tape, p, block, next) ==
  /\ ~EndsFile(tape, p)
  /\ Reading(tape)[next] \in Readings
  /\ Reading(tape)[p] = <<block \o Head(Reading(tape)[next])>> \o Tail(Reading(tape)[next])

LEMMA ReadsRecord ==
  ASSUME NEW tape \in Seq(Nat), NEW p \in Nat, NEW size \in Nat \ {0}, NEW block \in Seq(Nat),
         Len(block) = size, Holds(tape, p, <<size>> \o block \o <<size>>),
         p + size + 2 < Len(tape)
  PROVE  ReadsBlock(tape, p + 1, block, p + size + 3)
<1> DEFINE rest == Reading(tape)[p + size + 3]
<1>1. /\ Len(tape) \in Nat /\ p + 1 \in 1..Len(tape) /\ p + size + 3 \in 1..Len(tape)
      /\ p + 1 + size + 2 = p + size + 3
  OBVIOUS
<1>2. tape[p + 1] = size /\ \A j \in 1..size : tape[p + 1 + j] = block[j]
  <2> DEFINE w == <<size>>
  <2>1. w \in Seq(Nat) /\ Len(w) = 1 /\ w[1] = size
    OBVIOUS
  <2>2. Holds(tape, p, w \o block \o w)
    OBVIOUS
  <2> HIDE DEF w
  <2>3. w \o block \in Seq(Nat)
    BY <2>1
  <2>4. HoldsBoth(tape, p, w \o block, w)
    BY <2>1, <2>2, <2>3, HoldsParts
  <2>5. HoldsBoth(tape, p, w, block)
    BY <2>1, <2>4, HoldsParts DEF HoldsBoth
  <2> QED BY <2>1, <2>5 DEF Holds, HoldsBoth
<1>3. ~EndsFile(tape, p + 1)
  BY <1>1, <1>2 DEF EndsFile, TapeMark
<1>4. SubSeq(tape, p + 1 + 1, p + 1 + size) = block
  <2> DEFINE s == SubSeq(tape, p + 1 + 1, p + 1 + size)
  <2>1. p + 1 + 1 \in 1..(Len(tape) + 1) /\ p + 1 + size \in (p + 1)..Len(tape)
    BY <1>1
  <2>2. s \in Seq(Nat) /\ Len(s) = size /\ \A j \in 1..size : s[j] = tape[p + 1 + j]
    BY <2>1, SubSeqProperties, SMTT(20)
  <2>3. \A j \in 1..size : s[j] = block[j]
    BY <1>2, <2>2
  <2> HIDE DEF s
  <2>4. s = block
    BY <2>2, <2>3, SeqEqual
  <2> QED BY <2>4 DEF s
<1>5. Reading(tape)[p + 1] = <<block \o Head(rest)>> \o Tail(rest)
  <2> DEFINE m == p + 1
  <2>1. Reading(tape)[m] = Found(tape, Reading(tape), m)
    BY <1>1, ReadingStep
  <2>2. Found(tape, Reading(tape), m) =
          LET r == Reading(tape)[m + tape[m] + 2]
          IN <<SubSeq(tape, m + 1, m + tape[m]) \o Head(r)>> \o Tail(r)
    BY <1>3 DEF Found
  <2>3. m + tape[m] + 2 = p + size + 3 /\ tape[m] = size
    BY <1>1, <1>2
  <2> QED BY <1>4, <2>1, <2>2, <2>3
<1>6. rest \in Readings
  BY <1>1, ReadingTypes
<1> QED BY <1>3, <1>5, <1>6 DEF ReadsBlock

------------------------------------------------------------------------------
(* One file. *)

\* Whole blocks: the last one is filled up.
LEMMA BlockCount ==
  ASSUME NEW n \in Nat, NEW size \in Nat \ {0}
  PROVE  LET short == n % size
             count == (n + size - 1) \div size
         IN /\ count \in Nat /\ short \in 0..(size - 1)
            /\ count * size = IF short = 0 THEN n ELSE n + (size - short)
            /\ count = 0 <=> n = 0
<1> DEFINE a == n \div size
           r == n % size
           b == (n + size - 1) \div size
           t == (n + size - 1) % size
<1>1. a \in Nat /\ r \in 0..(size - 1) /\ n = size * a + r
  OBVIOUS
<1>2. n + size - 1 \in Nat
  OBVIOUS
<1>3. b \in Nat /\ t \in 0..(size - 1) /\ n + size - 1 = size * b + t
  BY <1>2
<1> HIDE DEF a, r, b, t
<1>4. b = a + (IF r = 0 THEN 0 ELSE 1)
  BY <1>1, <1>3
<1>5. b * size = IF r = 0 THEN n ELSE n + (size - r)
  BY <1>1, <1>4
<1>6. b = 0 <=> n = 0
  BY <1>1, <1>3, <1>4
<1> QED BY <1>1, <1>3, <1>5, <1>6 DEF b, r

LEMMA PaddedLength ==
  ASSUME NEW data \in Seq(Nat), NEW size \in Nat \ {0}
  PROVE  /\ Padded(data, size) \in Seq(Nat)
         /\ Blocks(data, size) \in Nat
         /\ Len(Padded(data, size)) = Blocks(data, size) * size
         /\ Blocks(data, size) = 0 <=> data = <<>>
         /\ \A j \in 1..Len(Padded(data, size)) :
              Padded(data, size)[j] = IF j <= Len(data) THEN data[j] ELSE Padding
<1> DEFINE short == Len(data) % size
           zeros == [i \in 1..(size - short) |-> Padding]
           P == Padded(data, size)
<1>1. Len(data) \in Nat /\ (data = <<>> <=> Len(data) = 0)
  OBVIOUS
<1>2. /\ Blocks(data, size) \in Nat /\ short \in 0..(size - 1)
      /\ Blocks(data, size) * size = IF short = 0 THEN Len(data) ELSE Len(data) + (size - short)
      /\ Blocks(data, size) = 0 <=> Len(data) = 0
  BY <1>1, BlockCount DEF Blocks
<1>3. P = IF short = 0 THEN data ELSE data \o zeros
  BY DEF Padded
<1> HIDE DEF short, P
<1>4. zeros \in Seq(Nat) /\ Len(zeros) = size - short /\ \A i \in 1..(size - short) : zeros[i] = Padding
  BY <1>2 DEF Padding
<1> HIDE DEF zeros
<1>5. CASE short = 0
  BY <1>1, <1>2, <1>3, <1>5 DEF P
<1>6. CASE short # 0
  <2>1. /\ P \in Seq(Nat) /\ Len(P) = Len(data) + (size - short)
        /\ \A i \in 1..(Len(data) + (size - short)) :
             P[i] = IF i <= Len(data) THEN data[i] ELSE zeros[i - Len(data)]
    BY <1>3, <1>4, <1>6, ConcatProperties
  <2>2. ASSUME NEW i \in 1..Len(P) PROVE P[i] = IF i <= Len(data) THEN data[i] ELSE Padding
    <3>1. ~(i <= Len(data)) => i - Len(data) \in 1..(size - short)
      BY <1>1, <1>2, <2>1
    <3> QED BY <1>4, <2>1, <3>1
  <2> QED BY <1>1, <1>2, <1>6, <2>1, <2>2 DEF P
<1> QED BY <1>5, <1>6

\* A block is a part of the padded data.
LEMMA BlockOfPadded ==
  ASSUME NEW data \in Seq(Nat), NEW size \in Nat \ {0}, NEW i \in 1..Blocks(data, size)
  PROVE  /\ Block(data, size, i) \in Seq(Nat) /\ Len(Block(data, size, i)) = size
         /\ \A j \in 1..size : /\ (i - 1) * size + j \in 1..Len(Padded(data, size))
                               /\ Block(data, size, i)[j] = Padded(data, size)[(i - 1) * size + j]
<1> DEFINE B == Blocks(data, size)
<1>1. B \in Nat /\ Len(Padded(data, size)) = B * size
  BY PaddedLength
<1> HIDE DEF B
<1>2. i \in Nat /\ i >= 1 /\ i <= B
  BY <1>1 DEF B
<1>3. (i - 1) * size \in Nat /\ (i - 1) * size + size <= B * size
  BY <1>1, <1>2
<1>4. ASSUME NEW j \in 1..size
      PROVE  /\ (i - 1) * size + j \in 1..Len(Padded(data, size))
             /\ Block(data, size, i)[j] = Padded(data, size)[(i - 1) * size + j]
             /\ Block(data, size, i)[j] \in Nat
  <2> DEFINE k == (i - 1) * size + j
  <2>1. k \in 1..Len(Padded(data, size))
    BY <1>1, <1>3
  <2>2. Block(data, size, i)[j] = IF k <= Len(data) THEN data[k] ELSE Padding
    BY DEF Block
  <2> HIDE DEF k
  <2>3. Block(data, size, i)[j] = Padded(data, size)[k]
    BY <2>1, <2>2, PaddedLength
  <2>4. Padded(data, size)[k] \in Nat
    BY <2>1, PaddedLength
  <2> QED BY <2>1, <2>3, <2>4 DEF k
<1>5. Block(data, size, i) = [j \in 1..size |-> Block(data, size, i)[j]]
  BY DEF Block
<1>6. Block(data, size, i) \in Seq(Nat) /\ Len(Block(data, size, i)) = size
  <2> DEFINE b == Block(data, size, i)
  <2>1. b = [j \in 1..size |-> b[j]] /\ \A j \in 1..size : b[j] \in Nat
    BY <1>4, <1>5
  <2> HIDE DEF b
  <2>2. b \in Seq(Nat) /\ Len(b) = size
    BY <2>1, SMTT(20)
  <2> QED BY <2>2 DEF b
<1> QED BY <1>4, <1>6

\* The records of a file, and what they are flattened to.
Records(data, size) == [i \in 1..Blocks(data, size) |-> <<size>> \o Block(data, size, i) \o <<size>>]

LEMMA RecordTypes ==
  ASSUME NEW data \in Seq(Nat), NEW size \in Nat \ {0}
  PROVE  /\ Records(data, size) \in Seq(Seq(Nat)) /\ Len(Records(data, size)) = Blocks(data, size)
         /\ \A i \in 1..Blocks(data, size) : Len(Records(data, size)[i]) = size + 2
         /\ TapeFile(data, size) \in Seq(Nat)
<1>1. Blocks(data, size) \in Nat
  BY PaddedLength
<1>2. ASSUME NEW i \in 1..Blocks(data, size)
      PROVE  /\ Records(data, size)[i] \in Seq(Nat)
             /\ Len(Records(data, size)[i]) = size + 2
  <2>1. Records(data, size)[i] = <<size>> \o Block(data, size, i) \o <<size>>
    BY DEF Records
  <2>2. Block(data, size, i) \in Seq(Nat) /\ Len(Block(data, size, i)) = size
    BY BlockOfPadded
  <2>3. <<size>> \in Seq(Nat) /\ Len(<<size>>) = 1
    OBVIOUS
  <2>4. <<size>> \o Block(data, size, i) \in Seq(Nat) /\ Len(<<size>> \o Block(data, size, i)) = 1 + size
    BY <2>2, <2>3, ConcatProperties
  <2>5. /\ <<size>> \o Block(data, size, i) \o <<size>> \in Seq(Nat)
        /\ Len(<<size>> \o Block(data, size, i) \o <<size>>) = 1 + size + 1
    BY <2>3, <2>4, ConcatProperties
  <2> QED BY <2>1, <2>5
<1>3. Records(data, size) \in Seq(Seq(Nat)) /\ Len(Records(data, size)) = Blocks(data, size)
  <2>1. Records(data, size) = [i \in 1..Blocks(data, size) |-> Records(data, size)[i]]
    BY DEF Records
  <2> QED BY <1>1, <1>2, <2>1, SMTT(20)
<1>4. FlattenSeq(Records(data, size)) \in Seq(Nat)
  <2>1. PICK f \in [0..Len(Records(data, size)) -> Seq(Nat)] :
          FlattenSeq(Records(data, size)) = f[Len(Records(data, size))]
    BY <1>3, Flattens
  <2>2. Len(Records(data, size)) \in 0..Len(Records(data, size))
    BY <1>1, <1>3
  <2> QED BY <2>1, <2>2
<1>5. TapeFile(data, size) \in Seq(Nat)
  <2>1. <<TapeMark>> \in Seq(Nat)
    BY DEF TapeMark
  <2>2. TapeFile(data, size) = FlattenSeq(Records(data, size)) \o <<TapeMark>>
    BY DEF TapeFile, Records
  <2> QED BY <1>4, <2>1, <2>2, ConcatProperties
<1> QED BY <1>2, <1>3, <1>5

\* What follows the first m.
LEMMA Suffix ==
  ASSUME NEW P \in Seq(Nat), NEW m \in Nat, m <= Len(P)
  PROVE  /\ SubSeq(P, m + 1, Len(P)) \in Seq(Nat)
         /\ Len(SubSeq(P, m + 1, Len(P))) = Len(P) - m
         /\ \A j \in 1..(Len(P) - m) : SubSeq(P, m + 1, Len(P))[j] = P[m + j]
<1>1. Len(P) \in Nat /\ \A k \in 1..Len(P) : P[k] \in Nat
  OBVIOUS
<1>2. /\ SubSeq(P, m + 1, Len(P)) \in Seq(Nat)
      /\ Len(SubSeq(P, m + 1, Len(P))) = IF m + 1 <= Len(P) THEN Len(P) - (m + 1) + 1 ELSE 0
      /\ \A j \in 1..(Len(P) - (m + 1) + 1) : SubSeq(P, m + 1, Len(P))[j] = P[(m + 1) + j - 1]
  <2>1. \A k \in (m + 1)..Len(P) : P[k] \in Nat
    BY <1>1
  <2>2. m + 1 \in Int /\ Len(P) \in Int
    BY <1>1
  <2> QED BY <2>1, <2>2, SubSeqProperties
<1> DEFINE s == SubSeq(P, m + 1, Len(P))
<1> HIDE DEF s
<1>3. Len(s) = Len(P) - m
  BY <1>1, <1>2 DEF s
<1>4. ASSUME NEW j \in 1..(Len(P) - m) PROVE s[j] = P[m + j]
  <2>1. j \in 1..(Len(P) - (m + 1) + 1) /\ (m + 1) + j - 1 = m + j
    BY <1>1
  <2> QED BY <1>2, <2>1 DEF s
<1> QED BY <1>2, <1>3, <1>4 DEF s

\* From one block to the next.
LEMMA RestOfBlocks ==
  ASSUME NEW P \in Seq(Nat), NEW m \in Nat, NEW b \in Seq(Nat), m + Len(b) <= Len(P),
         \A j \in 1..Len(b) : b[j] = P[m + j]
  PROVE  b \o SubSeq(P, m + Len(b) + 1, Len(P)) = SubSeq(P, m + 1, Len(P))
<1> DEFINE L == Len(P)
           n == Len(b)
           u == SubSeq(P, m + n + 1, L)
           v == SubSeq(P, m + 1, L)
<1>1. L \in Nat /\ n \in Nat /\ m + n \in Nat /\ m + n <= L /\ m <= L
  OBVIOUS
<1>2. u \in Seq(Nat) /\ Len(u) = L - (m + n) /\ \A j \in 1..(L - (m + n)) : u[j] = P[m + n + j]
  BY <1>1, Suffix
<1>3. v \in Seq(Nat) /\ Len(v) = L - m /\ \A j \in 1..(L - m) : v[j] = P[m + j]
  BY <1>1, Suffix
<1> HIDE DEF u, v
<1>4. /\ b \o u \in Seq(Nat) /\ Len(b \o u) = n + Len(u)
      /\ \A j \in 1..(n + Len(u)) : (b \o u)[j] = IF j <= n THEN b[j] ELSE u[j - n]
  BY <1>2, ConcatProperties
<1>5. Len(b \o u) = Len(v) /\ Len(b \o u) = L - m
  BY <1>1, <1>2, <1>3, <1>4
<1>6. ASSUME NEW j \in 1..Len(b \o u) PROVE (b \o u)[j] = v[j]
  <2>1. j \in 1..(L - m) /\ j \in 1..(n + Len(u))
    BY <1>1, <1>4, <1>5
  <2>2. CASE j <= n
    <3>1. (b \o u)[j] = b[j]
      BY <1>4, <2>1, <2>2
    <3>2. b[j] = P[m + j] /\ v[j] = P[m + j]
      BY <1>3, <2>1, <2>2
    <3> QED BY <3>1, <3>2
  <2>3. CASE ~(j <= n)
    <3>1. j - n \in 1..(L - (m + n)) /\ m + n + (j - n) = m + j
      BY <1>1, <2>1, <2>3
    <3>2. u[j - n] = P[m + j]
      BY <1>2, <3>1
    <3> QED BY <1>3, <1>4, <2>1, <2>3, <3>2
  <2> QED BY <2>2, <2>3
<1>7. b \o u = v
  BY <1>3, <1>4, <1>5, <1>6, SeqEqual
<1> QED BY <1>7 DEF u, v

\* A tape that holds s and a mark.
MarkAfter(tape, p, s, t) ==
  /\ Holds(tape, p, s) /\ p + Len(s) + 1 \in 1..Len(tape)
  /\ tape[p + Len(s) + 1] = TapeMark
  /\ Len(s \o t) = Len(s) + 1

LEMMA HoldsMark ==
  ASSUME NEW tape \in Seq(Nat), NEW p \in Nat, NEW s \in Seq(Nat),
         NEW t \in Seq(Nat), Len(t) = 1, t[1] = TapeMark, Holds(tape, p, s \o t)
  PROVE  MarkAfter(tape, p, s, t)
<1>2. Holds(tape, p, s) /\ Holds(tape, p + Len(s), t) /\ Len(s \o t) = Len(s) + Len(t)
  <2>1. HoldsBoth(tape, p, s, t)
    BY HoldsParts
  <2> QED BY <2>1 DEF HoldsBoth
<1>3. p + Len(s) + 1 <= Len(tape) /\ tape[p + Len(s) + 1] = TapeMark
  BY <1>2 DEF Holds
<1>4. Len(s) \in Nat /\ Len(tape) \in Nat
  OBVIOUS
<1> QED BY <1>2, <1>3, <1>4 DEF MarkAfter

LEMMA ReadingSplits ==
  ASSUME NEW r \in Readings
  PROVE  r = <<Head(r)>> \o Tail(r)
<1> DEFINE h == Head(r)
           t == Tail(r)
<1>1. r \in Seq(Seq(Nat)) /\ r # <<>> /\ Len(r) \in Nat
  BY DEF Readings
<1>2. /\ h = r[1] /\ h \in Seq(Nat) /\ t \in Seq(Seq(Nat)) /\ Len(t) = Len(r) - 1
      /\ \A i \in 1..Len(t) : t[i] = r[i + 1]
  BY <1>1, HeadTailProperties
<1> HIDE DEF h, t
<1>3. <<h>> \in Seq(Seq(Nat)) /\ Len(<<h>>) = 1 /\ <<h>>[1] = h
  BY <1>2
<1>4. /\ <<h>> \o t \in Seq(Seq(Nat)) /\ Len(<<h>> \o t) = 1 + Len(t)
      /\ \A i \in 1..(1 + Len(t)) : (<<h>> \o t)[i] = IF i <= 1 THEN <<h>>[i] ELSE t[i - 1]
  BY <1>2, <1>3, ConcatProperties
<1>5. Len(<<h>> \o t) = Len(r)
  BY <1>1, <1>2, <1>4
<1>6. ASSUME NEW i \in 1..Len(r) PROVE r[i] = (<<h>> \o t)[i]
  <2>1. CASE i = 1
    BY <1>1, <1>2, <1>3, <1>4, <2>1
  <2>2. CASE i # 1
    <3>1. i - 1 \in 1..Len(t) /\ i - 1 + 1 = i /\ i \in 1..(1 + Len(t)) /\ ~(i <= 1)
      BY <1>1, <1>2, <2>2
    <3>2. t[i - 1] = r[i]
      BY <1>2, <3>1
    <3> QED BY <1>4, <3>1, <3>2
  <2> QED BY <2>1, <2>2
<1>7. r = <<h>> \o t
  BY <1>1, <1>4, <1>5, <1>6, SeqEqual
<1> QED BY <1>7 DEF h, t

\* A file that is written is read: its data up to the mark, then what follows the mark.
ReadsUpTo(tape, p, data, size, mark) ==
  /\ mark \in 1..Len(tape) /\ tape[mark] = TapeMark /\ p + 1 <= mark
  /\ Reading(tape)[p + 1] = <<Padded(data, size)>> \o Tail(Reading(tape)[mark])
  /\ EndsFile(tape, p + 1) <=> data = <<>>

LEMMA ReadsFile ==
  ASSUME NEW tape \in Seq(Nat), NEW p \in Nat, NEW data \in Seq(Nat), NEW size \in Nat \ {0},
         Holds(tape, p, TapeFile(data, size))
  PROVE  ReadsUpTo(tape, p, data, size, p + Len(TapeFile(data, size)))
<1> DEFINE B == Blocks(data, size)
           P == Padded(data, size)
           rec == Records(data, size)
           R == Reading(tape)
<1>1. /\ B \in Nat /\ P \in Seq(Nat) /\ Len(P) = B * size
      /\ B = 0 <=> data = <<>>
      /\ rec \in Seq(Seq(Nat)) /\ Len(rec) = B
      /\ \A i \in 1..B : Len(rec[i]) = size + 2
  BY PaddedLength, RecordTypes
<1>2. PICK f \in [0..B -> Seq(Nat)] : Flattened(rec, f) /\ FlattenSeq(rec) = f[B]
  BY <1>1, Flattens
<1> HIDE DEF B, P, R
<1>3. f[B] \in Seq(Nat) /\ f[0] = <<>> /\ \A i \in 0..B : f[i] \in Seq(Nat) /\ Len(f[i]) \in Nat
  <2>1. B \in 0..B
    BY <1>1
  <2>2. \A i \in 0..B : f[i] \in Seq(Nat) /\ Len(f[i]) \in Nat
    OBVIOUS
  <2>3. f[0] = <<>>
    BY <1>2 DEF Flattened
  <2> QED BY <2>1, <2>2, <2>3
<1> DEFINE mark == p + Len(f[B]) + 1
<1>4. /\ Holds(tape, p, f[B]) /\ mark \in 1..Len(tape) /\ tape[mark] = TapeMark
      /\ mark = p + Len(TapeFile(data, size))
  <2>1. TapeFile(data, size) = f[B] \o <<TapeMark>>
    BY <1>2 DEF TapeFile, Records, B
  <2> DEFINE s == f[B]
             t == <<TapeMark>>
  <2>2. /\ s \in Seq(Nat) /\ Holds(tape, p, s \o t)
        /\ t \in Seq(Nat) /\ Len(t) = 1 /\ t[1] = TapeMark
    BY <1>3, <2>1 DEF TapeMark
  <2> HIDE DEF s, t
  <2>3. /\ Holds(tape, p, s) /\ p + Len(s) + 1 \in 1..Len(tape)
        /\ tape[p + Len(s) + 1] = TapeMark
        /\ Len(s \o t) = Len(s) + 1
    <3>1. MarkAfter(tape, p, s, t)
      BY <2>2, HoldsMark
    <3> QED BY <3>1 DEF MarkAfter
  <2>4. Len(s) \in Nat
    BY <2>2
  <2>5. p + Len(s) + 1 = p + (Len(s) + 1)
    BY <2>4
  <2> QED BY <2>1, <2>3, <2>5 DEF s, t
<1>5. ASSUME NEW i \in 1..B
      PROVE  /\ Holds(tape, p + Len(f[i - 1]), <<size>> \o Block(data, size, i) \o <<size>>)
             /\ Len(f[i]) = Len(f[i - 1]) + size + 2
  <2>1. /\ Holds(tape, p + Len(f[i - 1]), rec[i])
        /\ Len(f[i]) = Len(f[i - 1]) + Len(rec[i])
    <3> HIDE DEF rec, mark
    <3>1. /\ f \in [0..Len(rec) -> Seq(Nat)] /\ Flattened(rec, f) /\ Holds(tape, p, f[Len(rec)])
          /\ rec \in Seq(Seq(Nat)) /\ Len(rec) = B
      <4>1. rec \in Seq(Seq(Nat)) /\ Len(rec) = B
        BY <1>1
      <4>2. Holds(tape, p, f[B])
        BY <1>4
      <4> QED BY <1>2, <4>1, <4>2
    <3>2. HoldsEach(tape, p, rec, f)
      BY <3>1, HoldsPieces
    <3> QED BY <3>1, <3>2 DEF HoldsEach
  <2>2. rec[i] = <<size>> \o Block(data, size, i) \o <<size>>
    BY DEF Records, B
  <2>3. Len(rec[i]) = size + 2 /\ i - 1 \in 0..B /\ Len(f[i - 1]) \in Nat
    <3>1. i - 1 \in 0..B
      BY <1>1
    <3> QED BY <1>1, <1>3, <3>1
  <2> DEFINE n == Len(f[i - 1])
             k == Len(rec[i])
  <2>4. /\ Holds(tape, p + n, rec[i]) /\ Len(f[i]) = n + k
        /\ n \in Nat /\ k = size + 2
    BY <2>1, <2>3
  <2> HIDE DEF n, k
  <2>5. n + (size + 2) = n + size + 2
    BY <2>4
  <2>6. Len(f[i]) = n + size + 2
    BY <2>4, <2>5
  <2> QED BY <2>2, <2>4, <2>6 DEF n
<1> HIDE DEF rec
<1> DEFINE rest(i) == SubSeq(P, i * size + 1, Len(P))
           S == {i \in 0..B : /\ Len(f[i]) <= Len(f[B])
                              /\ R[p + Len(f[i]) + 1] = <<rest(i)>> \o Tail(R[mark])}
<1>6. R[mark] \in Readings /\ Head(R[mark]) = <<>> /\ Tail(R[mark]) \in Seq(Seq(Nat))
  <2>1. R[mark] \in Readings /\ Head(R[mark]) = <<>>
    BY <1>4, ReadingTypes, ReadsMark DEF R
  <2>2. R[mark] \in Seq(Seq(Nat)) /\ R[mark] # <<>>
    BY <2>1 DEF Readings
  <2>3. Tail(R[mark]) \in Seq(Seq(Nat))
    BY <2>2, HeadTailProperties
  <2> QED BY <2>1, <2>3
<1>7. B \in S
  <2>1. rest(B) = <<>>
    <3>1. B * size + 1 = Len(P) + 1 /\ Len(P) \in Nat
      BY <1>1
    <3> QED BY <3>1, SubSeqEmpty
  <2>2. R[mark] = <<rest(B)>> \o Tail(R[mark])
    BY <1>6, <2>1, ReadingSplits
  <2>3. B \in 0..B /\ Len(f[B]) <= Len(f[B])
    BY <1>1, <1>3
  <2> HIDE DEF rest
  <2> QED BY <2>2, <2>3
<1>8. ASSUME NEW i \in 1..B, i \in S
      PROVE  i - 1 \in S /\ ~EndsFile(tape, p + Len(f[i - 1]) + 1)
  <2> DEFINE b == Block(data, size, i)
             q == p + Len(f[i - 1])
  <2>1. /\ i - 1 \in 0..B /\ Len(f[i - 1]) \in Nat /\ Len(f[B]) \in Nat /\ Len(tape) \in Nat
        /\ q \in Nat
    <3>1. i - 1 \in 0..B
      BY <1>1
    <3>2. Len(f[i - 1]) \in Nat
      BY <1>3, <3>1
    <3> QED BY <1>3, <3>1, <3>2
  <2>2. Len(f[i]) = Len(f[i - 1]) + size + 2 /\ Holds(tape, q, <<size>> \o b \o <<size>>)
    BY <1>5
  <2>3. /\ b \in Seq(Nat) /\ Len(b) = size
        /\ \A j \in 1..size : b[j] = P[(i - 1) * size + j]
    BY BlockOfPadded DEF B, P
  <2>4. Len(f[i]) <= Len(f[B]) /\ R[p + Len(f[i]) + 1] = <<rest(i)>> \o Tail(R[mark])
    BY <1>8
  <2> HIDE DEF b, q, rest, S
  <2>5. q + size + 2 < Len(tape) /\ q + size + 3 = p + Len(f[i]) + 1
    BY <1>4, <2>1, <2>2, <2>4 DEF q
  <2> DEFINE r == R[p + Len(f[i]) + 1]
  <2>6. /\ ~EndsFile(tape, q + 1)
        /\ r \in Readings
        /\ R[q + 1] = <<b \o Head(r)>> \o Tail(r)
    <3>1. ReadsBlock(tape, q + 1, b, q + size + 3)
      <4>1. /\ q \in Nat /\ b \in Seq(Nat) /\ Len(b) = size
            /\ Holds(tape, q, <<size>> \o b \o <<size>>) /\ q + size + 2 < Len(tape)
        BY <2>1, <2>2, <2>3, <2>5
      <4> QED BY <4>1, ReadsRecord
    <3> QED BY <2>5, <3>1 DEF R, ReadsBlock
  <2>7. rest(i) \in Seq(Nat) /\ b \o rest(i) = rest(i - 1)
    <3> DEFINE m == (i - 1) * size
    <3>1. m \in Nat /\ m + size <= Len(P) /\ i * size = m + size /\ m + size \in Nat
      <4>1. i \in Nat /\ i >= 1 /\ i <= B
        BY <1>1
      <4>2. (i - 1) * size \in Nat /\ i * size = (i - 1) * size + size
        BY <4>1
      <4>3. i * size <= B * size
        BY <1>1, <4>1
      <4> QED BY <1>1, <4>2, <4>3
    <3>2. \A j \in 1..Len(b) : b[j] = P[m + j]
      BY <2>3
    <3>3. rest(i) = SubSeq(P, m + Len(b) + 1, Len(P)) /\ rest(i - 1) = SubSeq(P, m + 1, Len(P))
      BY <2>3, <3>1 DEF rest
    <3> HIDE DEF m
    <3>4. b \o SubSeq(P, m + Len(b) + 1, Len(P)) = SubSeq(P, m + 1, Len(P))
      BY <1>1, <2>3, <3>1, <3>2, RestOfBlocks
    <3>5. SubSeq(P, m + Len(b) + 1, Len(P)) \in Seq(Nat)
      BY <1>1, <2>3, <3>1, Suffix
    <3> QED BY <3>3, <3>4, <3>5
  <2>8. Head(r) = rest(i) /\ Tail(r) = Tail(R[mark])
    <3> DEFINE t == Tail(R[mark])
               u == rest(i)
    <3>1. r = <<u>> \o t /\ u \in Seq(Nat) /\ t \in Seq(Seq(Nat))
      BY <1>6, <2>4, <2>7
    <3> HIDE DEF t, u, r
    <3>2. Head(r) = u /\ Tail(r) = t
      BY <1>6, <3>1, ReadingParts
    <3> QED BY <3>2 DEF t, u
  <2>9. R[q + 1] = <<rest(i - 1)>> \o Tail(R[mark])
    BY <2>6, <2>7, <2>8
  <2>10. Len(f[i - 1]) <= Len(f[B])
    BY <2>1, <2>2, <2>4
  <2> QED BY <2>1, <2>6, <2>9, <2>10 DEF S, q
<1>9. 0..B \subseteq S
  <2> HIDE DEF S
  <2> QED BY <1>1, <1>7, <1>8, DownwardInduction
<1>10. R[p + 1] = <<P>> \o Tail(R[mark])
  <2>1. 0 \in S
    <3>1. 0 \in 0..B
      BY <1>1
    <3> HIDE DEF S
    <3> QED BY <1>9, <3>1
  <2>2. R[p + Len(f[0]) + 1] = <<rest(0)>> \o Tail(R[mark])
    BY <2>1
  <2>3. p + Len(f[0]) + 1 = p + 1 /\ 0 * size + 1 = 1
    BY <1>3
  <2>4. SubSeq(P, 1, Len(P)) = P
    BY <1>1, SubSeqFull
  <2> QED BY <2>2, <2>3, <2>4
<1>11. EndsFile(tape, p + 1) <=> data = <<>>
  <2>1. CASE B = 0
    <3>1. mark = p + 1
      BY <1>3, <2>1
    <3> QED BY <1>1, <1>4, <2>1, <3>1 DEF EndsFile
  <2>2. CASE B # 0
    <3>1. 1 \in 1..B /\ 1 \in 0..B /\ 1 - 1 = 0
      BY <1>1, <2>2
    <3>2. 1 \in S
      <4> HIDE DEF S
      <4> QED BY <1>9, <3>1
    <3>3. ~EndsFile(tape, p + Len(f[1 - 1]) + 1)
      <4> HIDE DEF S
      <4> QED BY <1>8, <3>1, <3>2
    <3>4. p + Len(f[1 - 1]) + 1 = p + 1
      BY <1>3
    <3> QED BY <1>1, <2>2, <3>3, <3>4
  <2> QED BY <2>1, <2>2
<1>12. p + 1 <= mark
  BY <1>1, <1>3
<1> HIDE DEF mark
<1>13. mark = p + Len(TapeFile(data, size))
  BY <1>4 DEF mark
<1>14. mark \in 1..Len(tape) /\ tape[mark] = TapeMark
  BY <1>4 DEF mark
<1> QED BY <1>10, <1>11, <1>12, <1>13, <1>14 DEF R, P, ReadsUpTo
------------------------------------------------------------------------------
(* The tape. *)

Files == Seq([data : Seq(Nat), size : Nat \ {0}])

Images(files) == [k \in 1..Len(files) |-> TapeFile(files[k].data, files[k].size)]

LEMMA ImageTypes ==
  ASSUME NEW files \in Files
  PROVE  /\ Len(files) \in Nat
         /\ \A k \in 1..Len(files) : files[k].data \in Seq(Nat) /\ files[k].size \in Nat \ {0}
         /\ Images(files) \in Seq(Seq(Nat)) /\ Len(Images(files)) = Len(files)
<1> DEFINE N == Len(files)
           X == [data : Seq(Nat), size : Nat \ {0}]
<1>1. N \in Nat /\ \A k \in 1..N : files[k] \in X
  <2>1. files \in Seq(X)
    BY DEF Files
  <2> HIDE DEF X
  <2> QED BY <2>1
<1>2. \A k \in 1..N : files[k].data \in Seq(Nat) /\ files[k].size \in Nat \ {0}
  BY <1>1
<1> HIDE DEF N
<1> DEFINE im == Images(files)
<1>3. \A k \in 1..N : im[k] = TapeFile(files[k].data, files[k].size)
  BY DEF Images, N
<1>4. \A k \in 1..N : im[k] \in Seq(Nat)
  BY <1>2, <1>3, RecordTypes
<1>5. im = [k \in 1..N |-> im[k]]
  BY DEF Images, N
<1> HIDE DEF im
<1>6. im \in Seq(Seq(Nat)) /\ Len(im) = N
  BY <1>1, <1>4, <1>5
<1> QED BY <1>1, <1>2, <1>6 DEF N, im

\* Where the files of a written tape end.
LEMMA TapeParts ==
  ASSUME NEW files \in Files
  PROVE  /\ WriteTape(files) \in Seq(Nat)
         /\ \E f \in [0..Len(files) -> Seq(Nat)] :
              /\ f[0] = <<>> /\ HoldsEach(WriteTape(files), 0, Images(files), f)
              /\ Len(WriteTape(files)) = Len(f[Len(files)]) + 1
              /\ WriteTape(files)[Len(f[Len(files)]) + 1] = TapeMark
<1> DEFINE N == Len(files)
           im == Images(files)
           tape == WriteTape(files)
           t == <<TapeMark>>
<1>1. N \in Nat /\ im \in Seq(Seq(Nat)) /\ Len(im) = N
  BY ImageTypes
<1>2. tape = FlattenSeq(im) \o t
  BY DEF WriteTape, Images
<1>3. t \in Seq(Nat) /\ Len(t) = 1 /\ t[1] = TapeMark
  BY DEF TapeMark
<1> HIDE DEF N, im, tape, t
<1>4. PICK f \in [0..N -> Seq(Nat)] : Flattened(im, f) /\ FlattenSeq(im) = f[N]
  BY <1>1, Flattens
<1> DEFINE s == f[N]
<1>5. s \in Seq(Nat) /\ tape = s \o t /\ f[0] = <<>>
  <2>1. N \in 0..N
    BY <1>1
  <2> QED BY <1>2, <1>4, <2>1 DEF Flattened
<1>6. tape \in Seq(Nat)
  BY <1>3, <1>5, ConcatProperties
<1> HIDE DEF s
<1>7. Holds(tape, 0, tape)
  BY <1>6 DEF Holds
<1>8. /\ Holds(tape, 0, s) /\ 0 + Len(s) + 1 \in 1..Len(tape) /\ Len(s) \in Nat
      /\ tape[0 + Len(s) + 1] = TapeMark /\ Len(s \o t) = Len(s) + 1
  <2>1. Holds(tape, 0, s \o t) /\ 0 \in Nat
    BY <1>5, <1>7
  <2>2. MarkAfter(tape, 0, s, t)
    BY <1>3, <1>5, <1>6, <2>1, HoldsMark
  <2>3. Len(s) \in Nat
    BY <1>5
  <2> QED BY <2>2, <2>3 DEF MarkAfter
<1>9. HoldsEach(tape, 0, im, f)
  <2>1. f \in [0..Len(im) -> Seq(Nat)] /\ Holds(tape, 0, f[Len(im)]) /\ 0 \in Nat
    BY <1>1, <1>8 DEF s
  <2> QED BY <1>1, <1>4, <1>6, <2>1, HoldsPieces
<1>10. Len(tape) = Len(s) + 1 /\ tape[Len(s) + 1] = TapeMark
  BY <1>5, <1>8
<1> QED BY <1>5, <1>6, <1>9, <1>10 DEF N, im, tape, s

\* a holds the files after the first k, up to one that is empty.
FilesAfter(files, k, a) ==
  /\ a \in Seq(Seq(Nat)) /\ k + Len(a) <= Len(files)
  /\ \A j \in 1..Len(a) : a[j] = Padded(files[k + j].data, files[k + j].size)
  /\ k + Len(a) < Len(files) => files[k + Len(a) + 1].data = <<>>

LEMMA FileBefore ==
  ASSUME NEW files \in Files, NEW k \in 1..Len(files), NEW a, FilesAfter(files, k, a)
  PROVE  FilesAfter(files, k - 1, <<Padded(files[k].data, files[k].size)>> \o a)
<1> DEFINE first == Padded(files[k].data, files[k].size)
           w == <<first>>
           b == w \o a
<1>1. first \in Seq(Nat)
  BY ImageTypes, PaddedLength
<1>2. /\ a \in Seq(Seq(Nat)) /\ k + Len(a) <= Len(files)
      /\ \A j \in 1..Len(a) : a[j] = Padded(files[k + j].data, files[k + j].size)
      /\ k + Len(a) < Len(files) => files[k + Len(a) + 1].data = <<>>
  BY DEF FilesAfter
<1> HIDE DEF first
<1>3. w \in Seq(Seq(Nat)) /\ Len(w) = 1 /\ w[1] = first
  BY <1>1
<1> HIDE DEF w
<1>4. b \in Seq(Seq(Nat)) /\ Len(b) = 1 + Len(a)
  <2> DEFINE X == Seq(Nat)
  <2>1. w \in Seq(X) /\ a \in Seq(X) /\ Len(w) = 1
    BY <1>2, <1>3
  <2> HIDE DEF X
  <2>2. w \o a \in Seq(X) /\ Len(w \o a) = Len(w) + Len(a)
    BY <2>1, ConcatProperties
  <2> QED BY <2>1, <2>2 DEF X
<1>5. \A j \in 1..(1 + Len(a)) : b[j] = IF j <= 1 THEN w[j] ELSE a[j - 1]
  <2>1. \A j \in 1..(Len(w) + Len(a)) : b[j] = IF j <= Len(w) THEN w[j] ELSE a[j - Len(w)]
    BY <1>2, <1>3, ConcatProperties
  <2> HIDE DEF b
  <2> QED BY <1>3, <2>1
<1>6. Len(a) \in Nat /\ k \in Nat /\ Len(files) \in Nat /\ k >= 1
  BY <1>2, ImageTypes
<1> HIDE DEF b
<1>7. k - 1 + Len(b) = k + Len(a)
  BY <1>4, <1>6
<1>8. ASSUME NEW j \in 1..Len(b)
      PROVE  b[j] = Padded(files[k - 1 + j].data, files[k - 1 + j].size)
  <2>1. CASE j = 1
    <3>1. k - 1 + j = k /\ b[j] = first
      BY <1>3, <1>4, <1>5, <1>6, <2>1
    <3> QED BY <3>1 DEF first
  <2>2. CASE j # 1
    <3>1. j - 1 \in 1..Len(a) /\ k + (j - 1) = k - 1 + j /\ b[j] = a[j - 1]
      <4>1. j \in Nat /\ j \in 1..(1 + Len(a)) /\ ~(j <= 1)
        BY <1>4, <1>6, <2>2
      <4>2. b[j] = a[j - 1]
        BY <1>5, <4>1
      <4> QED BY <1>6, <4>1, <4>2
    <3>2. a[j - 1] = Padded(files[k + (j - 1)].data, files[k + (j - 1)].size)
      BY <1>2, <3>1
    <3> QED BY <3>1, <3>2
  <2> QED BY <2>1, <2>2
<1>9. FilesAfter(files, k - 1, b)
  BY <1>2, <1>4, <1>7, <1>8 DEF FilesAfter
<1> QED BY <1>9 DEF b, w, first

\* What write_simh_tape writes, a drive reads: the files in their order, each filled up
\* to whole blocks, up to the first empty one, for every sequence of files and every
\* block size.  Neither data of zeros nor a block like a length is taken for a mark.
THEOREM WrittenTapeReadsBack ==
  ASSUME NEW files \in Files
  PROVE  FilesAfter(files, 0, ReadTape(WriteTape(files)))
<1> DEFINE N == Len(files)
           tape == WriteTape(files)
           R == Reading(tape)
<1>1. /\ N \in Nat /\ Len(Images(files)) = N
      /\ \A k \in 1..N : files[k].data \in Seq(Nat) /\ files[k].size \in Nat \ {0}
  BY ImageTypes
<1>2. tape \in Seq(Nat)
  BY TapeParts
<1>3. PICK f \in [0..N -> Seq(Nat)] :
        /\ f[0] = <<>> /\ HoldsEach(tape, 0, Images(files), f)
        /\ Len(tape) = Len(f[N]) + 1 /\ tape[Len(f[N]) + 1] = TapeMark
  BY TapeParts
<1> HIDE DEF N, tape, R
<1> DEFINE p(k) == Len(f[k])
           d(k) == files[k].data
           pad(k) == Padded(files[k].data, files[k].size)
           ahead(k) == IF EndsFile(tape, p(k) + 1) THEN <<>> ELSE R[p(k) + 1]
<1>4. \A k \in 0..N : p(k) \in Nat
  BY <1>3
<1>5. ASSUME NEW k \in 1..N
      PROVE  /\ p(k) \in 1..Len(tape) /\ tape[p(k)] = TapeMark /\ p(k - 1) + 1 <= p(k)
             /\ R[p(k - 1) + 1] = <<pad(k)>> \o Tail(R[p(k)])
             /\ EndsFile(tape, p(k - 1) + 1) <=> d(k) = <<>>
  <2> DEFINE q == p(k - 1)
             image == TapeFile(files[k].data, files[k].size)
  <2>1. k - 1 \in 0..N
    BY <1>1
  <2>2. q \in Nat
    BY <1>4, <2>1
  <2>3. Images(files)[k] = image
    BY DEF Images, N
  <2>4. Holds(tape, 0 + q, image) /\ p(k) = q + Len(image)
    BY <1>1, <1>3, <2>3 DEF HoldsEach
  <2>5. Holds(tape, q, image)
    BY <2>2, <2>4
  <2> HIDE DEF q, p
  <2>6. ReadsUpTo(tape, q, files[k].data, files[k].size, p(k))
    BY <1>1, <1>2, <2>2, <2>4, <2>5, ReadsFile
  <2> QED BY <2>6 DEF ReadsUpTo, R, q
<1>6. ahead(N) = <<>>
  BY <1>3 DEF EndsFile
<1>7. ASSUME NEW k \in 1..N PROVE Tail(R[p(k)]) = ahead(k)
  <2>1. /\ p(k) \in 1..Len(tape)
        /\ Tail(R[p(k)]) = IF p(k) < Len(tape) /\ ~EndsFile(tape, p(k) + 1)
                             THEN R[p(k) + 1] ELSE <<>>
    BY <1>2, <1>5, ReadsMark DEF R
  <2>2. p(k) < Len(tape)
    <3>1. CASE k = N
      BY <1>3, <1>4, <2>1, <3>1
    <3>2. CASE k # N
      <4> DEFINE m == k + 1
      <4>1. m \in 1..N /\ m - 1 = k
        BY <1>1, <3>2
      <4> HIDE DEF m
      <4>2. p(m) \in 1..Len(tape) /\ p(k) + 1 <= p(m)
        BY <1>5, <4>1
      <4>3. Len(tape) \in Nat
        BY <1>2
      <4> QED BY <2>1, <4>2, <4>3
    <3> QED BY <3>1, <3>2
  <2> QED BY <2>1, <2>2
<1> HIDE DEF p
<1>8. ASSUME NEW k \in 1..N
      PROVE  ahead(k - 1) = IF d(k) = <<>> THEN <<>> ELSE <<pad(k)>> \o ahead(k)
  BY <1>5, <1>7
<1> HIDE DEF ahead
<1> DEFINE S == {k \in 0..N : FilesAfter(files, k, ahead(k))}
<1>9. N \in S
  <2>1. <<>> \in Seq(Seq(Nat)) /\ Len(<<>>) = 0
    OBVIOUS
  <2>2. FilesAfter(files, N, <<>>)
    BY <1>1, <2>1 DEF FilesAfter, N
  <2> QED BY <1>1, <1>6, <2>2
<1>10. ASSUME NEW k \in 1..N, k \in S PROVE k - 1 \in S
  <2>1. FilesAfter(files, k, ahead(k)) /\ k - 1 \in 0..N
    BY <1>1, <1>10
  <2>2. CASE d(k) = <<>>
    <3>1. <<>> \in Seq(Seq(Nat)) /\ Len(<<>>) = 0
      OBVIOUS
    <3>2. k - 1 + 0 = k - 1 /\ k - 1 + 0 + 1 = k /\ k - 1 + 0 <= N
      BY <1>1
    <3>3. FilesAfter(files, k - 1, <<>>)
      BY <2>2, <3>1, <3>2 DEF FilesAfter, N
    <3> QED BY <1>8, <2>1, <2>2, <3>3
  <2>3. CASE d(k) # <<>>
    <3>1. FilesAfter(files, k - 1, <<pad(k)>> \o ahead(k))
      BY <2>1, FileBefore DEF N
    <3> QED BY <1>8, <2>1, <2>3, <3>1
  <2> QED BY <2>2, <2>3
<1>11. 0 \in S
  <2>1. 0 \in 0..N
    BY <1>1
  <2> HIDE DEF S
  <2> QED BY <1>1, <1>9, <1>10, <2>1, DownwardInduction
<1>12. ahead(0) = ReadTape(tape)
  BY <1>3 DEF ahead, p, R, ReadTape
<1> QED BY <1>11, <1>12 DEF tape

------------------------------------------------------------------------------
(* The media. *)

FilesOf(d) == [k \in DOMAIN TapeFiles |-> [data |-> d[TapeFiles[k].name], size |-> TapeFiles[k].size]]

\* A tape and a disk made from one choice of contents that the sources have had.
Whole(out, had) ==
  \E d \in [Inputs -> Contents] :
    /\ \A x \in Inputs : d[x] \in had[x]
    /\ out.tape = WriteTape(FilesOf(d)) /\ out.miniroot = d[Miniroot]

\* What a command has read its sources have held, what it has hashed it has read, and
\* what it is about to publish is whole.
Honest(r, had) ==
  /\ \A x \in Sources : r.data[x] # None => r.data[x] \in had[x]
  /\ \A x \in Sources : r.hash[x] # None => r.data[x] # None
  /\ r.pc \in {"boot", "publish"} => Whole(r.out, had)

\* The inductive invariant.
MediaInv ==
  /\ TypeOK
  /\ \A x \in Sources : source[x] # None => source[x] \in held[x]
  /\ \A b \in Builders : Honest(build[b], held)
  /\ dest.by # None => Whole(dest.out, held)

Builds ==
  [pc : {"idle", "read", "boot", "publish", "over"}, boot : Boots \cup {None},
   data : [Sources -> Maybe], hash : [Sources -> Maybe], out : Outputs]

LEMMA TapeNames ==
  /\ Len(TapeFiles) \in Nat /\ DOMAIN TapeFiles = 1..Len(TapeFiles)
  /\ \A k \in DOMAIN TapeFiles : TapeFiles[k].name \in Inputs /\ TapeFiles[k].size \in Nat \ {0}
<1> DEFINE X == [name : Inputs, size : Nat \ {0}]
<1>1. TapeFiles \in Seq(X)
  BY TapeAssumption
<1>2. \A k \in DOMAIN TapeFiles : TapeFiles[k] \in X
  <2> HIDE DEF X
  <2> QED BY <1>1
<1>3. Len(TapeFiles) \in Nat /\ DOMAIN TapeFiles = 1..Len(TapeFiles)
  <2> HIDE DEF X
  <2> QED BY <1>1
<1>4. ASSUME NEW k \in DOMAIN TapeFiles
      PROVE  TapeFiles[k].name \in Inputs /\ TapeFiles[k].size \in Nat \ {0}
  <2> HIDE DEF Inputs
  <2> QED BY <1>2
<1> QED BY <1>3, <1>4

LEMMA FilesTypes ==
  ASSUME NEW d, \A x \in Inputs : d[x] \in Contents
  PROVE  /\ FilesOf(d) \in Files /\ Len(FilesOf(d)) = Len(TapeFiles)
         /\ \A k \in DOMAIN TapeFiles : /\ FilesOf(d)[k].data = d[TapeFiles[k].name]
                                        /\ FilesOf(d)[k].size = TapeFiles[k].size
<1> DEFINE X == [data : Seq(Nat), size : Nat \ {0}]
           N == Len(TapeFiles)
           F == FilesOf(d)
<1>1. N \in Nat /\ DOMAIN TapeFiles = 1..N
  BY TapeNames
<1> HIDE DEF N
<1>2. ASSUME NEW k \in 1..N
      PROVE  /\ F[k] = [data |-> d[TapeFiles[k].name], size |-> TapeFiles[k].size]
             /\ F[k].data = d[TapeFiles[k].name] /\ F[k].size = TapeFiles[k].size
             /\ F[k] \in X
  <2>1. F[k] = [data |-> d[TapeFiles[k].name], size |-> TapeFiles[k].size]
    BY <1>1 DEF FilesOf
  <2>2. d[TapeFiles[k].name] \in Seq(Nat) /\ TapeFiles[k].size \in Nat \ {0}
    BY <1>1, TapeNames, ContentsAssumption
  <2> QED BY <2>1, <2>2
<1>3. F = [k \in 1..N |-> F[k]]
  BY <1>1 DEF FilesOf
<1>4. F \in Seq(X) /\ Len(F) = N
  <2> HIDE DEF F, X
  <2> QED BY <1>1, <1>2, <1>3
<1> QED BY <1>1, <1>2, <1>4 DEF Files, N

LEMMA WholeLater ==
  ASSUME NEW out, NEW had, NEW later, \A x \in Sources : had[x] \subseteq later[x], Whole(out, had)
  PROVE  Whole(out, later)
BY DEF Whole, Sources

LEMMA HonestLater ==
  ASSUME NEW r, NEW had, NEW later, \A x \in Sources : had[x] \subseteq later[x], Honest(r, had)
  PROVE  Honest(r, later)
<1>1. \A x \in Sources : r.data[x] # None => r.data[x] \in later[x]
  BY DEF Honest
<1>2. r.pc \in {"boot", "publish"} => Whole(r.out, later)
  BY WholeLater DEF Honest
<1> QED BY <1>1, <1>2 DEF Honest

LEMMA IdleHonest ==
  ASSUME NEW had, NEW r, \/ r = Idle
                         \/ r = [Idle EXCEPT !.pc = "over"]
  PROVE  r \in Builds /\ Honest(r, had)
<1>1. <<>> \in Seq(Nat)
  OBVIOUS
<1>2. NoHashes \in [Sources -> Maybe] /\ \A x \in Sources : NoHashes[x] = None
  BY DEF NoHashes, Maybe
<1>3. NoOutput \in Outputs
  BY <1>1 DEF NoOutput, Outputs, Maybe
<1>4. r \in Builds /\ r.pc \in {"idle", "over"} /\ r.data = NoHashes /\ r.hash = NoHashes
  BY <1>2, <1>3 DEF Idle, Builds
<1> QED BY <1>2, <1>4 DEF Honest

LEMMA MediaInit == Init => MediaInv
<1> SUFFICES ASSUME Init PROVE MediaInv
  OBVIOUS
<1>1. Idle \in Builds /\ Honest(Idle, held)
  BY IdleHonest
<1>2. dest \in [by : Builders \cup {None}, out : Outputs, inputs : [Sources -> Maybe]]
  <2>1. <<>> \in Seq(Nat)
    OBVIOUS
  <2>2. NoOutput \in Outputs /\ NoHashes \in [Sources -> Maybe]
    BY <2>1 DEF NoOutput, NoHashes, Outputs, Maybe
  <2> QED BY <2>2 DEF Init, NoDestination
<1>3. held \in [Sources -> SUBSET Contents] /\ \A x \in Sources : held[x] = {source[x]} \ {None}
  BY DEF Init, Maybe
<1>4. build \in [Builders -> Builds] /\ \A b \in Builders : build[b] = Idle
  BY <1>1 DEF Init
<1>5. TypeOK
  BY <1>2, <1>3, <1>4, MaxChangesAssumption DEF Init, TypeOK, Builds
<1>6. \A x \in Sources : source[x] # None => source[x] \in held[x]
  BY <1>3
<1>7. dest.by = None
  BY DEF Init, NoDestination
<1> QED BY <1>1, <1>4, <1>5, <1>6, <1>7 DEF MediaInv

\* A command goes on, and the destination and the sources stay as they are.
LEMMA OneBuilds ==
  ASSUME MediaInv, NEW b \in Builders, NEW r \in Builds, Honest(r, held),
         build' = [build EXCEPT ![b] = r], UNCHANGED <<changes, source, held, dest>>
  PROVE  MediaInv'
<1>1. build \in [Builders -> Builds]
  BY DEF MediaInv, TypeOK, Builds
<1>2. /\ build' \in [Builders -> Builds]
      /\ \A c \in Builders : build'[c] = IF c = b THEN r ELSE build[c]
  BY <1>1
<1>3. \A c \in Builders : Honest(build'[c], held')
  BY <1>2 DEF MediaInv
<1>4. TypeOK'
  BY <1>2 DEF MediaInv, TypeOK, Builds
<1>5. (dest.by # None => Whole(dest.out, held))'
  BY DEF MediaInv
<1>6. \A x \in Sources : source'[x] # None => source'[x] \in held'[x]
  BY DEF MediaInv
<1> QED BY <1>3, <1>4, <1>5, <1>6 DEF MediaInv

LEMMA BeginStep ==
  ASSUME MediaInv, NEW b \in Builders, BuildBegin(b)
  PROVE  MediaInv'
<1> DEFINE boots == {x \in Boots : source[x] # None}
           boot == IF boots = {} THEN None ELSE CHOOSE x \in boots : TRUE
           r == [build[b] EXCEPT !.pc = "read", !.boot = boot]
<1>1. build[b] \in Builds /\ Honest(build[b], held) /\ build \in [Builders -> Builds]
  BY DEF MediaInv, TypeOK, Builds
<1>2. boot \in Boots \cup {None}
  OBVIOUS
<1>3. build' = [build EXCEPT ![b] = r] /\ UNCHANGED <<changes, source, held, dest>>
  BY DEF BuildBegin
<1> HIDE DEF boot
<1>4. r \in Builds /\ r.data = build[b].data /\ r.hash = build[b].hash /\ r.pc = "read"
  BY <1>1, <1>2 DEF Builds
<1> HIDE DEF r
<1>5. Honest(r, held)
  BY <1>1, <1>4 DEF Honest
<1> QED BY <1>3, <1>4, <1>5, OneBuilds

LEMMA ReadStep ==
  ASSUME MediaInv, NEW b \in Builders, NEW x \in Sources, BuildRead(b, x)
  PROVE  MediaInv'
<1> DEFINE r == [build[b] EXCEPT !.data = [build[b].data EXCEPT ![x] = source[x]]]
<1>1. /\ build[b] \in Builds /\ Honest(build[b], held) /\ build \in [Builders -> Builds]
      /\ source[x] \in Maybe /\ source[x] \in held[x]
  BY DEF MediaInv, TypeOK, Builds, BuildRead
<1>2. build' = [build EXCEPT ![b] = r] /\ UNCHANGED <<changes, source, held, dest>>
  BY DEF BuildRead
<1>3. /\ r \in Builds /\ r.pc = build[b].pc /\ r.out = build[b].out /\ r.hash = build[b].hash
      /\ \A y \in Sources : r.data[y] = IF y = x THEN source[x] ELSE build[b].data[y]
  BY <1>1 DEF Builds
<1> HIDE DEF r
<1>4. \A y \in Sources : r.data[y] # None => r.data[y] \in held[y]
  BY <1>1, <1>3 DEF Honest
<1>5. \A y \in Sources : r.hash[y] # None => r.data[y] # None
  BY <1>1, <1>3 DEF Honest, BuildRead
<1>6. Honest(r, held)
  BY <1>1, <1>3, <1>4, <1>5 DEF Honest
<1> QED BY <1>2, <1>3, <1>6, OneBuilds

LEMMA HashStep ==
  ASSUME MediaInv, NEW b \in Builders, NEW x \in Sources, BuildHash(b, x)
  PROVE  MediaInv'
<1> DEFINE r == [build[b] EXCEPT !.hash = [build[b].hash EXCEPT ![x] = source[x]]]
<1>1. /\ build[b] \in Builds /\ Honest(build[b], held) /\ build \in [Builders -> Builds]
      /\ source[x] \in Maybe /\ build[b].data[x] # None
  BY DEF MediaInv, TypeOK, Builds, BuildHash
<1>2. build' = [build EXCEPT ![b] = r] /\ UNCHANGED <<changes, source, held, dest>>
  BY DEF BuildHash
<1>3. /\ r \in Builds /\ r.pc = build[b].pc /\ r.out = build[b].out /\ r.data = build[b].data
      /\ \A y \in Sources : r.hash[y] = IF y = x THEN source[x] ELSE build[b].hash[y]
  BY <1>1 DEF Builds
<1> HIDE DEF r
<1>4. \A y \in Sources : r.hash[y] # None => r.data[y] # None
  BY <1>1, <1>3 DEF Honest
<1>5. Honest(r, held)
  BY <1>1, <1>3, <1>4 DEF Honest
<1> QED BY <1>2, <1>3, <1>5, OneBuilds

\* The three assignments of BuildWrite are one record for b.
WriteIsOne(b, miniroot, tape) ==
  [build EXCEPT ![b].pc = "boot", ![b].out.miniroot = miniroot, ![b].out.tape = tape]
    = [build EXCEPT ![b] = [build[b] EXCEPT !.pc = "boot",
         !.out = [build[b].out EXCEPT !.miniroot = miniroot, !.tape = tape]]]

LEMMA WritesBoth ==
  ASSUME build \in [Builders -> Builds], NEW b \in Builders, NEW miniroot, NEW tape
  PROVE  WriteIsOne(b, miniroot, tape)
<1> DEFINE r == [build[b] EXCEPT !.pc = "boot", !.out.miniroot = miniroot, !.out.tape = tape]
<1>1. build[b] \in Builds
  OBVIOUS
<1>2. [build EXCEPT ![b].pc = "boot", ![b].out.miniroot = miniroot, ![b].out.tape = tape]
        = [build EXCEPT ![b] = r]
  OBVIOUS
<1>3. r = [build[b] EXCEPT !.pc = "boot",
             !.out = [build[b].out EXCEPT !.miniroot = miniroot, !.tape = tape]]
  BY <1>1 DEF Builds, Outputs
<1> QED BY <1>2, <1>3 DEF WriteIsOne

LEMMA WriteStep ==
  ASSUME MediaInv, NEW b \in Builders, BuildWrite(b)
  PROVE  MediaInv'
<1> DEFINE data == build[b].data
           tape == WriteTape(FilesOf(data))
           out == [build[b].out EXCEPT !.miniroot = data[Miniroot], !.tape = tape]
           r == [build[b] EXCEPT !.pc = "boot", !.out = out]
           d == [x \in Inputs |-> data[x]]
<1>1. /\ build[b] \in Builds /\ Honest(build[b], held) /\ build \in [Builders -> Builds]
      /\ held \in [Sources -> SUBSET Contents]
  BY DEF MediaInv, TypeOK, Builds
<1>2. \A x \in Inputs : x \in Sources /\ data[x] \in held[x] /\ data[x] \in Contents
  <2>1. \A x \in Inputs : x \in Sources /\ data[x] # None
    BY <1>1 DEF BuildWrite, Honest, Sources
  <2> QED BY <1>1, <2>1 DEF Honest
<1>3. FilesOf(data) = FilesOf(d)
  BY TapeNames DEF FilesOf
<1>4. tape \in Seq(Nat)
  BY <1>2, FilesTypes, TapeParts
<1>5. build' = [build EXCEPT ![b] = r] /\ UNCHANGED <<changes, source, held, dest>>
  <2>1. /\ build' = [build EXCEPT ![b].pc = "boot", ![b].out.miniroot = data[Miniroot],
                                  ![b].out.tape = tape]
        /\ UNCHANGED <<changes, source, held, dest>>
    BY DEF BuildWrite, MinirootData, FilesOf
  <2> DEFINE m == data[Miniroot]
  <2> HIDE DEF tape, m
  <2>2. build \in [Builders -> Builds]
    BY <1>1
  <2>3. WriteIsOne(b, m, tape)
    BY <2>2, WritesBoth
  <2> QED BY <2>1, <2>3, Zenon DEF m, WriteIsOne
<1>6. d \in [Inputs -> Contents] /\ (\A x \in Inputs : d[x] \in held[x]) /\ d[Miniroot] = data[Miniroot]
  BY <1>2, MinirootAssumption
<1>7. data[Miniroot] \in Maybe
  BY <1>2, MinirootAssumption DEF Maybe
<1>8. tape = WriteTape(FilesOf(d))
  BY <1>3
<1> HIDE DEF tape, d
<1>9. out \in Outputs /\ out.tape = tape /\ out.miniroot = data[Miniroot]
  BY <1>1, <1>4, <1>7 DEF Builds, Outputs
<1>10. Whole(out, held)
  BY <1>6, <1>8, <1>9 DEF Whole
<1> HIDE DEF out
<1>11. r \in Builds /\ r.data = data /\ r.hash = build[b].hash /\ r.out = out
  BY <1>1, <1>9 DEF Builds
<1> HIDE DEF r
<1>12. Honest(r, held)
  BY <1>1, <1>10, <1>11 DEF Honest
<1> QED BY <1>5, <1>11, <1>12, OneBuilds

LEMMA BootStep ==
  ASSUME MediaInv, NEW b \in Builders, BuildBoot(b)
  PROVE  MediaInv'
<1> DEFINE boot == IF build[b].boot = None THEN None ELSE build[b].data[build[b].boot]
           out == [build[b].out EXCEPT !.boot = boot]
           r == [build[b] EXCEPT !.pc = "publish", !.out = out]
<1>1. build[b] \in Builds /\ Honest(build[b], held) /\ build \in [Builders -> Builds]
  BY DEF MediaInv, TypeOK, Builds
<1>2. boot \in Maybe
  BY <1>1 DEF Builds, Maybe, Sources
<1>3. build' = [build EXCEPT ![b] = r] /\ UNCHANGED <<changes, source, held, dest>>
  BY <1>1 DEF BuildBoot, Builds, Outputs
<1> HIDE DEF boot
<1>4. out \in Outputs /\ out.tape = build[b].out.tape /\ out.miniroot = build[b].out.miniroot
  BY <1>1, <1>2 DEF Builds, Outputs
<1>5. Whole(build[b].out, held)
  BY <1>1 DEF BuildBoot, Honest
<1>6. Whole(out, held)
  BY <1>4, <1>5 DEF Whole
<1> HIDE DEF out
<1>7. r \in Builds /\ r.data = build[b].data /\ r.hash = build[b].hash /\ r.out = out
  BY <1>1, <1>4 DEF Builds
<1> HIDE DEF r
<1>8. Honest(r, held)
  BY <1>1, <1>6, <1>7 DEF Honest
<1> QED BY <1>3, <1>7, <1>8, OneBuilds

LEMMA PublishStep ==
  ASSUME MediaInv, NEW b \in Builders, BuildPublish(b)
  PROVE  MediaInv'
<1> DEFINE r == [Idle EXCEPT !.pc = "over"]
<1>1. build[b] \in Builds /\ Honest(build[b], held) /\ build \in [Builders -> Builds]
  BY DEF MediaInv, TypeOK, Builds
<1>2. /\ build' = [build EXCEPT ![b] = r] /\ UNCHANGED <<changes, source, held>>
      /\ dest' = [by |-> b, out |-> build[b].out, inputs |-> build[b].hash]
  BY DEF BuildPublish
<1>3. r \in Builds /\ Honest(r, held)
  BY IdleHonest
<1> HIDE DEF r
<1>4. /\ build' \in [Builders -> Builds]
      /\ \A c \in Builders : build'[c] = IF c = b THEN r ELSE build[c]
  BY <1>1, <1>2, <1>3
<1>5. \A c \in Builders : Honest(build'[c], held')
  BY <1>2, <1>3, <1>4 DEF MediaInv
<1>6. dest' \in [by : Builders \cup {None}, out : Outputs, inputs : [Sources -> Maybe]]
  BY <1>1, <1>2 DEF Builds
<1>7. TypeOK'
  BY <1>2, <1>4, <1>6 DEF MediaInv, TypeOK, Builds
<1>8. (dest.by # None => Whole(dest.out, held))'
  <2>1. Whole(build[b].out, held)
    BY <1>1 DEF BuildPublish, Honest
  <2> QED BY <1>2, <2>1
<1>9. \A x \in Sources : source'[x] # None => source'[x] \in held'[x]
  BY <1>2 DEF MediaInv
<1> QED BY <1>5, <1>7, <1>8, <1>9 DEF MediaInv

LEMMA ChangeStep ==
  ASSUME MediaInv, NEW x \in Sources, NEW content \in Maybe, ChangeSource(x, content)
  PROVE  MediaInv'
<1>1. /\ changes \in 0..MaxChanges /\ source \in [Sources -> Maybe]
      /\ held \in [Sources -> SUBSET Contents]
      /\ \A y \in Sources : source[y] # None => source[y] \in held[y]
  BY DEF MediaInv, TypeOK
<1>2. /\ changes' \in 0..MaxChanges /\ source' \in [Sources -> Maybe]
      /\ \A y \in Sources : source'[y] = IF y = x THEN content ELSE source[y]
  BY <1>1, MaxChangesAssumption DEF ChangeSource
<1>3. held' \in [Sources -> SUBSET Contents]
  BY <1>1 DEF ChangeSource, Maybe
<1>4. \A y \in Sources : held'[y] = IF y = x THEN held[x] \cup ({content} \ {None}) ELSE held[y]
  BY <1>1 DEF ChangeSource
<1>5. UNCHANGED <<dest, build>>
  BY DEF ChangeSource
<1>6. TypeOK'
  BY <1>2, <1>3, <1>5 DEF MediaInv, TypeOK
<1>7. \A y \in Sources : held[y] \subseteq held'[y]
  BY <1>4
<1>8. \A y \in Sources : source'[y] # None => source'[y] \in held'[y]
  BY <1>1, <1>2, <1>4
<1>9. \A b \in Builders : Honest(build'[b], held')
  BY <1>5, <1>7, HonestLater DEF MediaInv
<1>10. (dest.by # None => Whole(dest.out, held))'
  BY <1>5, <1>7, WholeLater DEF MediaInv
<1> QED BY <1>6, <1>8, <1>9, <1>10 DEF MediaInv

LEMMA MediaStep == MediaInv /\ [Next]_vars => MediaInv'
<1> SUFFICES ASSUME MediaInv, [Next]_vars PROVE MediaInv'
  OBVIOUS
<1>1. ASSUME NEW b \in Builders, BuildBegin(b) PROVE MediaInv'
  BY <1>1, BeginStep
<1>2. ASSUME NEW b \in Builders, BuildWrite(b) PROVE MediaInv'
  BY <1>2, WriteStep
<1>3. ASSUME NEW b \in Builders, BuildBoot(b) PROVE MediaInv'
  BY <1>3, BootStep
<1>4. ASSUME NEW b \in Builders, BuildPublish(b) PROVE MediaInv'
  BY <1>4, PublishStep
<1>5. ASSUME NEW b \in Builders, BuildEnds(b) PROVE MediaInv'
  <2> DEFINE r == [Idle EXCEPT !.pc = "over"]
  <2>1. r \in Builds /\ Honest(r, held)
    BY IdleHonest
  <2>2. build' = [build EXCEPT ![b] = r] /\ UNCHANGED <<changes, source, held, dest>>
    BY <1>5 DEF BuildEnds
  <2> HIDE DEF r
  <2> QED BY <2>1, <2>2, OneBuilds
<1>6. ASSUME NEW b \in Builders, NEW x \in Sources, BuildRead(b, x) PROVE MediaInv'
  BY <1>6, ReadStep
<1>7. ASSUME NEW b \in Builders, NEW x \in Sources, BuildHash(b, x) PROVE MediaInv'
  BY <1>7, HashStep
<1>8. ASSUME NEW x \in Sources, NEW content \in Maybe, ChangeSource(x, content) PROVE MediaInv'
  BY <1>8, ChangeStep
<1>9. CASE UNCHANGED vars
  BY <1>9 DEF vars, MediaInv, TypeOK
<1> QED BY <1>1, <1>2, <1>3, <1>4, <1>5, <1>6, <1>7, <1>8, <1>9 DEF Next, BuildStep

LEMMA MediaInvariant == Spec => []MediaInv
BY MediaInit, MediaStep, PTL DEF Spec

\* Every state is well typed: the tape of a command that writes one is a sequence of
\* naturals, because it has read every tape file by then.
THEOREM MediaTypeCorrect == Spec => []TypeOK
<1>1. MediaInv => TypeOK
  BY DEF MediaInv
<1> QED BY <1>1, MediaInvariant, PTL

\* What the tape of a whole output reads as.
LEMMA WholeReads ==
  ASSUME NEW out, NEW d, out.tape = WriteTape(FilesOf(d)), \A x \in Inputs : d[x] \in Contents
  PROVE  LET files == ReadTape(out.tape)
         IN /\ DOMAIN files = 1..Len(files) /\ Len(files) \in Nat /\ Len(files) <= Len(TapeFiles)
            /\ \A k \in DOMAIN files : /\ k \in DOMAIN TapeFiles
                                       /\ files[k] = Padded(d[TapeFiles[k].name], TapeFiles[k].size)
            /\ Len(files) < Len(TapeFiles) =>
                 /\ Len(files) + 1 \in DOMAIN TapeFiles
                 /\ d[TapeFiles[Len(files) + 1].name] = <<>>
<1> DEFINE files == ReadTape(out.tape)
           F == FilesOf(d)
<1>1. /\ F \in Files /\ Len(F) = Len(TapeFiles)
      /\ \A k \in DOMAIN TapeFiles : /\ F[k].data = d[TapeFiles[k].name]
                                     /\ F[k].size = TapeFiles[k].size
  BY FilesTypes
<1>2. FilesAfter(F, 0, files)
  BY <1>1, WrittenTapeReadsBack
<1> HIDE DEF F, files
<1>3. Len(TapeFiles) \in Nat /\ DOMAIN TapeFiles = 1..Len(TapeFiles)
  BY TapeNames
<1>4. files \in Seq(Seq(Nat)) /\ 0 + Len(files) <= Len(TapeFiles)
  BY <1>1, <1>2 DEF FilesAfter
<1>5. Len(files) \in Nat /\ DOMAIN files = 1..Len(files) /\ Len(files) <= Len(TapeFiles)
  BY <1>4
<1>6. ASSUME NEW k \in 1..Len(files)
      PROVE  k \in DOMAIN TapeFiles /\ files[k] = Padded(d[TapeFiles[k].name], TapeFiles[k].size)
  <2>1. k \in DOMAIN TapeFiles /\ 0 + k = k
    BY <1>3, <1>5
  <2>2. files[k] = Padded(F[0 + k].data, F[0 + k].size)
    BY <1>2 DEF FilesAfter
  <2> QED BY <1>1, <2>1, <2>2
<1>7. ASSUME Len(files) < Len(TapeFiles)
      PROVE  Len(files) + 1 \in DOMAIN TapeFiles /\ d[TapeFiles[Len(files) + 1].name] = <<>>
  <2> DEFINE n == Len(files)
  <2>1. n + 1 \in DOMAIN TapeFiles /\ 0 + n = n
    BY <1>3, <1>5, <1>7
  <2>2. 0 + n < Len(F) => F[0 + n + 1].data = <<>>
    BY <1>2 DEF FilesAfter
  <2> QED BY <1>1, <1>7, <2>1, <2>2
<1> QED BY <1>5, <1>6, <1>7 DEF files

\* prepare_43bsd publishes a tape that reads back, through the drive's framing, as
\* contents that its sources had, up to the first empty one, whatever the block sizes,
\* the contents, and the commands and operators that interfere.
THEOREM PublishedTapeReadsBack == Spec => []TapeReadsBack
<1>1. MediaInv => TapeReadsBack
  <2> SUFFICES ASSUME MediaInv, dest.by # None
               PROVE  LET files == ReadTape(dest.out.tape)
                      IN /\ \A k \in DOMAIN files : \E content \in held[TapeFiles[k].name] :
                              files[k] = Padded(content, TapeFiles[k].size)
                         /\ Len(files) < Len(TapeFiles) =>
                              <<>> \in held[TapeFiles[Len(files) + 1].name]
    BY DEF TapeReadsBack
  <2> DEFINE out == dest.out
             files == ReadTape(out.tape)
  <2>1. PICK d \in [Inputs -> Contents] :
          (\A x \in Inputs : d[x] \in held[x]) /\ out.tape = WriteTape(FilesOf(d))
    BY DEF MediaInv, Whole
  <2> HIDE DEF out
  <2>2. /\ \A k \in DOMAIN files : /\ k \in DOMAIN TapeFiles
                                   /\ files[k] = Padded(d[TapeFiles[k].name], TapeFiles[k].size)
        /\ Len(files) < Len(TapeFiles) =>
             /\ Len(files) + 1 \in DOMAIN TapeFiles
             /\ d[TapeFiles[Len(files) + 1].name] = <<>>
    BY <2>1, WholeReads
  <2> HIDE DEF files
  <2>3. \A k \in DOMAIN TapeFiles : d[TapeFiles[k].name] \in held[TapeFiles[k].name]
    BY <2>1, TapeNames
  <2>4. \A k \in DOMAIN files : \E content \in held[TapeFiles[k].name] :
          files[k] = Padded(content, TapeFiles[k].size)
    BY <2>2, <2>3
  <2>5. Len(files) < Len(TapeFiles) => <<>> \in held[TapeFiles[Len(files) + 1].name]
    BY <2>2, <2>3
  <2> QED BY <2>4, <2>5 DEF files, out
<1> QED BY <1>1, MediaInvariant, PTL

\* The disk and the tape of prepare_43bsd are made from one reading of the miniroot, so
\* they agree although the source may be replaced meanwhile.
THEOREM DiskMatchesTape == Spec => []MinirootIsOnTape
<1>1. MediaInv => MinirootIsOnTape
  <2> SUFFICES ASSUME MediaInv, dest.by # None,
                      NEW k \in DOMAIN ReadTape(dest.out.tape), TapeFiles[k].name = Miniroot
               PROVE  ReadTape(dest.out.tape)[k] = Padded(dest.out.miniroot, TapeFiles[k].size)
    BY DEF MinirootIsOnTape
  <2> DEFINE out == dest.out
             files == ReadTape(out.tape)
  <2>1. PICK d \in [Inputs -> Contents] :
          out.tape = WriteTape(FilesOf(d)) /\ out.miniroot = d[Miniroot]
    BY DEF MediaInv, Whole
  <2> HIDE DEF out
  <2>2. \A j \in DOMAIN files : files[j] = Padded(d[TapeFiles[j].name], TapeFiles[j].size)
    BY <2>1, WholeReads
  <2> HIDE DEF files
  <2>3. k \in DOMAIN files
    BY DEF files, out
  <2>4. files[k] = Padded(out.miniroot, TapeFiles[k].size)
    BY <2>1, <2>2, <2>3
  <2> QED BY <2>4 DEF files, out
<1> QED BY <1>1, MediaInvariant, PTL

\* Once a command has renamed its transaction to the destination, no step changes it:
\* os.replace is reached only while nothing is there, and no failure touches it.
THEOREM DestinationIsFinal == Spec => MediaPublishedOnce
<1>1. [Next]_vars => [dest.by # None => dest' = dest]_dest
  <2> SUFFICES ASSUME [Next]_vars, dest.by # None PROVE dest' = dest
    OBVIOUS
  <2>1. ASSUME NEW b \in Builders, BuildStep(b) PROVE dest' = dest
    BY <2>1 DEF BuildStep, BuildBegin, BuildRead, BuildHash, BuildWrite, BuildBoot,
                BuildPublish, BuildEnds, Vacant
  <2>2. ASSUME NEW x \in Sources, NEW content \in Maybe, ChangeSource(x, content)
        PROVE  dest' = dest
    BY <2>2 DEF ChangeSource
  <2>3. CASE UNCHANGED vars
    BY <2>3 DEF vars
  <2> QED BY <2>1, <2>2, <2>3 DEF Next
<1> QED BY <1>1, PTL DEF Spec, MediaPublishedOnce
=============================================================================
