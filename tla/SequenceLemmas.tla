--------------------------- MODULE SequenceLemmas ---------------------------
(***************************************************************************)
(* Lemmas about numbers, recursive definitions and sequences that the      *)
(* proofs of several components need.                                      *)
(*                                                                         *)
(* Induction is stated about a set of numbers rather than a predicate, and *)
(* recursion about a step that is a function, so that both can be used     *)
(* without a parameter that is an operator.                                *)
(***************************************************************************)
EXTENDS Integers, SequencesExt, FiniteSetTheorems, SequenceTheorems, TLAPS

\* A set that holds zero and with each number the next one holds them all.
LEMMA SetInduction ==
    ASSUME NEW T, 0 \in T, \A n \in Nat : n \in T => n + 1 \in T
    PROVE  Nat \subseteq T
<1> SUFFICES ASSUME NEW k \in Nat, k \notin T PROVE FALSE
  OBVIOUS
<1> DEFINE B == {n \in 0 .. k : n \in T}
           C == B \ {0}
           f == [n \in B |-> n + 1]
<1>1. IsFiniteSet(0 .. k)
  BY FS_Interval
<1>2. 0 \in B /\ B \in SUBSET (0 .. k)
  OBVIOUS
<1>3. f \in [B -> C] /\ \A m, n \in B : f[m] = f[n] => m = n
  OBVIOUS
<1> HIDE DEF B, f
<1>4. IsFiniteSet(B)
  BY <1>1, <1>2, FS_Subset
<1>5. IsFiniteSet(C) /\ Cardinality(C) = Cardinality(B) - 1
  BY <1>2, <1>4, FS_RemoveElement
<1> HIDE DEF C
<1>6. Cardinality(B) \in Nat /\ Cardinality(C) \in Nat
  BY <1>4, <1>5, FS_CardinalityType
<1>7. \E m, n \in B : m # n /\ f[m] = f[n]
  BY <1>3, <1>4, <1>5, <1>6, FS_PigeonHole
<1> QED
  BY <1>3, <1>7

\* g is defined by recursion on the numbers.
Recurs(g, base, step) ==
    g[0] = base /\ \A n \in Nat : g[n + 1] = step[n][g[n]]

\* Recursion on the numbers defines a function.
LEMMA NatRecursion ==
    ASSUME NEW S, NEW base \in S, NEW step \in [Nat -> [S -> S]]
    PROVE  \E g \in [Nat -> S] : Recurs(g, base, step)
<1> DEFINE Good(k, g) == /\ g \in [0 .. k -> S]
                         /\ g[0] = base
                         /\ \A n \in 0 .. k - 1 : g[n + 1] = step[n][g[n]]
           T == {k \in Nat : \E g : Good(k, g)}
<1>1. 0 \in T
  <2>1. Good(0, [n \in 0 .. 0 |-> base])
    OBVIOUS
  <2> QED  BY <2>1
<1>2. ASSUME NEW k \in Nat, k \in T PROVE k + 1 \in T
  <2> PICK g : Good(k, g)
    BY <1>2
  <2> DEFINE h == [n \in 0 .. k + 1 |-> IF n = k + 1 THEN step[k][g[k]]
                                                     ELSE g[n]]
  <2>1. step[k][g[k]] \in S
    OBVIOUS
  <2>2. h \in [0 .. k + 1 -> S] /\ h[0] = base
    BY <2>1
  <2>3. ASSUME NEW n \in 0 .. k PROVE h[n + 1] = step[n][h[n]]
    <3>1. n \in 0 .. k + 1 /\ n + 1 \in 0 .. k + 1 /\ n # k + 1
      OBVIOUS
    <3>2. h[n] = g[n]
      BY <3>1
    <3>3. CASE n = k
      BY <3>1, <3>2, <3>3
    <3>4. CASE n # k
      <4>1. n \in 0 .. k - 1 /\ n + 1 # k + 1
        BY <3>4
      <4> QED  BY <3>1, <3>2, <4>1
    <3> QED  BY <3>3, <3>4
  <2>4. Good(k + 1, h)
    <3> HIDE DEF h
    <3>1. (k + 1) - 1 = k
      OBVIOUS
    <3> QED BY <2>2, <2>3, <3>1
  <2> HIDE DEF h, Good
  <2> QED  BY <2>4
<1> HIDE DEF T
<1>3. Nat \subseteq T
  BY <1>1, <1>2, SetInduction
<1> USE DEF T
<1>4. \A k \in Nat : \E g : Good(k, g)
  BY <1>3
<1>5. ASSUME NEW j \in Nat, NEW k \in Nat, j <= k, NEW g, NEW h, Good(j, g), Good(k, h)
      PROVE  \A n \in 0 .. j : g[n] = h[n]
  <2> DEFINE E == {n \in Nat : n <= j => g[n] = h[n]}
  <2>1. 0 \in E
    BY <1>5
  <2>2. ASSUME NEW n \in Nat, n \in E PROVE n + 1 \in E
    <3> SUFFICES ASSUME n + 1 <= j PROVE g[n + 1] = h[n + 1]
      OBVIOUS
    <3>1. n \in 0 .. j - 1 /\ n \in 0 .. k - 1 /\ g[n] = h[n]
      BY <1>5, <2>2
    <3> QED  BY <1>5, <3>1
  <2> HIDE DEF E
  <2>3. Nat \subseteq E
    BY <2>1, <2>2, SetInduction
  <2> QED  BY <2>3 DEF E
<1> DEFINE at(k) == CHOOSE g : Good(k, g)
           G == [n \in Nat |-> at(n)[n]]
<1>6. \A k \in Nat : Good(k, at(k))
  BY <1>4
<1> HIDE DEF at, Good
<1>7. G \in [Nat -> S]
  BY <1>6 DEF Good
<1>8. G[0] = base
  BY <1>6 DEF Good
<1>9. ASSUME NEW n \in Nat PROVE G[n + 1] = step[n][G[n]]
  <2>1. Good(n, at(n)) /\ Good(n + 1, at(n + 1)) /\ n + 1 \in Nat /\ n <= n + 1
    BY <1>6
  <2>2. at(n)[n] = at(n + 1)[n]
    BY <2>1, <1>5
  <2>3. at(n + 1)[n + 1] = step[n][at(n + 1)[n]]
    BY <2>1 DEF Good
  <2> QED  BY <2>1, <2>2, <2>3
<1> QED  BY <1>7, <1>8, <1>9 DEF Recurs
-----------------------------------------------------------------------------
(* FlattenSeq                                                              *)

\* A function that concatenates one sequence after the other has what
\* FlattenSeq gives as its last value.
LEMMA FlattenBy ==
    ASSUME NEW S, NEW seqs \in Seq(Seq(S)), NEW g, NEW N \in Nat,
           N = Len(seqs),
           g[0] = <<>>,
           \A n \in 0 .. N : g[n] \in Seq(S),
           \A n \in Nat : n < N => g[n + 1] = g[n] \o seqs[n + 1]
    PROVE  FlattenSeq(seqs) = g[N]
<1> DEFINE value(F, i) == IF i = 1 THEN seqs[i] ELSE F[i - 1] \o seqs[i]
           Eq(F) == F = [i \in 1 .. N |-> value(F, i)]
           h == [i \in 1 .. N |-> g[i]]
           F == CHOOSE f : Eq(f)
<1>1. \A i \in 1 .. N : seqs[i] \in Seq(S)
  BY ElementOfSeq
<1>2. CASE N = 0
  <2>1. seqs = <<>>
    BY <1>2, EmptySeq
  <2> QED  BY <1>2, <2>1 DEF FlattenSeq
<1>3. CASE N # 0
  <2>1. FlattenSeq(seqs) = F[N]
    BY <1>3 DEF FlattenSeq
  <2>2. ASSUME NEW i \in 1 .. N PROVE h[i] = value(h, i)
    <3>1. g[i] = g[i - 1] \o seqs[i]
      <4>1. i - 1 \in Nat /\ i - 1 < N /\ (i - 1) + 1 = i
        OBVIOUS
      <4> QED  BY <4>1
    <3>2. CASE i = 1
      <4>1. seqs[i] \in Seq(S)
        BY <1>1
      <4>2. <<>> \o seqs[i] = seqs[i]
        BY <4>1, ConcatEmptySeq
      <4>3. g[i - 1] = <<>>
        BY <3>2
      <4>4. h[i] = g[i]
        OBVIOUS
      <4> QED  BY <3>1, <3>2, <4>2, <4>3, <4>4
    <3>3. CASE i # 1
      <4>1. i - 1 \in 1 .. N
        BY <3>3
      <4>2. h[i - 1] = g[i - 1]
        BY <4>1
      <4> QED  BY <3>1, <3>3, <4>2
    <3> QED  BY <3>2, <3>3
  <2>3. Eq(h)
    <3> HIDE DEF value
    <3> QED  BY <2>2
  <2>4. Eq(F)
    <3> HIDE DEF h, Eq
    <3> QED  BY <2>3
  <2> HIDE DEF F
  <2>5. \A i \in 1 .. N : F[i] = value(F, i)
    <3> HIDE DEF value
    <3> QED  BY <2>4
  <2> DEFINE E == {n \in Nat : n + 1 <= N => F[n + 1] = g[n + 1]}
  <2>6. 0 \in E
    <3>1. 1 \in 1 .. N /\ seqs[1] \in Seq(S)
      BY <1>1, <1>3
    <3>2. F[1] = seqs[1]
      BY <2>5, <3>1
    <3>3. g[1] = <<>> \o seqs[1]
      <4>1. 0 \in Nat /\ 0 < N /\ 0 + 1 = 1
        BY <1>3
      <4> QED  BY <4>1
    <3> QED  BY <3>1, <3>2, <3>3, ConcatEmptySeq
  <2>7. ASSUME NEW n \in Nat, n \in E PROVE n + 1 \in E
    <3> SUFFICES ASSUME (n + 1) + 1 <= N
                 PROVE  F[(n + 1) + 1] = g[(n + 1) + 1]
      OBVIOUS
    <3>1. n + 1 \in Nat /\ n + 1 < N /\ n + 1 <= N /\ (n + 1) + 1 \in 1 .. N
      OBVIOUS
    <3>2. F[n + 1] = g[n + 1]
      BY <2>7, <3>1
    <3>3. ((n + 1) + 1) - 1 = n + 1 /\ (n + 1) + 1 # 1
      OBVIOUS
    <3>4. F[(n + 1) + 1] = F[n + 1] \o seqs[(n + 1) + 1]
      BY <2>5, <3>1, <3>3
    <3> QED  BY <3>1, <3>2, <3>4
  <2> HIDE DEF E
  <2>8. Nat \subseteq E
    BY <2>6, <2>7, SetInduction
  <2>9. N - 1 \in Nat /\ (N - 1) + 1 = N
    BY <1>3
  <2>10. N - 1 \in E
    BY <2>8, <2>9
  <2>11. F[N] = g[N]
    <3>1. (N - 1) + 1 <= N
      BY <2>9
    <3>2. F[(N - 1) + 1] = g[(N - 1) + 1]
      BY <2>10, <3>1 DEF E
    <3> QED  BY <2>9, <3>2
  <2> QED  BY <2>1, <2>11
<1> QED  BY <1>2, <1>3

\* There is such a function.
LEMMA FlattenSteps ==
    ASSUME NEW S, NEW seqs \in Seq(Seq(S))
    PROVE  \E g \in [Nat -> Seq(S)] :
               /\ g[0] = <<>>
               /\ \A n \in Nat : n < Len(seqs) => g[n + 1] = g[n] \o seqs[n + 1]
<1> DEFINE next(n, x) == IF n + 1 \in 1 .. Len(seqs) THEN x \o seqs[n + 1]
                                                     ELSE x
           step == [n \in Nat |-> [x \in Seq(S) |-> next(n, x)]]
<1>1. Len(seqs) \in Nat /\ \A i \in 1 .. Len(seqs) : seqs[i] \in Seq(S)
  BY LenProperties, ElementOfSeq
<1>2. \A n \in Nat, x \in Seq(S) : next(n, x) \in Seq(S)
  BY <1>1, ConcatProperties
<1>3. step \in [Nat -> [Seq(S) -> Seq(S)]]
  <2> HIDE DEF next
  <2> QED  BY <1>2
<1>4. <<>> \in Seq(S)
  BY EmptySeq
<1>5. \A n \in Nat, x \in Seq(S) : step[n][x] = next(n, x)
  <2> HIDE DEF next
  <2> QED  OBVIOUS
<1> HIDE DEF step, next
<1>6. \E g \in [Nat -> Seq(S)] : Recurs(g, <<>>, step)
  BY <1>3, <1>4, NatRecursion
<1>7. PICK g \in [Nat -> Seq(S)] :
        g[0] = <<>> /\ \A n \in Nat : g[n + 1] = step[n][g[n]]
  BY <1>6 DEF Recurs
<1>8. \A n \in Nat : g[n + 1] = next(n, g[n])
  BY <1>5, <1>7
<1>9. \A n \in Nat : n < Len(seqs) => n + 1 \in 1 .. Len(seqs)
  BY <1>1
<1>10. \A n \in Nat : n < Len(seqs) => g[n + 1] = g[n] \o seqs[n + 1]
  BY <1>8, <1>9 DEF next
<1> QED  BY <1>7, <1>10

\* FlattenSeq of a sequence that grows at its end.
LEMMA FlattenProperties ==
    ASSUME NEW S, NEW seqs \in Seq(Seq(S))
    PROVE  /\ FlattenSeq(seqs) \in Seq(S)
           /\ seqs = <<>> => FlattenSeq(seqs) = <<>>
           /\ \A s \in Seq(S) :
                FlattenSeq(Append(seqs, s)) = FlattenSeq(seqs) \o s
<1>1. PICK N \in Nat : N = Len(seqs)
  BY LenProperties
<1>2. PICK g \in [Nat -> Seq(S)] :
        /\ g[0] = <<>>
        /\ \A n \in Nat : n < N => g[n + 1] = g[n] \o seqs[n + 1]
  BY <1>1, FlattenSteps
<1>3. \A n \in Nat : g[n] \in Seq(S)
  OBVIOUS
<1>4. FlattenSeq(seqs) = g[N]
  <2>1. \A n \in 0 .. N : g[n] \in Seq(S)
    BY <1>3
  <2> QED  BY <1>1, <1>2, <2>1, FlattenBy
<1>5. ASSUME NEW s \in Seq(S)
      PROVE  FlattenSeq(Append(seqs, s)) = FlattenSeq(seqs) \o s
  <2>1. PICK longer \in Seq(Seq(S)) : longer = Append(seqs, s)
    BY AppendProperties
  <2>2. /\ Len(longer) = N + 1
        /\ \A i \in 1 .. N : longer[i] = seqs[i]
        /\ longer[N + 1] = s
    BY <1>1, <2>1, AppendProperties
  <2>3. PICK last \in Seq(S) : last = g[N] \o s
    BY <1>3, ConcatProperties
  <2> DEFINE h == [n \in Nat |-> IF n = N + 1 THEN last ELSE g[n]]
  <2>4. \A n \in Nat : n # N + 1 => h[n] = g[n]
    OBVIOUS
  <2>5. h[N + 1] = last
    OBVIOUS
  <2> HIDE DEF h
  <2>6. h[0] = <<>> /\ \A n \in 0 .. N + 1 : h[n] \in Seq(S)
    <3>1. h[0] = <<>>
      <4>1. 0 # N + 1
        OBVIOUS
      <4> QED  BY <1>2, <2>4, <4>1
    <3>2. ASSUME NEW n \in 0 .. N + 1 PROVE h[n] \in Seq(S)
      <4>1. CASE n = N + 1
        BY <2>3, <2>5, <4>1
      <4>2. CASE n # N + 1
        <5>1. n \in Nat
          OBVIOUS
        <5>2. h[n] = g[n]
          BY <2>4, <4>2, <5>1
        <5> QED  BY <1>3, <5>1, <5>2
      <4> QED  BY <4>1, <4>2
    <3> QED  BY <3>1, <3>2
  <2>7. ASSUME NEW n \in Nat, n < N + 1
        PROVE  h[n + 1] = h[n] \o longer[n + 1]
    <3>1. h[n] = g[n]
      <4>1. n # N + 1
        BY <2>7
      <4> QED  BY <2>4, <4>1
    <3>2. CASE n = N
      BY <2>2, <2>3, <2>5, <3>1, <3>2
    <3>3. CASE n # N
      <4>1. n < N /\ n + 1 \in 1 .. N /\ n + 1 # N + 1 /\ n + 1 \in Nat
        BY <2>7, <3>3
      <4>2. h[n + 1] = g[n + 1] /\ longer[n + 1] = seqs[n + 1]
        BY <2>2, <2>4, <4>1
      <4>3. g[n + 1] = g[n] \o seqs[n + 1]
        BY <1>2, <4>1
      <4> QED  BY <3>1, <4>2, <4>3
    <3> QED  BY <3>2, <3>3
  <2>8. FlattenSeq(longer) = h[N + 1]
    <3>1. N + 1 \in Nat
      OBVIOUS
    <3> QED  BY <2>2, <2>6, <2>7, <3>1, FlattenBy
  <2> QED  BY <1>4, <2>1, <2>3, <2>5, <2>8
<1>6. FlattenSeq(seqs) \in Seq(S)
  BY <1>3, <1>4
<1>7. seqs = <<>> => FlattenSeq(seqs) = <<>>
  BY <1>1, <1>2, <1>4, EmptySeq
<1> QED  BY <1>5, <1>6, <1>7

-----------------------------------------------------------------------------
(* Numbers and short sequences                                             *)

\* Numbers up to a bound.
LEMMA Below ==
    \A n, N \in Nat : n + 1 <= N => n < N /\ n <= N /\ n + 1 \in 1 .. N
  OBVIOUS

\* The number before.
LEMMA Previous ==
    \A n \in Nat \ {0}, N \in Nat :
        n <= N => /\ n - 1 \in Nat /\ n - 1 < N
                  /\ (n - 1) + 1 = n /\ n - 1 \in 0 .. N
  OBVIOUS

\* A number up to N + 1 is the last one or one up to N.
LEMMA NotLast == \A N \in Nat : \A i \in 1 .. N + 1 : i # N + 1 => i \in 1 .. N
  OBVIOUS

\* Two tuples of one element each make one of two.
LEMMA TwoEntries ==
    ASSUME NEW a, NEW b PROVE <<a>> \o <<b>> = <<a, b>>
<1> DEFINE S == {a, b}
<1>1. PICK x, y : x = <<a>> /\ y = <<b>>
  OBVIOUS
<1>2. x \in Seq(S) /\ y \in Seq(S) /\ Len(x) = 1 /\ Len(y) = 1 /\ x[1] = a /\ y[1] = b
  BY <1>1
<1>3. PICK z : z = x \o y
  OBVIOUS
<1>4. PICK w : w = <<a, b>>
  OBVIOUS
<1>5. w \in Seq(S) /\ Len(w) = 2 /\ w[1] = a /\ w[2] = b
  BY <1>4
<1> HIDE DEF S
<1>6. /\ z \in Seq(S)
      /\ Len(z) = Len(x) + Len(y)
      /\ \A i \in 1 .. Len(x) + Len(y) : z[i] = IF i <= Len(x) THEN x[i] ELSE y[i - Len(x)]
  BY <1>2, <1>3, ConcatProperties
<1>7. Len(z) = 2 /\ z[1] = a /\ z[2] = b
  BY <1>2, <1>6
<1>8. z = w
  <2>1. \A i \in 1 .. Len(z) : z[i] = w[i]
    BY <1>5, <1>7
  <2> QED BY <1>5, <1>6, <1>7, <2>1, SeqEqual
<1> QED BY <1>1, <1>3, <1>4, <1>8

\* A tuple of one element is a sequence ...
LEMMA OneOf ==
    ASSUME NEW S, NEW a \in S
    PROVE  <<a>> \in Seq(S) /\ Len(<<a>>) = 1 /\ <<a>>[1] = a
  OBVIOUS

\* ... and three.
LEMMA ThreeOf ==
    ASSUME NEW S, NEW a \in S, NEW b \in S, NEW c \in S
    PROVE  /\ <<a, b, c>> \in Seq(S) /\ Len(<<a, b, c>>) = 3
           /\ <<a, b, c>>[1] = a /\ <<a, b, c>>[2] = b /\ <<a, b, c>>[3] = c
  OBVIOUS

\* One more element.
LEMMA Appended ==
    ASSUME NEW S, NEW s \in Seq(S), NEW x \in S, NEW n \in Nat, Len(s) = n
    PROVE  /\ Append(s, x) \in Seq(S)
           /\ Len(Append(s, x)) = n + 1
           /\ \A i \in 1 .. n : Append(s, x)[i] = s[i]
           /\ Append(s, x)[n + 1] = x
           /\ DOMAIN Append(s, x) = 1 .. n + 1
<1>1. PICK t \in Seq(S) : /\ t = Append(s, x)
                         /\ Len(t) = n + 1
                         /\ \A i \in 1 .. n : t[i] = s[i]
                         /\ t[n + 1] = x
  BY AppendProperties
<1>2. DOMAIN t = 1 .. n + 1
  BY <1>1, LenProperties
<1> QED  BY <1>1, <1>2

\* A sequence of elements of S is one of elements of any set that has them.
LEMMA Retyped ==
    ASSUME NEW S, NEW s \in Seq(S), NEW n \in Nat, Len(s) = n,
           NEW T, \A i \in 1 .. n : s[i] \in T
    PROVE  s \in Seq(T)
<1>1. s \in [1 .. n -> S]
  BY LenProperties
<1>2. s \in [1 .. n -> T]
  BY <1>1
<1> QED  BY <1>2

-----------------------------------------------------------------------------
(* Sequences cut into parts                                                *)

\* The two parts of a sequence.
LEMMA Parts ==
    ASSUME NEW S, NEW s \in Seq(S), NEW n \in Nat, n <= Len(s)
    PROVE  /\ SubSeq(s, 1, n) \in Seq(S)
           /\ Len(SubSeq(s, 1, n)) = n
           /\ SubSeq(s, n + 1, Len(s)) \in Seq(S)
           /\ Len(SubSeq(s, n + 1, Len(s))) = Len(s) - n
           /\ SubSeq(s, 1, n) \o SubSeq(s, n + 1, Len(s)) = s
<1>1. PICK L \in Nat : L = Len(s)
  BY LenProperties
<1>2. \A i \in 1 .. L : s[i] \in S
  BY <1>1, ElementOfSeq
<1>3. SubSeq(s, 1, n) \in Seq(S) /\ Len(SubSeq(s, 1, n)) = n
  <2>1. \A i \in 1 .. n : s[i] \in S
    BY <1>1, <1>2
  <2>2. /\ SubSeq(s, 1, n) \in Seq(S)
        /\ Len(SubSeq(s, 1, n)) = IF 1 <= n THEN n - 1 + 1 ELSE 0
    BY <2>1, SubSeqProperties
  <2> QED  BY <2>2
<1>4. /\ SubSeq(s, n + 1, L) \in Seq(S)
      /\ Len(SubSeq(s, n + 1, L)) = L - n
  <2>1. \A i \in n + 1 .. L : s[i] \in S
    BY <1>2
  <2>2. /\ SubSeq(s, n + 1, L) \in Seq(S)
        /\ Len(SubSeq(s, n + 1, L)) = IF n + 1 <= L THEN L - (n + 1) + 1 ELSE 0
    BY <2>1, SubSeqProperties
  <2> QED  BY <1>1, <2>2
<1>5. SubSeq(s, 1, n) \o SubSeq(s, n + 1, L) = SubSeq(s, 1, L)
  <2>1. 1 \in 1 .. Len(s) + 1 /\ n \in 1 - 1 .. Len(s) /\ L \in n .. Len(s)
    BY <1>1
  <2> QED  BY <2>1, ConcatAdjacentSubSeq
<1>6. SubSeq(s, 1, L) = s
  BY <1>1, SubSeqFull
<1> QED  BY <1>1, <1>3, <1>4, <1>5, <1>6

\* A sequence is cut in one way into a part of a given length and the rest.
SameWhole(a, b, c, d) == a \o b = c \o d

\* Then the two parts are the same.
LEMMA SameCut ==
    ASSUME NEW S, NEW a \in Seq(S), NEW b \in Seq(S), NEW c \in Seq(S),
           NEW d \in Seq(S), SameWhole(a, b, c, d), Len(a) = Len(c)
    PROVE  a = c /\ b = d
<1>1. PICK K \in Nat : K = Len(a) /\ K = Len(c)
  BY LenProperties
<1>2. PICK M \in Nat : M = Len(b)
  BY LenProperties
<1>3. PICK N \in Nat : N = Len(d)
  BY LenProperties
<1>4. \A i \in 1 .. K + M : (a \o b)[i] = IF i <= K THEN a[i] ELSE b[i - K]
  <2>1. \A i \in 1 .. Len(a) + Len(b) :
          (a \o b)[i] = IF i <= Len(a) THEN a[i] ELSE b[i - Len(a)]
    BY ConcatProperties
  <2> QED  BY <1>1, <1>2, <2>1
<1>5. \A i \in 1 .. K + N : (c \o d)[i] = IF i <= K THEN c[i] ELSE d[i - K]
  <2>1. \A i \in 1 .. Len(c) + Len(d) :
          (c \o d)[i] = IF i <= Len(c) THEN c[i] ELSE d[i - Len(c)]
    BY ConcatProperties
  <2> QED  BY <1>1, <1>3, <2>1
<1>6. M = N
  <2>1. Len(a \o b) = K + M /\ Len(c \o d) = K + N
    BY <1>1, <1>2, <1>3, ConcatProperties
  <2> QED  BY <2>1 DEF SameWhole
<1>7. PICK both : both = a \o b /\ both = c \o d
  BY DEF SameWhole
<1>8. ASSUME NEW i \in 1 .. K PROVE a[i] = c[i]
  <2>1. i \in 1 .. K + M /\ i <= K /\ i \in 1 .. K + N
    OBVIOUS
  <2>2. both[i] = a[i]
    BY <1>4, <1>7, <2>1
  <2>3. both[i] = c[i]
    BY <1>5, <1>7, <2>1
  <2> QED  BY <2>2, <2>3
<1>9. ASSUME NEW i \in 1 .. M PROVE b[i] = d[i]
  <2>1. /\ K + i \in 1 .. K + M /\ ~(K + i <= K) /\ K + i \in 1 .. K + N
        /\ (K + i) - K = i
    BY <1>6
  <2>2. both[K + i] = b[i]
    BY <1>4, <1>7, <2>1
  <2>3. both[K + i] = d[i]
    BY <1>5, <1>7, <2>1
  <2> QED  BY <2>2, <2>3
<1>10. a = c
  BY <1>1, <1>8, SeqEqual
<1>11. b = d
  BY <1>2, <1>3, <1>6, <1>9, SeqEqual
<1> QED  BY <1>10, <1>11

\* A piece of a sequence between the part before it and the part after it.
LEMMA Piece ==
    ASSUME NEW S, NEW s \in Seq(S), NEW k \in Nat, NEW n \in Nat,
           k + n <= Len(s)
    PROVE  /\ SubSeq(s, k + 1, k + n) \in Seq(S)
           /\ Len(SubSeq(s, k + 1, k + n)) = n
           /\ SubSeq(s, 1, k) \o SubSeq(s, k + 1, k + n) = SubSeq(s, 1, k + n)
           /\ SubSeq(s, k + 1, k + n) \o SubSeq(s, k + n + 1, Len(s))
                = SubSeq(s, k + 1, Len(s))
<1>1. PICK L \in Nat : L = Len(s)
  BY LenProperties
<1>2. /\ SubSeq(s, k + 1, k + n) \in Seq(S)
      /\ Len(SubSeq(s, k + 1, k + n)) = n
  <2>1. \A i \in k + 1 .. k + n : s[i] \in S
    BY <1>1, ElementOfSeq
  <2>2. /\ SubSeq(s, k + 1, k + n) \in Seq(S)
        /\ Len(SubSeq(s, k + 1, k + n))
             = IF k + 1 <= k + n THEN k + n - (k + 1) + 1 ELSE 0
    BY <2>1, SubSeqProperties
  <2> QED  BY <2>2
<1>3. SubSeq(s, 1, k) \o SubSeq(s, k + 1, k + n) = SubSeq(s, 1, k + n)
  <2>1. 1 \in 1 .. Len(s) + 1 /\ k \in 1 - 1 .. Len(s) /\ k + n \in k .. Len(s)
    BY <1>1
  <2> QED  BY <2>1, ConcatAdjacentSubSeq
<1>4. SubSeq(s, k + 1, k + n) \o SubSeq(s, k + n + 1, Len(s))
        = SubSeq(s, k + 1, Len(s))
  <2>1. /\ k + 1 \in 1 .. Len(s) + 1
        /\ k + n \in (k + 1) - 1 .. Len(s)
        /\ Len(s) \in k + n .. Len(s)
    BY <1>1
  <2> QED  BY <2>1, ConcatAdjacentSubSeq
<1> QED  BY <1>2, <1>3, <1>4

\* What stands before an end can be taken off again.
LEMMA BeforeEnd ==
    ASSUME NEW S, NEW a \in Seq(S), NEW b \in Seq(S), NEW n \in Nat, n = Len(b)
    PROVE  SubSeq(a \o b, 1, Len(a \o b) - n) = a
<1>1. PICK c \in Seq(S) : c = a \o b
  BY ConcatProperties
<1>2. PICK K \in Nat : K = Len(a)
  BY LenProperties
<1>3. Len(c) = K + n
  BY <1>1, <1>2, ConcatProperties
<1>4. /\ SubSeq(c, 1, K) \in Seq(S)
      /\ Len(SubSeq(c, 1, K)) = K
      /\ SubSeq(c, K + 1, Len(c)) \in Seq(S)
      /\ SubSeq(c, 1, K) \o SubSeq(c, K + 1, Len(c)) = c
  <2>1. K <= Len(c)
    BY <1>3
  <2> QED  BY <2>1, Parts
<1>5. SubSeq(c, 1, K) = a
  BY <1>1, <1>2, <1>4, SameCut DEF SameWhole
<1>6. Len(c) - n = K
  BY <1>3
<1> QED  BY <1>1, <1>5, <1>6

\* In which order three sequences are put together does not matter ...
Regroups(a, b, c) == (a \o b) \o c = a \o (b \o c)

\* ... for any three sequences.
LEMMA Regroup ==
    ASSUME NEW S, NEW a \in Seq(S), NEW b \in Seq(S), NEW c \in Seq(S)
    PROVE  Regroups(a, b, c)
  BY ConcatAssociative DEF Regroups

\* A number from either end.
LEMMA FromBothEnds ==
    \A n, N \in Nat : n + 1 <= N =>
        /\ n < N /\ n <= N /\ n + 1 \in 1 .. N /\ n + 1 \in Nat
        /\ \E m \in Nat : m = N - (n + 1) /\ N - n = m + 1 /\ N - m = n + 1
<1> SUFFICES ASSUME NEW n \in Nat, NEW N \in Nat, n + 1 <= N
             PROVE  \E m \in Nat : m = N - (n + 1) /\ N - n = m + 1 /\ N - m = n + 1
  OBVIOUS
<1>1. N - (n + 1) \in Nat
  OBVIOUS
<1> QED  BY <1>1

\* Two functions that move the elements of seqs, one by one, from the second
\* to the first.
Moves(g, T, seqs, N) ==
    \A n \in Nat : n + 1 <= N =>
        g[n + 1] = g[n] \o seqs[n + 1] /\ T[n] = seqs[n + 1] \o T[n + 1]

\* The values of both are sequences.
BothOf(g, T, S) == \A n \in Nat : g[n] \in Seq(S) /\ T[n] \in Seq(S)

\* What they have together is the same at the end as at the beginning ...
Meets(g, T, N) == g[N] \o T[N] = g[0] \o T[0]

\* ... since moving an element does not change it.
LEMMA Meeting ==
    ASSUME NEW S, NEW seqs, NEW N \in Nat, NEW g, NEW T, Moves(g, T, seqs, N),
           BothOf(g, T, S), \A n \in 1 .. N : seqs[n] \in Seq(S)
    PROVE  Meets(g, T, N)
<1>1. ASSUME NEW n \in Nat, n + 1 <= N
      PROVE  g[n + 1] \o T[n + 1] = g[n] \o T[n]
  <2>1. n + 1 \in 1 .. N /\ n + 1 \in Nat
    BY <1>1, FromBothEnds
  <2>2. g[n + 1] = g[n] \o seqs[n + 1] /\ T[n] = seqs[n + 1] \o T[n + 1]
    BY <1>1 DEF Moves
  <2>3. g[n] \in Seq(S) /\ T[n + 1] \in Seq(S) /\ seqs[n + 1] \in Seq(S)
    BY <2>1 DEF BothOf
  <2>4. Regroups(g[n], seqs[n + 1], T[n + 1])
    BY <2>3, Regroup
  <2> QED  BY <2>2, <2>4 DEF Regroups
<1> DEFINE W(n) == g[n] \o T[n] = g[0] \o T[0]
           E == {n \in Nat : n <= N => W(n)}
<1>2. W(0) /\ \A n \in Nat : n + 1 <= N /\ W(n) => W(n + 1)
  BY <1>1
<1> HIDE DEF W
<1>3. 0 \in E
  BY <1>2
<1>4. ASSUME NEW n \in Nat, n \in E PROVE n + 1 \in E
  <2>1. n + 1 <= N => n <= N
    BY FromBothEnds
  <2> QED  BY <1>2, <1>4, <2>1
<1> HIDE DEF E
<1>5. Nat \subseteq E
  BY <1>3, <1>4, SetInduction
<1>6. N \in E /\ N <= N
  BY <1>5
<1>7. W(N)
  BY <1>6 DEF E
<1> QED  BY <1>7 DEF W, Meets

\* T has what is left of the concatenation from each place on.
Unrolls(T, seqs, N) ==
    /\ T[0] = FlattenSeq(seqs)
    /\ T[N] = <<>>
    /\ \A n \in Nat : n < N => T[n] = seqs[n + 1] \o T[n + 1]

\* FlattenSeq of a sequence that is taken away from its beginning.
LEMMA FlattenTails ==
    ASSUME NEW S, NEW seqs \in Seq(Seq(S)), NEW N \in Nat, N = Len(seqs)
    PROVE  \E T \in [Nat -> Seq(S)] : Unrolls(T, seqs, N)
<1> DEFINE next(n, x) == IF N - n \in 1 .. N THEN seqs[N - n] \o x ELSE x
           step == [n \in Nat |-> [x \in Seq(S) |-> next(n, x)]]
<1>1. \A i \in 1 .. N : seqs[i] \in Seq(S)
  BY ElementOfSeq
<1>2. \A n \in Nat, x \in Seq(S) : next(n, x) \in Seq(S)
  BY <1>1, ConcatProperties
<1>3. step \in [Nat -> [Seq(S) -> Seq(S)]]
  <2> HIDE DEF next
  <2> QED  BY <1>2
<1>4. <<>> \in Seq(S)
  BY EmptySeq
<1>5. \A n \in Nat, x \in Seq(S) : step[n][x] = next(n, x)
  <2> HIDE DEF next
  <2> QED  OBVIOUS
<1> HIDE DEF step, next
<1>6. \E u \in [Nat -> Seq(S)] : Recurs(u, <<>>, step)
  BY <1>3, <1>4, NatRecursion
<1>7. PICK u \in [Nat -> Seq(S)] :
        u[0] = <<>> /\ \A n \in Nat : u[n + 1] = step[n][u[n]]
  BY <1>6 DEF Recurs
<1>8. \A n \in Nat : u[n + 1] = next(n, u[n])
  BY <1>5, <1>7
<1> DEFINE T == [n \in Nat |-> IF n <= N THEN u[N - n] ELSE <<>>]
<1>9. \A n \in Nat : n <= N => T[n] = u[N - n]
  OBVIOUS
<1>10. T \in [Nat -> Seq(S)]
  <2>1. \A n \in Nat : n <= N => N - n \in Nat
    OBVIOUS
  <2>2. \A n \in Nat : u[n] \in Seq(S)
    BY <1>7
  <2>3. \A n \in Nat : (IF n <= N THEN u[N - n] ELSE <<>>) \in Seq(S)
    BY <1>4, <2>1, <2>2
  <2> QED  BY <2>3
<1> HIDE DEF T
<1>11. T[N] = <<>>
  <2>1. N <= N /\ N - N = 0
    OBVIOUS
  <2> QED  BY <1>7, <1>9, <2>1
<1>12. ASSUME NEW n \in Nat, n < N PROVE T[n] = seqs[n + 1] \o T[n + 1]
  <2>0. n + 1 <= N
    BY <1>12
  <2>1. PICK m \in Nat : m = N - (n + 1) /\ N - n = m + 1 /\ N - m = n + 1
    BY <2>0, FromBothEnds
  <2>2. n + 1 \in Nat /\ n <= N /\ n + 1 \in 1 .. N
    BY <2>0, FromBothEnds
  <2>3. T[n] = u[m + 1] /\ T[n + 1] = u[m]
    BY <1>9, <2>0, <2>1, <2>2
  <2>4. u[m + 1] = next(m, u[m])
    BY <1>8
  <2>5. next(m, u[m]) = seqs[n + 1] \o u[m]
    BY <2>1, <2>2 DEF next
  <2> QED  BY <2>3, <2>4, <2>5
<1>13. PICK g \in [Nat -> Seq(S)] :
         /\ g[0] = <<>>
         /\ \A n \in Nat : n < N => g[n + 1] = g[n] \o seqs[n + 1]
  BY FlattenSteps
<1>14. FlattenSeq(seqs) = g[N]
  <2>1. \A n \in 0 .. N : g[n] \in Seq(S)
    OBVIOUS
  <2> QED  BY <1>13, <2>1, FlattenBy
<1>15. Moves(g, T, seqs, N)
  <2>1. \A n \in Nat : n + 1 <= N => n < N
    BY FromBothEnds
  <2> QED  BY <1>12, <1>13, <2>1 DEF Moves
<1>16. BothOf(g, T, S)
  BY <1>10 DEF BothOf
<1>17. T[0] \in Seq(S)
  BY <1>10
<1>18. g[N] \o T[N] = T[0]
  <2>1. Meets(g, T, N)
    BY <1>1, <1>15, <1>16, Meeting
  <2>2. <<>> \o T[0] = T[0]
    BY <1>17, ConcatEmptySeq
  <2> QED  BY <1>13, <2>1, <2>2 DEF Meets
<1>19. T[0] = FlattenSeq(seqs)
  <2>1. g[N] \in Seq(S)
    OBVIOUS
  <2>2. g[N] \o <<>> = g[N]
    BY <2>1, ConcatEmptySeq
  <2> QED  BY <1>11, <1>14, <1>18, <2>2
<1>20. Unrolls(T, seqs, N)
  BY <1>11, <1>12, <1>19 DEF Unrolls
<1> QED  BY <1>10, <1>20
=============================================================================
