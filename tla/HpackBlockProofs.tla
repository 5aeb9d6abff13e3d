-------------------------- MODULE HpackBlockProofs --------------------------
(***************************************************************************)
(* Proofs about HpackInteger and HpackBlock.  The decoder reads the        *)
(* integers and strings the encoder writes.  The loop over a header block  *)
(* keeps to the client's representations, round by round, also when the    *)
(* end of the block is missing; it reads what they mean, names that come   *)
(* from the table included; and a valid block that arrives whole is read   *)
(* to its end.                                                             *)
(***************************************************************************)
EXTENDS HpackBlock, HuffmanProofs, FiniteSetTheorems

-----------------------------------------------------------------------------
(* Integers: the octets after the prefix                                    *)

(* Division by 128 takes the lowest seven bits off.                         *)
LEMMA Sevens ==
    \A v \in Nat : /\ v % 128 \in 0 .. 127
                   /\ v \div 128 \in Nat
                   /\ v = 128 * (v \div 128) + (v % 128)
                   /\ v >= 128 => v \div 128 < v
                   /\ 128 + (v % 128) \in Octet
                   /\ v < 128 => v \in Octet
  BY SMT DEF Octet

(* One octet in front of others.                                            *)
LEMMA InFront ==
    ASSUME NEW S, NEW x \in S, NEW s \in Seq(S), NEW n \in Nat, Len(s) = n
    PROVE  /\ <<x>> \o s \in Seq(S)
           /\ Len(<<x>> \o s) = n + 1
           /\ (<<x>> \o s)[1] = x
           /\ \A i \in 1 .. n : (<<x>> \o s)[i + 1] = s[i]
<1>1. <<x>> \in Seq(S) /\ Len(<<x>>) = 1 /\ <<x>>[1] = x
  OBVIOUS
<1>2. PICK h \in Seq(S) : h = <<x>>
  BY <1>1
<1>3. /\ h \o s \in Seq(S)
      /\ Len(h \o s) = n + 1
      /\ \A i \in 1 .. n + 1 : (h \o s)[i] = IF i <= 1 THEN h[i] ELSE s[i - 1]
  <2>1. /\ h \o s \in Seq(S)
        /\ Len(h \o s) = Len(h) + Len(s)
        /\ \A i \in 1 .. Len(h) + Len(s) :
             (h \o s)[i] = IF i <= Len(h) THEN h[i] ELSE s[i - Len(h)]
    BY ConcatProperties
  <2> QED  BY <1>1, <1>2, <2>1
<1>4. (h \o s)[1] = x
  <2>1. 1 \in 1 .. n + 1 /\ 1 <= 1
    OBVIOUS
  <2> QED  BY <1>1, <1>2, <1>3, <2>1
<1>5. ASSUME NEW i \in 1 .. n PROVE (h \o s)[i + 1] = s[i]
  <2>1. i + 1 \in 1 .. n + 1 /\ ~(i + 1 <= 1) /\ (i + 1) - 1 = i
    OBVIOUS
  <2> QED  BY <1>3, <2>1
<1> QED  BY <1>2, <1>3, <1>4, <1>5

-----------------------------------------------------------------------------
(* The octets after the prefix                                             *)

(* One step of the recursion in Varint.                                     *)
VarintBy(f, v) == IF v < 128 THEN <<v>> ELSE <<128 + (v % 128)>> \o f[v \div 128]

(* A round of it makes octets when the next one does.                       *)
LEMMA VarintByType ==
    ASSUME NEW f \in [Nat -> Seq(Octet)], NEW v \in Nat
    PROVE  VarintBy(f, v) \in Seq(Octet)
<1>1. CASE v < 128
  <2>1. v \in Octet
    BY <1>1, Sevens
  <2>2. <<v>> \in Seq(Octet)
    BY <2>1
  <2> QED  BY <1>1, <2>2 DEF VarintBy
<1>2. CASE ~(v < 128)
  <2>1. 128 + (v % 128) \in Octet /\ v \div 128 \in Nat
    BY Sevens
  <2>2. PICK s \in Seq(Octet) : s = f[v \div 128]
    BY <2>1
  <2>3. PICK n \in Nat : n = Len(s)
    BY LenProperties
  <2>4. <<128 + (v % 128)>> \o s \in Seq(Octet)
    BY <2>1, <2>3, InFront
  <2> QED  BY <1>2, <2>2, <2>4 DEF VarintBy
<1> QED  BY <1>1, <1>2

(* The recursion has a solution: n rounds are enough for values below n.    *)
LEMMA VarintExists == \E V : V = [v \in Nat |-> VarintBy(V, v)]
<1> DEFINE F == [Nat -> Seq(Octet)]
           base == [v \in Nat |-> <<>>]
           next(f) == [v \in Nat |-> VarintBy(f, v)]
           step == [n \in Nat |-> [f \in F |-> next(f)]]
<1>1. base \in F
  <2>1. <<>> \in Seq(Octet)
    BY EmptySeq
  <2> QED  BY <2>1
<1>2. \A f \in F : next(f) \in F
  BY VarintByType
<1>3. \A f, v : v \in Nat => next(f)[v] = VarintBy(f, v)
  OBVIOUS
<1> HIDE DEF F, base, next
<1>4. step \in [Nat -> [F -> F]]
  BY <1>2
<1>5. \A n \in Nat, f \in F : step[n][f] = next(f)
  OBVIOUS
<1> HIDE DEF step
<1>6. \E g \in [Nat -> F] : Recurs(g, base, step)
  BY <1>1, <1>4, NatRecursion
<1>7. PICK g \in [Nat -> F] : \A n \in Nat : g[n + 1] = step[n][g[n]]
  BY <1>6 DEF Recurs
<1>8. \A n \in Nat, v \in Nat : g[n + 1][v] = VarintBy(g[n], v)
  BY <1>3, <1>5, <1>7
<1> DEFINE T == {n \in Nat : \A v \in Nat : v < n => g[n + 1][v] = g[n][v]}
<1>9. 0 \in T
  OBVIOUS
<1>10. ASSUME NEW n \in Nat, n \in T PROVE n + 1 \in T
  <2> SUFFICES ASSUME NEW v \in Nat, v < n + 1
               PROVE  g[(n + 1) + 1][v] = g[n + 1][v]
    OBVIOUS
  <2>1. /\ g[(n + 1) + 1][v] = VarintBy(g[n + 1], v)
        /\ g[n + 1][v] = VarintBy(g[n], v)
    BY <1>8
  <2>2. CASE v < 128
    BY <2>1, <2>2 DEF VarintBy
  <2>3. CASE ~(v < 128)
    <3>1. v \div 128 \in Nat /\ v \div 128 < n
      <4>1. v \div 128 \in Nat /\ v \div 128 < v
        BY <2>3, Sevens
      <4> QED  BY <4>1
    <3>2. g[n + 1][v \div 128] = g[n][v \div 128]
      BY <1>10, <3>1
    <3> QED  BY <2>1, <3>2 DEF VarintBy
  <2> QED  BY <2>2, <2>3
<1> HIDE DEF T
<1>11. Nat \subseteq T
  BY <1>9, <1>10, SetInduction
<1> DEFINE U == {n \in Nat : \A v \in Nat : v < n => g[n][v] = g[v + 1][v]}
<1>12. 0 \in U
  OBVIOUS
<1>13. ASSUME NEW n \in Nat, n \in U PROVE n + 1 \in U
  <2> SUFFICES ASSUME NEW v \in Nat, v < n + 1
               PROVE  g[n + 1][v] = g[v + 1][v]
    OBVIOUS
  <2>1. CASE v = n
    BY <2>1
  <2>2. CASE v # n
    <3>1. v < n
      BY <2>2
    <3>2. g[n][v] = g[v + 1][v]
      BY <1>13, <3>1
    <3>3. g[n + 1][v] = g[n][v]
      BY <1>11, <3>1 DEF T
    <3> QED  BY <3>2, <3>3
  <2> QED  BY <2>1, <2>2
<1> HIDE DEF U
<1>14. Nat \subseteq U
  BY <1>12, <1>13, SetInduction
<1> DEFINE V == [v \in Nat |-> g[v + 1][v]]
<1>15. ASSUME NEW v \in Nat PROVE g[v + 1][v] = VarintBy(V, v)
  <2>1. g[v + 1][v] = VarintBy(g[v], v)
    BY <1>8
  <2>2. CASE v < 128
    BY <2>1, <2>2 DEF VarintBy
  <2>3. CASE ~(v < 128)
    <3>1. PICK w \in Nat : w = v \div 128 /\ w < v
      BY <2>3, Sevens
    <3>2. g[v][w] = g[w + 1][w]
      BY <1>14, <3>1 DEF U
    <3>3. V[w] = g[w + 1][w]
      OBVIOUS
    <3> HIDE DEF V
    <3> QED  BY <2>1, <3>1, <3>2, <3>3 DEF VarintBy
  <2> QED  BY <2>2, <2>3
<1>16. V = [v \in Nat |-> VarintBy(V, v)]
  BY <1>15
<1> HIDE DEF V
<1> QED  BY <1>16

(* Varint is what its definition says: the recursion is well founded.       *)
LEMMA VarintDef == \A v \in Nat : Varint[v] = VarintBy(Varint, v)
<1> DEFINE Eq(f) == f = [value \in Nat |-> VarintBy(f, value)]
           F == CHOOSE f : Eq(f)
<1>1. Varint = F
  BY DEF Varint, VarintBy
<1>2. \E f : Eq(f)
  BY VarintExists
<1>3. Eq(F)
  <2> HIDE DEF Eq
  <2> QED  BY <1>2
<1>4. Eq(Varint)
  BY <1>1, <1>3
<1> QED  BY <1>4

(* All octets but the last announce another one.                            *)
Flagged(s, N) == /\ Len(s) = N + 1
                 /\ \A i \in 1 .. N : s[i] >= 128
                 /\ s[N + 1] < 128

(* How a number is written.                                                 *)
VarintShaped(v) == /\ Varint[v] \in Seq(Octet)
                   /\ \E N \in Nat : Flagged(Varint[v], N)

(* Seven bits fit one octet.                                                *)
LEMMA VarintSmall ==
    ASSUME NEW v \in Nat, v < 128
    PROVE  Varint[v] = <<v>> /\ VarintShaped(v) /\ v \in Octet
<1>1. Varint[v] = <<v>>
  BY VarintDef DEF VarintBy
<1>2. v \in Octet
  BY Sevens
<1>3. <<v>> \in Seq(Octet)
  BY <1>2
<1>4. Flagged(<<v>>, 0)
  BY DEF Flagged
<1> QED  BY <1>1, <1>2, <1>3, <1>4 DEF VarintShaped

(* Seven bits more take one octet more.                                     *)
LEMMA VarintLarge ==
    ASSUME NEW v \in Nat, v >= 128, NEW q \in Nat, q = v \div 128,
           Varint[q] \in Seq(Octet), NEW n \in Nat, Len(Varint[q]) = n
    PROVE  /\ Varint[v] \in Seq(Octet)
           /\ Len(Varint[v]) = n + 1
           /\ Varint[v][1] = 128 + (v % 128)
           /\ \A i \in 1 .. n : Varint[v][i + 1] = Varint[q][i]
<1>1. Varint[v] = <<128 + (v % 128)>> \o Varint[q]
  <2>1. ~(v < 128)
    OBVIOUS
  <2> QED  BY <2>1, VarintDef DEF VarintBy
<1>2. PICK x \in Octet : x = 128 + (v % 128)
  BY Sevens
<1>3. /\ <<x>> \o Varint[q] \in Seq(Octet)
      /\ Len(<<x>> \o Varint[q]) = n + 1
      /\ (<<x>> \o Varint[q])[1] = x
      /\ \A i \in 1 .. n : (<<x>> \o Varint[q])[i + 1] = Varint[q][i]
  BY InFront
<1> QED  BY <1>1, <1>2, <1>3

(* A flagged octet in front of flagged ones.                                *)
LEMMA FlaggedLonger ==
    ASSUME NEW s, NEW t, NEW N \in Nat, Flagged(s, N), Len(t) = (N + 1) + 1,
           t[1] >= 128, \A i \in 1 .. N + 1 : t[i + 1] = s[i]
    PROVE  Flagged(t, N + 1)
<1>1. \A i \in 1 .. N : s[i] >= 128
  BY DEF Flagged
<1>2. ASSUME NEW i \in 1 .. N + 1 PROVE t[i] >= 128
  <2>1. CASE i = 1
    BY <2>1
  <2>2. CASE i # 1
    <3>1. PICK j \in 1 .. N : i = j + 1
      <4>1. i - 1 \in 1 .. N /\ i = (i - 1) + 1
        BY <2>2
      <4> QED  BY <4>1
    <3>2. t[j + 1] = s[j]
      OBVIOUS
    <3> QED  BY <1>1, <3>1, <3>2
  <2> QED  BY <2>1, <2>2
<1>3. t[(N + 1) + 1] < 128
  <2>1. t[(N + 1) + 1] = s[N + 1]
    OBVIOUS
  <2>2. s[N + 1] < 128
    BY DEF Flagged
  <2> QED  BY <2>1, <2>2
<1> QED  BY <1>2, <1>3 DEF Flagged

(* Every number is written with all octets flagged but the last.            *)
LEMMA VarintShape == \A v \in Nat : VarintShaped(v)
<1> DEFINE T == {n \in Nat : \A v \in Nat : v < n => VarintShaped(v)}
<1>1. 0 \in T
  OBVIOUS
<1>2. ASSUME NEW n \in Nat, n \in T PROVE n + 1 \in T
  <2> SUFFICES ASSUME NEW v \in Nat, v < n + 1 PROVE VarintShaped(v)
    OBVIOUS
  <2>1. CASE v < 128
    BY <2>1, VarintSmall
  <2>2. CASE v >= 128
    <3>1. PICK q \in Nat : q = v \div 128 /\ q < v
      BY <2>2, Sevens
    <3>2. VarintShaped(q)
      <4>1. q < n
        BY <3>1
      <4> QED  BY <1>2, <4>1
    <3>3. PICK N \in Nat : Flagged(Varint[q], N)
      BY <3>2 DEF VarintShaped
    <3>4. Varint[q] \in Seq(Octet)
      BY <3>2 DEF VarintShaped
    <3>5. Len(Varint[q]) = N + 1 /\ N + 1 \in Nat
      BY <3>3 DEF Flagged
    <3>6. /\ Varint[v] \in Seq(Octet)
          /\ Len(Varint[v]) = (N + 1) + 1
          /\ Varint[v][1] = 128 + (v % 128)
          /\ \A i \in 1 .. N + 1 : Varint[v][i + 1] = Varint[q][i]
      BY <2>2, <3>1, <3>4, <3>5, VarintLarge
    <3>7. Varint[v][1] >= 128
      <4>1. 128 + (v % 128) >= 128
        OBVIOUS
      <4> QED  BY <3>6, <4>1
    <3>8. Flagged(Varint[v], N + 1)
      BY <3>3, <3>6, <3>7, FlaggedLonger
    <3> QED  BY <3>6, <3>8 DEF VarintShaped
  <2> QED  BY <2>1, <2>2
<1> HIDE DEF T
<1>3. Nat \subseteq T
  BY <1>1, <1>2, SetInduction
<1>4. ASSUME NEW v \in Nat PROVE VarintShaped(v)
  <2>1. v + 1 \in T
    BY <1>3
  <2> QED  BY <2>1 DEF T
<1> QED  BY <1>4

(* The first octet of a number, and those of the rest.                      *)
VarintStep(v, q, n) ==
    /\ q = v \div 128 /\ n = Len(Varint[q])
    /\ v = 128 * q + (v % 128)
    /\ v < 128 => Len(Varint[v]) = 1
    /\ v >= 128 => Len(Varint[v]) = n + 1
    /\ v >= 128 => n >= 1 /\ q >= 1
    /\ Varint[v][1] % 128 = v % 128
    /\ v >= 128 => \A i \in 1 .. n : Varint[v][i + 1] = Varint[q][i]

(* The first octet of a number, and the others.                             *)
LEMMA VarintSteps ==
    ASSUME NEW v \in Nat
    PROVE  \E q \in Nat, n \in Nat : VarintStep(v, q, n)
<1>1. PICK q \in Nat : q = v \div 128 /\ v = 128 * q + (v % 128)
  BY Sevens
<1>2. PICK N \in Nat : Flagged(Varint[q], N)
  BY VarintShape DEF VarintShaped
<1>3. Varint[q] \in Seq(Octet) /\ Len(Varint[q]) = N + 1
  BY <1>2, VarintShape DEF VarintShaped, Flagged
<1>4. CASE v < 128
  <2>1. Varint[v] = <<v>>
    BY <1>4, VarintSmall
  <2>2. Len(Varint[v]) = 1 /\ Varint[v][1] = v
    BY <2>1
  <2>3. N + 1 \in Nat /\ ~(v >= 128)
    BY <1>4
  <2>4. VarintStep(v, q, N + 1)
    BY <1>1, <1>3, <1>4, <2>2, <2>3 DEF VarintStep
  <2> QED  BY <2>3, <2>4
<1>5. CASE v >= 128
  <2>1. N + 1 \in Nat /\ ~(v < 128) /\ N + 1 >= 1 /\ q >= 1
    BY <1>1, <1>5
  <2>2. PICK n \in Nat : n = N + 1
    BY <2>1
  <2>3. q = v \div 128 /\ Varint[q] \in Seq(Octet) /\ Len(Varint[q]) = n
    BY <1>1, <1>3, <2>2
  <2>4. /\ Len(Varint[v]) = n + 1
        /\ Varint[v][1] = 128 + (v % 128)
        /\ \A i \in 1 .. n : Varint[v][i + 1] = Varint[q][i]
    BY <1>5, <2>3, VarintLarge
  <2>5. (128 + (v % 128)) % 128 = v % 128
    BY SMTT(60)
  <2>6. Varint[v][1] % 128 = v % 128
    BY <2>4, <2>5
  <2>7. VarintStep(v, q, n)
    BY <1>1, <2>1, <2>2, <2>3, <2>4, <2>6 DEF VarintStep
  <2> QED  BY <2>7
<1> QED  BY <1>4, <1>5

(* How many octets v takes.                                                 *)
Takes(v, m) == m = Len(Varint[v])

(* A number takes one octet, or one more than the rest does.                *)
LEMMA VarintTakes ==
    ASSUME NEW v \in Nat, NEW m \in Nat, Takes(v, m)
    PROVE  \E q \in Nat, n \in Nat :
             /\ q = v \div 128 /\ Takes(q, n)
             /\ v < 128 => m = 1
             /\ v >= 128 => m = n + 1 /\ n >= 1
<1>1. PICK q \in Nat, n \in Nat : VarintStep(v, q, n)
  BY VarintSteps
<1>2. /\ q = v \div 128 /\ Takes(q, n)
      /\ v < 128 => m = 1
      /\ v >= 128 => m = n + 1 /\ n >= 1
  BY <1>1 DEF VarintStep, Takes
<1> QED  BY <1>2

(* The length of a number.                                                  *)
LEMMA VarintLength ==
    ASSUME NEW v \in Nat, NEW n \in Nat, Takes(v, n)
    PROVE  /\ n >= 1
           /\ n <= 1 <=> v < 128
           /\ n <= 2 <=> v < 128 * 128
           /\ n <= 3 <=> v < 128 * 128 * 128
           /\ n <= 4 <=> v < 2^28
<1>1. PICK q1 \in Nat, n1 \in Nat :
        /\ q1 = v \div 128 /\ Takes(q1, n1)
        /\ v < 128 => n = 1
        /\ v >= 128 => n = n1 + 1 /\ n1 >= 1
  BY VarintTakes
<1>2. PICK q2 \in Nat, n2 \in Nat :
        /\ q2 = q1 \div 128 /\ Takes(q2, n2)
        /\ q1 < 128 => n1 = 1
        /\ q1 >= 128 => n1 = n2 + 1 /\ n2 >= 1
  BY <1>1, VarintTakes
<1>3. PICK q3 \in Nat, n3 \in Nat :
        /\ q3 = q2 \div 128 /\ Takes(q3, n3)
        /\ q2 < 128 => n2 = 1
        /\ q2 >= 128 => n2 = n3 + 1 /\ n3 >= 1
  BY <1>2, VarintTakes
<1>4. PICK q4 \in Nat, n4 \in Nat :
        /\ q4 = q3 \div 128 /\ Takes(q4, n4)
        /\ q3 < 128 => n3 = 1
        /\ q3 >= 128 => n3 = n4 + 1 /\ n4 >= 1
  BY <1>3, VarintTakes
<1> QED  BY <1>1, <1>2, <1>3, <1>4, SMTT(30)

(* What an octet after the prefix says.                                     *)
Digit(s, i) == s[i] % 128

(* A digit has seven bits.                                                  *)
LEMMA Digits ==
    ASSUME NEW v \in Nat, NEW m \in Nat, Takes(v, m), NEW i \in 1 .. m
    PROVE  Digit(Varint[v], i) \in Nat
<1>1. Varint[v] \in Seq(Octet)
  BY VarintShape DEF VarintShaped
<1>2. Varint[v][i] \in Octet
  BY <1>1, ElementOfSeq DEF Takes
<1>3. \A x \in Octet : x % 128 \in Nat
  BY SMT DEF Octet
<1> QED  BY <1>2, <1>3 DEF Digit

(* What a number is, by its first digit and the rest.                       *)
LEMMA FirstDigit ==
    ASSUME NEW v \in Nat, NEW m \in Nat, Takes(v, m + 1)
    PROVE  \E q \in Nat :
             /\ m = 0 => v = Digit(Varint[v], 1)
             /\ m >= 1 => Takes(q, m)
             /\ m >= 1 => v = Digit(Varint[v], 1) + 128 * q
             /\ m >= 1 => \A i \in 1 .. m : Digit(Varint[v], i + 1) = Digit(Varint[q], i)
<1>1. PICK q \in Nat, n \in Nat : VarintStep(v, q, n)
  BY VarintSteps
<1>2. /\ v = 128 * q + (v % 128)
      /\ v < 128 => m + 1 = 1
      /\ v >= 128 => m + 1 = n + 1
      /\ v >= 128 => n >= 1
      /\ q = v \div 128
      /\ n = Len(Varint[q])
  BY <1>1 DEF VarintStep, Takes
<1>3. Digit(Varint[v], 1) = v % 128
  BY <1>1 DEF VarintStep, Digit
<1>4. CASE m = 0
  <2>1. v < 128
    BY <1>2, <1>4
  <2>2. v % 128 = v
    BY <2>1
  <2> QED  BY <1>3, <1>4, <2>2
<1>5. CASE m # 0
  <2>1. v >= 128 /\ m = n
    BY <1>2, <1>5
  <2>2. Takes(q, m)
    BY <1>2, <2>1 DEF Takes
  <2>3. v = Digit(Varint[v], 1) + 128 * q
    BY <1>2, <1>3
  <2>4. \A i \in 1 .. m : Varint[v][i + 1] = Varint[q][i]
    BY <1>1, <2>1 DEF VarintStep
  <2>5. \A i \in 1 .. m : Digit(Varint[v], i + 1) = Digit(Varint[q], i)
    BY <2>4 DEF Digit
  <2> QED  BY <1>5, <2>2, <2>3, <2>5
<1> QED  BY <1>4, <1>5

(* Numbers of one, two, three and four octets are the sum of their digits.  *)
LEMMA OneDigit ==
    ASSUME NEW v \in Nat, Takes(v, 1)
    PROVE  v = Digit(Varint[v], 1)
<1>1. Takes(v, 0 + 1)
  OBVIOUS
<1> QED  BY <1>1, FirstDigit

LEMMA TwoDigits ==
    ASSUME NEW v \in Nat, Takes(v, 2)
    PROVE  v = Digit(Varint[v], 1) + 128 * Digit(Varint[v], 2)
<1>1. Takes(v, 1 + 1)
  OBVIOUS
<1>2. PICK q \in Nat :
        /\ Takes(q, 1)
        /\ v = Digit(Varint[v], 1) + 128 * q
        /\ \A i \in 1 .. 1 : Digit(Varint[v], i + 1) = Digit(Varint[q], i)
  BY <1>1, FirstDigit
<1>3. Digit(Varint[v], 1 + 1) = Digit(Varint[q], 1)
  BY <1>2
<1>4. q = Digit(Varint[q], 1)
  BY <1>2, OneDigit
<1> QED  BY <1>2, <1>3, <1>4

LEMMA ThreeDigits ==
    ASSUME NEW v \in Nat, Takes(v, 3)
    PROVE  v = Digit(Varint[v], 1)
                 + 128 * (Digit(Varint[v], 2) + 128 * Digit(Varint[v], 3))
<1>1. Takes(v, 2 + 1)
  OBVIOUS
<1>2. PICK q \in Nat :
        /\ Takes(q, 2)
        /\ v = Digit(Varint[v], 1) + 128 * q
        /\ \A i \in 1 .. 2 : Digit(Varint[v], i + 1) = Digit(Varint[q], i)
  BY <1>1, FirstDigit
<1>3. /\ Digit(Varint[v], 1 + 1) = Digit(Varint[q], 1)
      /\ Digit(Varint[v], 2 + 1) = Digit(Varint[q], 2)
  BY <1>2
<1>4. q = Digit(Varint[q], 1) + 128 * Digit(Varint[q], 2)
  BY <1>2, TwoDigits
<1> QED  BY <1>2, <1>3, <1>4

LEMMA FourDigits ==
    ASSUME NEW v \in Nat, Takes(v, 4)
    PROVE  v = Digit(Varint[v], 1)
                 + 128 * (Digit(Varint[v], 2)
                            + 128 * (Digit(Varint[v], 3)
                                       + 128 * Digit(Varint[v], 4)))
<1>1. Takes(v, 3 + 1)
  OBVIOUS
<1>2. PICK q \in Nat :
        /\ Takes(q, 3)
        /\ v = Digit(Varint[v], 1) + 128 * q
        /\ \A i \in 1 .. 3 : Digit(Varint[v], i + 1) = Digit(Varint[q], i)
  BY <1>1, FirstDigit
<1>3. /\ Digit(Varint[v], 1 + 1) = Digit(Varint[q], 1)
      /\ Digit(Varint[v], 2 + 1) = Digit(Varint[q], 2)
      /\ Digit(Varint[v], 3 + 1) = Digit(Varint[q], 3)
  BY <1>2
<1>4. q = Digit(Varint[q], 1)
            + 128 * (Digit(Varint[q], 2) + 128 * Digit(Varint[q], 3))
  BY <1>2, ThreeDigits
<1> QED  BY <1>2, <1>3, <1>4

-----------------------------------------------------------------------------
(* What decode_int adds up                                                  *)

(* The value after the n-th octet, by the one before it.                    *)
ReadBy(f, b, p, n) == IF n = 1 THEN b[1] % 2^p
                      ELSE f[n-1] + (b[n] % 128) * 2^(7 * (n - 2))

(* `ret` after another octet.                                               *)
NextValue(b, p, n) ==
    ValueUpTo(b, p)[n] = ValueUpTo(b, p)[n-1] + (b[n] % 128) * 2^(7 * (n - 2))

(* `ret` is what its recursion says.                                        *)
LEMMA ValueUpToDef ==
    ASSUME NEW b, NEW p
    PROVE  /\ ValueUpTo(b, p)[1] = b[1] % 2^p
           /\ NextValue(b, p, 2)
           /\ NextValue(b, p, 3)
           /\ NextValue(b, p, 4)
           /\ NextValue(b, p, 5)
<1> DEFINE Eq(f) == f = [n \in 1 .. MAX_BYTES |-> ReadBy(f, b, p, n)]
           F == CHOOSE f : Eq(f)
           x1 == b[1] % 2^p
           x2 == x1 + (b[2] % 128) * 2^(7 * (2 - 2))
           x3 == x2 + (b[3] % 128) * 2^(7 * (3 - 2))
           x4 == x3 + (b[4] % 128) * 2^(7 * (4 - 2))
           x5 == x4 + (b[5] % 128) * 2^(7 * (5 - 2))
           h == [n \in 1 .. MAX_BYTES |->
                   IF n = 1 THEN x1 ELSE IF n = 2 THEN x2
                   ELSE IF n = 3 THEN x3 ELSE IF n = 4 THEN x4 ELSE x5]
<1>1. ValueUpTo(b, p) = F
  BY DEF ValueUpTo, ReadBy
<1>2. \A n \in 1 .. MAX_BYTES : n = 1 \/ n = 2 \/ n = 3 \/ n = 4 \/ n = 5
  BY DEF MAX_BYTES
<1>3. h[1] = x1 /\ h[2] = x2 /\ h[3] = x3 /\ h[4] = x4 /\ h[5] = x5
  <2> HIDE DEF x1, x2, x3, x4, x5
  <2> QED  BY DEF MAX_BYTES
<1> HIDE DEF h
<1>4. /\ h[1] = ReadBy(h, b, p, 1)
      /\ h[2] = ReadBy(h, b, p, 2)
      /\ h[3] = ReadBy(h, b, p, 3)
      /\ h[4] = ReadBy(h, b, p, 4)
      /\ h[5] = ReadBy(h, b, p, 5)
  <2>1. 2 - 1 = 1 /\ 3 - 1 = 2 /\ 4 - 1 = 3 /\ 5 - 1 = 4
    OBVIOUS
  <2>2. h[1] = ReadBy(h, b, p, 1)
    BY <1>3 DEF ReadBy
  <2>3. h[2] = ReadBy(h, b, p, 2)
    <3>1. h[2] = h[2 - 1] + (b[2] % 128) * 2^(7 * (2 - 2))
      BY <1>3, <2>1, ZenonT(60)
    <3> QED  BY <3>1 DEF ReadBy
  <2>4. h[3] = ReadBy(h, b, p, 3)
    <3>1. h[3] = h[3 - 1] + (b[3] % 128) * 2^(7 * (3 - 2))
      BY <1>3, <2>1, ZenonT(60)
    <3> QED  BY <3>1 DEF ReadBy
  <2>5. h[4] = ReadBy(h, b, p, 4)
    <3>1. h[4] = h[4 - 1] + (b[4] % 128) * 2^(7 * (4 - 2))
      BY <1>3, <2>1, ZenonT(60)
    <3> QED  BY <3>1 DEF ReadBy
  <2>6. h[5] = ReadBy(h, b, p, 5)
    <3>1. h[5] = h[5 - 1] + (b[5] % 128) * 2^(7 * (5 - 2))
      BY <1>3, <2>1, ZenonT(60)
    <3> QED  BY <3>1 DEF ReadBy
  <2> QED  BY <2>2, <2>3, <2>4, <2>5, <2>6
<1>5. \A n \in 1 .. MAX_BYTES : h[n] = ReadBy(h, b, p, n)
  BY <1>2, <1>4
<1>6. Eq(h)
  <2>1. h = [n \in 1 .. MAX_BYTES |-> h[n]]
    BY DEF h
  <2> QED  BY <1>5, <2>1
<1>7. Eq(F)
  <2> HIDE DEF Eq
  <2> QED  BY <1>6
<1> HIDE DEF F
<1>8. \A n \in 1 .. MAX_BYTES : F[n] = ReadBy(F, b, p, n)
  BY <1>7
<1>9. 1 \in 1 .. MAX_BYTES /\ 2 \in 1 .. MAX_BYTES /\ 3 \in 1 .. MAX_BYTES
      /\ 4 \in 1 .. MAX_BYTES /\ 5 \in 1 .. MAX_BYTES
  BY DEF MAX_BYTES
<1>10. F[1] = b[1] % 2^p
  BY <1>8, <1>9 DEF ReadBy
<1>11. /\ F[2] = ReadBy(F, b, p, 2)
       /\ F[3] = ReadBy(F, b, p, 3)
       /\ F[4] = ReadBy(F, b, p, 4)
       /\ F[5] = ReadBy(F, b, p, 5)
  BY <1>8, <1>9
<1>12. 2 # 1 /\ 3 # 1 /\ 4 # 1 /\ 5 # 1
  OBVIOUS
<1> QED  BY <1>1, <1>10, <1>11, <1>12, Zenon DEF ReadBy, NextValue

(* A prefix takes two to the power of its size.                             *)
LEMMA Prefix ==
    ASSUME NEW p \in 1 .. 8
    PROVE  /\ 2^p - 1 \in Nat
           /\ 2^p - 1 <= 255
           /\ \A first \in Nat, x \in Nat :
                first % 2^p = 0 /\ x <= 2^p - 1 => (first + x) % 2^p = x
<1>1. p = 1 \/ p = 2 \/ p = 3 \/ p = 4 \/ p = 5 \/ p = 6 \/ p = 7 \/ p = 8
  OBVIOUS
<1> DEFINE Good(m) == /\ m - 1 \in Nat
                      /\ m - 1 <= 255
                      /\ \A first \in Nat, x \in Nat :
                           first % m = 0 /\ x <= m - 1 => (first + x) % m = x
<1>2. ASSUME NEW m \in Nat, m = 2^p, Good(m) PROVE Good(2^p)
  <2> HIDE DEF Good
  <2> QED  BY <1>2
<1> HIDE DEF Good
<1>3. Good(2^p)
  <2>1. CASE p = 1
    <3>1. PICK m \in Nat : m = 2
      OBVIOUS
    <3>2. m = 2^p
      <4>1. 2^1 = m
        BY <3>1, SMT
      <4> QED  BY <2>1, <4>1
    <3>3. Good(m)
      BY <3>1, SMT DEF Good
    <3> QED  BY <1>2, <3>2, <3>3
  <2>2. CASE p = 2
    <3>1. PICK m \in Nat : m = 4
      OBVIOUS
    <3>2. m = 2^p
      <4>1. 2^2 = m
        BY <3>1, SMT
      <4> QED  BY <2>2, <4>1
    <3>3. Good(m)
      BY <3>1, SMT DEF Good
    <3> QED  BY <1>2, <3>2, <3>3
  <2>3. CASE p = 3
    <3>1. PICK m \in Nat : m = 8
      OBVIOUS
    <3>2. m = 2^p
      <4>1. 2^3 = m
        BY <3>1, SMT
      <4> QED  BY <2>3, <4>1
    <3>3. Good(m)
      BY <3>1, SMT DEF Good
    <3> QED  BY <1>2, <3>2, <3>3
  <2>4. CASE p = 4
    <3>1. PICK m \in Nat : m = 16
      OBVIOUS
    <3>2. m = 2^p
      <4>1. 2^4 = m
        BY <3>1, SMT
      <4> QED  BY <2>4, <4>1
    <3>3. Good(m)
      BY <3>1, SMT DEF Good
    <3> QED  BY <1>2, <3>2, <3>3
  <2>5. CASE p = 5
    <3>1. PICK m \in Nat : m = 32
      OBVIOUS
    <3>2. m = 2^p
      <4>1. 2^5 = m
        BY <3>1, SMT
      <4> QED  BY <2>5, <4>1
    <3>3. Good(m)
      BY <3>1, SMT DEF Good
    <3> QED  BY <1>2, <3>2, <3>3
  <2>6. CASE p = 6
    <3>1. PICK m \in Nat : m = 64
      OBVIOUS
    <3>2. m = 2^p
      <4>1. 2^6 = m
        BY <3>1, SMT
      <4> QED  BY <2>6, <4>1
    <3>3. Good(m)
      BY <3>1, SMT DEF Good
    <3> QED  BY <1>2, <3>2, <3>3
  <2>7. CASE p = 7
    <3>1. PICK m \in Nat : m = 128
      OBVIOUS
    <3>2. m = 2^p
      <4>1. 2^7 = m
        BY <3>1, SMT
      <4> QED  BY <2>7, <4>1
    <3>3. Good(m)
      BY <3>1, SMT DEF Good
    <3> QED  BY <1>2, <3>2, <3>3
  <2>8. CASE p = 8
    <3>1. PICK m \in Nat : m = 256
      OBVIOUS
    <3>2. m = 2^p
      <4>1. 2^8 = m
        BY <3>1, SMT
      <4> QED  BY <2>8, <4>1
    <3>3. Good(m)
      BY <3>1, SMT DEF Good
    <3> QED  BY <1>2, <3>2, <3>3
  <2> QED  BY <1>1, <2>1, <2>2, <2>3, <2>4, <2>5, <2>6, <2>7, <2>8
<1> QED  BY <1>3 DEF Good

-----------------------------------------------------------------------------
(* What encode_int writes                                                   *)

(* The bits above the prefix, and room for the prefix below them.           *)
Above(first, p) == /\ first \in Nat
                   /\ first % 2^p = 0
                   /\ first + (2^p - 1) <= 255

(* A number that fills the prefix is w more than that.                      *)
Continued(enc, value, p, first, w, N) ==
    /\ value = (2^p - 1) + w
    /\ Flagged(Varint[w], N)
    /\ Varint[w] \in Seq(Octet)
    /\ Len(enc) = N + 2
    /\ enc[1] = first + (2^p - 1)
    /\ \A i \in 1 .. N + 1 : enc[i + 1] = Varint[w][i]

(* What the encoder writes: one octet, or a full prefix and flagged octets. *)
LEMMA EncodedShape ==
    ASSUME NEW value \in Nat, NEW p \in 1 .. 8, NEW first, Above(first, p),
           NEW enc, enc = encode_int(value, p, first)
    PROVE  /\ enc \in Seq(Octet)
           /\ value < 2^p - 1 =>
                Len(enc) = 1 /\ enc[1] = first + value
           /\ ~(value < 2^p - 1) =>
                \E w \in Nat, N \in Nat : Continued(enc, value, p, first, w, N)
<1>1. PICK low \in Nat : low = 2^p - 1 /\ low <= 255 /\ first + low <= 255
  BY Prefix DEF Above
<1>2. first \in Nat
  BY DEF Above
<1>3. CASE value < low
  <2>1. enc = <<first + value>>
    BY <1>1, <1>3 DEF encode_int, encode_int_one_byte
  <2>2. first + value \in Octet
    BY <1>1, <1>2, <1>3 DEF Octet
  <2>3. <<first + value>> \in Seq(Octet) /\ Len(<<first + value>>) = 1
    BY <2>2
  <2> QED  BY <1>1, <1>3, <2>1, <2>3
<1>4. CASE ~(value < low)
  <2>1. PICK w \in Nat : w = value - low /\ value = low + w
    <3>1. value - low \in Nat /\ value = low + (value - low)
      BY <1>4
    <3> QED  BY <3>1
  <2>2. enc = <<first + low>> \o Varint[w]
    BY <1>1, <1>4, <2>1 DEF encode_int, encode_int_one_byte
  <2>3. Varint[w] \in Seq(Octet)
    BY VarintShape DEF VarintShaped
  <2>4. PICK N \in Nat : Flagged(Varint[w], N)
    BY VarintShape DEF VarintShaped
  <2>5. PICK x \in Octet : x = first + low
    <3>1. first + low \in Octet
      BY <1>1, <1>2 DEF Octet
    <3> QED  BY <3>1
  <2>6. PICK n \in Nat : n = N + 1 /\ Len(Varint[w]) = n /\ n + 1 = N + 2
    <3>1. N + 1 \in Nat /\ (N + 1) + 1 = N + 2
      OBVIOUS
    <3> QED  BY <2>4, <3>1 DEF Flagged
  <2>7. /\ enc \in Seq(Octet)
        /\ Len(enc) = n + 1
        /\ enc[1] = x
        /\ \A i \in 1 .. n : enc[i + 1] = Varint[w][i]
    <3>1. /\ <<x>> \o Varint[w] \in Seq(Octet)
          /\ Len(<<x>> \o Varint[w]) = n + 1
          /\ (<<x>> \o Varint[w])[1] = x
          /\ \A i \in 1 .. n : (<<x>> \o Varint[w])[i + 1] = Varint[w][i]
      BY <2>3, <2>6, InFront
    <3> QED  BY <2>2, <2>5, <3>1
  <2>8. Continued(enc, value, p, first, w, N)
    BY <1>1, <2>1, <2>3, <2>4, <2>5, <2>6, <2>7 DEF Continued
  <2> QED  BY <1>1, <1>4, <2>7, <2>8
<1> QED  BY <1>3, <1>4

(* A sequence that begins with another one.                                 *)
Begins(b, enc) == \A i \in 1 .. Len(enc) : b[i] = enc[i]

(* b is enc and then rest.                                                  *)
Joined(b, enc, rest) == b = enc \o rest

(* What a concatenation begins with.                                        *)
LEMMA BeginsBy ==
    ASSUME NEW S, NEW enc \in Seq(S), NEW rest \in Seq(S),
           NEW b, Joined(b, enc, rest)
    PROVE  b \in Seq(S) /\ Len(b) = Len(enc) + Len(rest) /\ Begins(b, enc)
<1>1. PICK K \in Nat : K = Len(enc)
  BY LenProperties
<1>2. PICK M \in Nat : M = Len(rest)
  BY LenProperties
<1>3. /\ b \in Seq(S)
      /\ Len(b) = K + M
      /\ \A i \in 1 .. K + M : b[i] = IF i <= K THEN enc[i] ELSE rest[i - K]
  <2>1. /\ enc \o rest \in Seq(S)
        /\ Len(enc \o rest) = Len(enc) + Len(rest)
        /\ \A i \in 1 .. Len(enc) + Len(rest) :
             (enc \o rest)[i] = IF i <= Len(enc) THEN enc[i] ELSE rest[i - Len(enc)]
    BY ConcatProperties
  <2> QED  BY <1>1, <1>2, <2>1 DEF Joined
<1>4. ASSUME NEW i \in 1 .. K PROVE b[i] = enc[i]
  <2>1. i \in 1 .. K + M /\ i <= K
    OBVIOUS
  <2> QED  BY <1>3, <2>1
<1> QED  BY <1>1, <1>2, <1>3, <1>4 DEF Begins

-----------------------------------------------------------------------------
(* What decode_int reads                                                    *)

(* Something with a first octet is not empty.                               *)
LEMMA NotEmpty ==
    ASSUME NEW S, NEW b \in Seq(S), NEW n \in Nat, Len(b) = n, n >= 1
    PROVE  b # <<>>
<1>1. Len(<<>>) = 0
  OBVIOUS
<1> QED  BY <1>1

(* A prefix that is not full is the value.                                  *)
LEMMA ReadShort ==
    ASSUME NEW S, NEW b \in Seq(S), NEW L \in Nat, L = Len(b), L >= 1,
           NEW value \in Nat, NEW p \in 1 .. 8, NEW first, Above(first, p),
           value < 2^p - 1, b[1] = first + value
    PROVE  decode_int(b, p) = Ok(value, 1)
<1>1. PICK low \in Nat : low = 2^p - 1
  BY Prefix
<1>2. b[1] % 2^p = value
  <2>1. value <= 2^p - 1
    BY <1>1
  <2>2. first \in Nat /\ first % 2^p = 0
    BY DEF Above
  <2>3. (first + value) % 2^p = value
    BY <2>1, <2>2, Prefix
  <2> QED  BY <2>3
<1>3. ValueUpTo(b, p)[1] = value
  BY <1>2, ValueUpToDef
<1>4. b # <<>>
  BY NotEmpty
<1> QED  BY <1>3, <1>4 DEF decode_int

(* A full prefix is not.                                                    *)
LEMMA FullPrefix ==
    ASSUME NEW S, NEW b \in Seq(S), NEW L \in Nat, L = Len(b), L >= 1,
           NEW p \in 1 .. 8, NEW first, Above(first, p),
           b[1] = first + (2^p - 1)
    PROVE  /\ b # <<>>
           /\ ValueUpTo(b, p)[1] = 2^p - 1
           /\ ~(ValueUpTo(b, p)[1] < 2^p - 1)
<1>1. PICK low \in Nat : low = 2^p - 1
  BY Prefix
<1>2. b[1] % 2^p = low
  <2>1. low <= 2^p - 1
    BY <1>1
  <2>2. first \in Nat /\ first % 2^p = 0
    BY DEF Above
  <2>3. (first + low) % 2^p = low
    BY <2>1, <2>2, Prefix
  <2> QED  BY <1>1, <2>3
<1>3. ValueUpTo(b, p)[1] = low
  BY <1>2, ValueUpToDef
<1>4. ~(low < low)
  OBVIOUS
<1> QED  BY <1>1, <1>3, <1>4, NotEmpty

(* Without an end among the first five octets nothing is read.              *)
LEMMA NoEnd ==
    ASSUME NEW b, NEW K \in Nat, K <= Len(b),
           \A i \in 2 .. K : b[i] >= 128 /\ b[i] \in Nat,
           K = Len(b) \/ K >= 5, Len(b) \in Nat
    PROVE  Ends(b) = {}
<1> SUFFICES ASSUME NEW n \in Ends(b) PROVE FALSE
  OBVIOUS
<1>1. n \in 2 .. 5 /\ n <= Len(b) /\ b[n] < 128
  BY DEF Ends, MAX_BYTES
<1>2. n \in 2 .. K
  BY <1>1
<1>3. b[n] >= 128 /\ b[n] \in Nat
  BY <1>2
<1>4. \A x \in Nat : x >= 128 => ~(x < 128)
  OBVIOUS
<1> QED  BY <1>1, <1>3, <1>4

(* There is only one end.                                                   *)
LEMMA OneEnd ==
    ASSUME NEW b, NEW N \in Nat, N + 2 <= 5, N + 2 <= Len(b),
           \A i \in 2 .. N + 1 : b[i] >= 128 /\ b[i] \in Nat,
           b[N + 2] < 128, b[N + 2] \in Nat, Len(b) \in Nat
    PROVE  Ends(b) = {N + 2}
<1> DEFINE e == N + 2
<1>1. e \in Ends(b)
  <2>1. e \in 2 .. 5 /\ e - 1 = N + 1
    OBVIOUS
  <2> QED  BY <2>1 DEF Ends, MAX_BYTES
<1>2. ASSUME NEW n \in Ends(b) PROVE n = e
  <2>1. /\ n \in 2 .. 5 /\ n <= Len(b) /\ b[n] < 128
        /\ \A k \in 2 .. n - 1 : b[k] >= 128
    BY DEF Ends, MAX_BYTES
  <2>2. \A x \in Nat : x >= 128 => ~(x < 128)
    OBVIOUS
  <2>3. CASE n < e
    <3>1. n \in 2 .. N + 1
      BY <2>1, <2>3
    <3> QED  BY <2>1, <2>2, <3>1
  <2>4. CASE n > e
    <3>1. e \in 2 .. n - 1
      BY <2>1, <2>4
    <3> QED  BY <2>1, <2>2, <3>1
  <2>5. n = e \/ n < e \/ n > e
    BY <2>1
  <2> QED  BY <2>3, <2>4, <2>5
<1> QED  BY <1>1, <1>2

(* What b has after the first octet, as far as it goes.                     *)
AfterFirst(b, first, p, w, N, K) ==
    /\ \A i \in 1 .. N + 1 : i + 1 <= K => b[i + 1] = Varint[w][i]
    /\ \A i \in 2 .. K : b[i] \in Nat
    /\ \A i \in 2 .. K : i <= N + 1 => b[i] >= 128
    /\ K = N + 2 => b[N + 2] < 128
    /\ K >= 1 => b[1] = first + (2^p - 1)

(* The same octets, up to the K-th.                                         *)
SameUpTo(b, enc, K) == \A i \in 1 .. K : b[i] = enc[i]

(* After a full prefix come the octets of the rest.                         *)
LEMMA AfterPrefix ==
    ASSUME NEW b, NEW enc, NEW value, NEW p, NEW first,
           NEW w \in Nat, NEW N \in Nat, Continued(enc, value, p, first, w, N),
           NEW K \in Nat, K <= N + 2, SameUpTo(b, enc, K)
    PROVE  AfterFirst(b, first, p, w, N, K)
<1>0. \A i \in 1 .. K : b[i] = enc[i]
  BY DEF SameUpTo
<1>1. /\ Flagged(Varint[w], N)
      /\ Varint[w] \in Seq(Octet)
      /\ enc[1] = first + (2^p - 1)
      /\ \A i \in 1 .. N + 1 : enc[i + 1] = Varint[w][i]
  BY DEF Continued
<1>2. /\ Len(Varint[w]) = N + 1
      /\ \A i \in 1 .. N : Varint[w][i] >= 128
      /\ Varint[w][N + 1] < 128
  BY <1>1 DEF Flagged
<1>3. \A i \in 1 .. N + 1 : Varint[w][i] \in Nat
  <2>1. \A i \in 1 .. N + 1 : Varint[w][i] \in Octet
    BY <1>1, <1>2, ElementOfSeq
  <2>2. \A x \in Octet : x \in Nat
    BY DEF Octet
  <2> QED  BY <2>1, <2>2
<1>4. ASSUME NEW i \in 1 .. N + 1, i + 1 <= K PROVE b[i + 1] = Varint[w][i]
  <2>1. i + 1 \in 1 .. K
    BY <1>4
  <2> QED  BY <1>0, <1>1, <2>1
<1>5. ASSUME NEW i \in 2 .. K
      PROVE  /\ b[i] \in Nat
             /\ i <= N + 1 => b[i] >= 128
  <2>1. PICK j \in 1 .. N + 1 : i = j + 1 /\ j + 1 <= K
    <3>1. i - 1 \in 1 .. N + 1 /\ i = (i - 1) + 1 /\ (i - 1) + 1 <= K
      OBVIOUS
    <3> QED  BY <3>1
  <2>2. b[i] = Varint[w][j]
    BY <1>4, <2>1
  <2>3. i <= N + 1 => j \in 1 .. N
    BY <2>1
  <2> QED  BY <1>2, <1>3, <2>2, <2>3
<1>6. K = N + 2 => b[N + 2] < 128
  <2> SUFFICES ASSUME K = N + 2 PROVE b[N + 2] < 128
    OBVIOUS
  <2>1. N + 1 \in 1 .. N + 1 /\ (N + 1) + 1 <= K /\ (N + 1) + 1 = N + 2
    OBVIOUS
  <2>2. b[(N + 1) + 1] = Varint[w][N + 1]
    BY <1>4, <2>1
  <2>3. b[N + 2] = Varint[w][N + 1]
    BY <2>1, <2>2
  <2> QED  BY <1>2, <2>3
<1>7. K >= 1 => b[1] = first + (2^p - 1)
  BY <1>0, <1>1
<1> QED  BY <1>4, <1>5, <1>6, <1>7 DEF AfterFirst

(* After a full prefix, at most four octets are read as their value, and    *)
(* more are refused.                                                        *)
LEMMA ReadLong ==
    ASSUME NEW S, NEW b \in Seq(S), NEW L \in Nat, L = Len(b),
           NEW value \in Nat, NEW p \in 1 .. 8, NEW first, Above(first, p),
           NEW enc, NEW w \in Nat, NEW N \in Nat,
           Continued(enc, value, p, first, w, N), Begins(b, enc), N + 2 <= L
    PROVE  /\ N <= 3 => decode_int(b, p) = Ok(value, N + 2)
           /\ ~(N <= 3) => decode_int(b, p) = Err("integer overflow")
<1>1. PICK K \in Nat : K = N + 2
  OBVIOUS
<1>2. SameUpTo(b, enc, K)
  BY <1>1 DEF Begins, Continued, SameUpTo
<1>9. AfterFirst(b, first, p, w, N, K)
  <2>1. K <= N + 2
    BY <1>1
  <2> QED  BY <1>2, <2>1, AfterPrefix
<1>3. /\ \A i \in 1 .. N + 1 : i + 1 <= K => b[i + 1] = Varint[w][i]
      /\ \A i \in 2 .. K : b[i] \in Nat
      /\ \A i \in 2 .. K : i <= N + 1 => b[i] >= 128
      /\ b[N + 2] < 128
      /\ b[1] = first + (2^p - 1)
  BY <1>1, <1>9 DEF AfterFirst
<1>4. L >= 1
  OBVIOUS
<1>5. /\ b # <<>>
      /\ ValueUpTo(b, p)[1] = 2^p - 1
      /\ ~(ValueUpTo(b, p)[1] < 2^p - 1)
  BY <1>3, <1>4, FullPrefix
<1>6. CASE N <= 3
  <2>1. Ends(b) = {N + 2}
    <3>1. N + 2 <= 5 /\ N + 2 <= Len(b) /\ Len(b) \in Nat
      BY <1>6
    <3>2. ASSUME NEW i \in 2 .. N + 1 PROVE b[i] >= 128 /\ b[i] \in Nat
      <4>1. i \in 2 .. K /\ i <= N + 1
        BY <1>1
      <4> QED  BY <1>3, <4>1
    <3>3. b[N + 2] < 128 /\ b[N + 2] \in Nat
      <4>1. N + 2 \in 2 .. K
        BY <1>1
      <4> QED  BY <1>3, <4>1
    <3> QED  BY <3>1, <3>2, <3>3, OneEnd
  <2>2. ValueUpTo(b, p)[N + 2] = value
    <3>1. PICK low \in Nat : low = 2^p - 1 /\ value = low + w
      BY Prefix DEF Continued
    <3>2. /\ NextValue(b, p, 2)
          /\ NextValue(b, p, 3)
          /\ NextValue(b, p, 4)
          /\ NextValue(b, p, 5)
      BY ValueUpToDef, Zenon
    <3>3. Takes(w, N + 1)
      BY DEF Takes, Continued, Flagged
    <3>4. ASSUME NEW i \in 1 .. N + 1
          PROVE  /\ b[i + 1] % 128 = Digit(Varint[w], i)
                 /\ Digit(Varint[w], i) \in Nat
      <4>1. i + 1 <= K
        BY <1>1
      <4>2. b[i + 1] = Varint[w][i]
        BY <1>3, <4>1
      <4>3. PICK m \in Nat : m = N + 1
        OBVIOUS
      <4>4. Digit(Varint[w], i) \in Nat
        BY <3>3, <4>3, Digits
      <4> QED  BY <4>2, <4>4 DEF Digit
    <3>5. CASE N = 0
      <4>1. PICK d1 \in Nat : d1 = Digit(Varint[w], 1) /\ d1 = b[2] % 128
        <5>1. 1 \in 1 .. N + 1 /\ 1 + 1 = 2
          BY <3>5
        <5> QED  BY <3>4, <5>1
      <4>2. w = d1
        <5>1. Takes(w, 1)
          BY <3>3, <3>5
        <5> QED  BY <5>1, <4>1, OneDigit
      <4>3. ValueUpTo(b, p)[2] = low + d1 * 1
        <5>1. ValueUpTo(b, p)[1] = low
          BY <1>5, <3>1
        <5>2. ValueUpTo(b, p)[2] = ValueUpTo(b, p)[1] + d1 * 1
          BY <4>1, <3>2, SMT DEF NextValue
        <5>3. ValueUpTo(b, p)[2] = low + d1 * 1
          BY <5>1, <5>2, SMT
        <5> QED  BY <5>3
      <4> QED  BY <3>1, <3>5, <4>2, <4>3, SMT
    <3>6. CASE N = 1
      <4>1. PICK d1 \in Nat : d1 = Digit(Varint[w], 1) /\ d1 = b[2] % 128
        <5>1. 1 \in 1 .. N + 1 /\ 1 + 1 = 2
          BY <3>6
        <5> QED  BY <3>4, <5>1
      <4>2. PICK d2 \in Nat : d2 = Digit(Varint[w], 2) /\ d2 = b[3] % 128
        <5>1. 2 \in 1 .. N + 1 /\ 2 + 1 = 3
          BY <3>6
        <5> QED  BY <3>4, <5>1
      <4>3. w = d1 + 128 * d2
        <5>1. Takes(w, 2)
          BY <3>3, <3>6
        <5> QED  BY <5>1, <4>1, <4>2, TwoDigits
      <4>4. ValueUpTo(b, p)[3] = low + d1 * 1 + d2 * 128
        <5>1. ValueUpTo(b, p)[1] = low
          BY <1>5, <3>1
        <5>2. ValueUpTo(b, p)[2] = ValueUpTo(b, p)[1] + d1 * 1
          BY <4>1, <3>2, SMT DEF NextValue
        <5>3. ValueUpTo(b, p)[2] = low + d1 * 1
          BY <5>1, <5>2, SMT
        <5>4. ValueUpTo(b, p)[3] = ValueUpTo(b, p)[2] + d2 * 128
          BY <4>2, <3>2, SMT DEF NextValue
        <5>5. ValueUpTo(b, p)[3] = low + d1 * 1 + d2 * 128
          BY <5>3, <5>4, SMT
        <5> QED  BY <5>5
      <4> QED  BY <3>1, <3>6, <4>3, <4>4, SMT
    <3>7. CASE N = 2
      <4>1. PICK d1 \in Nat : d1 = Digit(Varint[w], 1) /\ d1 = b[2] % 128
        <5>1. 1 \in 1 .. N + 1 /\ 1 + 1 = 2
          BY <3>7
        <5> QED  BY <3>4, <5>1
      <4>2. PICK d2 \in Nat : d2 = Digit(Varint[w], 2) /\ d2 = b[3] % 128
        <5>1. 2 \in 1 .. N + 1 /\ 2 + 1 = 3
          BY <3>7
        <5> QED  BY <3>4, <5>1
      <4>3. PICK d3 \in Nat : d3 = Digit(Varint[w], 3) /\ d3 = b[4] % 128
        <5>1. 3 \in 1 .. N + 1 /\ 3 + 1 = 4
          BY <3>7
        <5> QED  BY <3>4, <5>1
      <4>4. w = d1 + 128 * (d2 + 128 * d3)
        <5>1. Takes(w, 3)
          BY <3>3, <3>7
        <5> QED  BY <5>1, <4>1, <4>2, <4>3, ThreeDigits
      <4>5. ValueUpTo(b, p)[4] = low + d1 * 1 + d2 * 128 + d3 * 16384
        <5>1. ValueUpTo(b, p)[1] = low
          BY <1>5, <3>1
        <5>2. ValueUpTo(b, p)[2] = ValueUpTo(b, p)[1] + d1 * 1
          BY <4>1, <3>2, SMT DEF NextValue
        <5>3. ValueUpTo(b, p)[2] = low + d1 * 1
          BY <5>1, <5>2, SMT
        <5>4. ValueUpTo(b, p)[3] = ValueUpTo(b, p)[2] + d2 * 128
          BY <4>2, <3>2, SMT DEF NextValue
        <5>5. ValueUpTo(b, p)[3] = low + d1 * 1 + d2 * 128
          BY <5>3, <5>4, SMT
        <5>6. ValueUpTo(b, p)[4] = ValueUpTo(b, p)[3] + d3 * 16384
          BY <4>3, <3>2, SMT DEF NextValue
        <5>7. ValueUpTo(b, p)[4] = low + d1 * 1 + d2 * 128 + d3 * 16384
          BY <5>5, <5>6, SMT
        <5> QED  BY <5>7
      <4> QED  BY <3>1, <3>7, <4>4, <4>5, SMT
    <3>8. CASE N = 3
      <4>1. PICK d1 \in Nat : d1 = Digit(Varint[w], 1) /\ d1 = b[2] % 128
        <5>1. 1 \in 1 .. N + 1 /\ 1 + 1 = 2
          BY <3>8
        <5> QED  BY <3>4, <5>1
      <4>2. PICK d2 \in Nat : d2 = Digit(Varint[w], 2) /\ d2 = b[3] % 128
        <5>1. 2 \in 1 .. N + 1 /\ 2 + 1 = 3
          BY <3>8
        <5> QED  BY <3>4, <5>1
      <4>3. PICK d3 \in Nat : d3 = Digit(Varint[w], 3) /\ d3 = b[4] % 128
        <5>1. 3 \in 1 .. N + 1 /\ 3 + 1 = 4
          BY <3>8
        <5> QED  BY <3>4, <5>1
      <4>4. PICK d4 \in Nat : d4 = Digit(Varint[w], 4) /\ d4 = b[5] % 128
        <5>1. 4 \in 1 .. N + 1 /\ 4 + 1 = 5
          BY <3>8
        <5> QED  BY <3>4, <5>1
      <4>5. w = d1 + 128 * (d2 + 128 * (d3 + 128 * d4))
        <5>1. Takes(w, 4)
          BY <3>3, <3>8
        <5> QED  BY <5>1, <4>1, <4>2, <4>3, <4>4, FourDigits
      <4>6. ValueUpTo(b, p)[5] = low + d1 * 1 + d2 * 128 + d3 * 16384 + d4 * 2097152
        <5>1. ValueUpTo(b, p)[1] = low
          BY <1>5, <3>1
        <5>2. ValueUpTo(b, p)[2] = ValueUpTo(b, p)[1] + d1 * 1
          BY <4>1, <3>2, SMT DEF NextValue
        <5>3. ValueUpTo(b, p)[2] = low + d1 * 1
          BY <5>1, <5>2, SMT
        <5>4. ValueUpTo(b, p)[3] = ValueUpTo(b, p)[2] + d2 * 128
          BY <4>2, <3>2, SMT DEF NextValue
        <5>5. ValueUpTo(b, p)[3] = low + d1 * 1 + d2 * 128
          BY <5>3, <5>4, SMT
        <5>6. ValueUpTo(b, p)[4] = ValueUpTo(b, p)[3] + d3 * 16384
          BY <4>3, <3>2, SMT DEF NextValue
        <5>7. ValueUpTo(b, p)[4] = low + d1 * 1 + d2 * 128 + d3 * 16384
          BY <5>5, <5>6, SMT
        <5>8. ValueUpTo(b, p)[5] = ValueUpTo(b, p)[4] + d4 * 2097152
          BY <4>4, <3>2, SMT DEF NextValue
        <5>9. ValueUpTo(b, p)[5] = low + d1 * 1 + d2 * 128 + d3 * 16384 + d4 * 2097152
          BY <5>7, <5>8, SMT
        <5> QED  BY <5>9
      <4> QED  BY <3>1, <3>8, <4>5, <4>6, SMT
    <3>9. N = 0 \/ N = 1 \/ N = 2 \/ N = 3
      BY <1>6
    <3> QED  BY <3>5, <3>6, <3>7, <3>8, <3>9
  <2>3. Ends(b) # {} /\ (CHOOSE n \in Ends(b) : TRUE) = N + 2
    BY <2>1
  <2>4. decode_int(b, p) = Ok(ValueUpTo(b, p)[N + 2], N + 2)
    BY <1>5, <2>3 DEF decode_int
  <2> QED  BY <1>6, <2>2, <2>4
<1>7. CASE ~(N <= 3)
  <2>1. Ends(b) = {}
    <3>1. PICK M \in Nat : M = 5 /\ M <= Len(b) /\ M >= 5
      BY <1>7
    <3>2. ASSUME NEW i \in 2 .. M PROVE b[i] >= 128 /\ b[i] \in Nat
      <4>1. i \in 2 .. K /\ i <= N + 1
        BY <1>1, <1>7, <3>1
      <4> QED  BY <1>3, <4>1
    <3> QED  BY <3>1, <3>2, NoEnd
  <2>2. ~(Len(b) < MAX_BYTES)
    BY <1>7 DEF MAX_BYTES
  <2>3. decode_int(b, p) = Err("integer overflow")
    BY <1>5, <2>1, <2>2 DEF decode_int
  <2> QED  BY <1>7, <2>3
<1> QED  BY <1>6, <1>7

(* An integer whose last octets are missing is not read.                    *)
LEMMA ReadCut ==
    ASSUME NEW S, NEW b \in Seq(S), NEW L \in Nat, L = Len(b), L >= 1,
           NEW value \in Nat, NEW p \in 1 .. 8, NEW first, Above(first, p),
           NEW enc, NEW w \in Nat, NEW N \in Nat,
           Continued(enc, value, p, first, w, N),
           L <= N + 1, SameUpTo(b, enc, L)
    PROVE  decode_int(b, p).err # "none"
<1>0. AfterFirst(b, first, p, w, N, L)
  <2>1. L <= N + 2
    OBVIOUS
  <2> QED  BY <2>1, AfterPrefix
<1>1. /\ \A i \in 2 .. L : b[i] \in Nat
      /\ \A i \in 2 .. L : i <= N + 1 => b[i] >= 128
      /\ b[1] = first + (2^p - 1)
  BY <1>0 DEF AfterFirst
<1>2. /\ b # <<>>
      /\ ~(ValueUpTo(b, p)[1] < 2^p - 1)
  BY <1>1, FullPrefix
<1>3. Ends(b) = {}
  <2>1. \A i \in 2 .. L : b[i] >= 128 /\ b[i] \in Nat
    BY <1>1
  <2> QED  BY <2>1, NoEnd
<1>4. decode_int(b, p) = Err("panic") \/ decode_int(b, p) = Err("integer overflow")
  BY <1>2, <1>3 DEF decode_int
<1>5. Err("panic").err # "none" /\ Err("integer overflow").err # "none"
  BY DEF Err
<1> QED  BY <1>4, <1>5, Zenon

-----------------------------------------------------------------------------
(* Integers are read as they are written                                    *)

(* The largest values of five octets.                                       *)
Limit(p) == 2^28 + (2^p - 1)

(* They are those of which the rest takes four octets.                      *)
LEMMA LimitByLength ==
    ASSUME NEW value \in Nat, NEW p \in 1 .. 8, NEW first, NEW enc,
           NEW w \in Nat, NEW N \in Nat, Continued(enc, value, p, first, w, N)
    PROVE  N <= 3 <=> value < Limit(p)
<1>1. PICK low \in Nat : low = 2^p - 1 /\ value = low + w
  BY Prefix DEF Continued
<1>2. PICK n \in Nat : n = N + 1 /\ Takes(w, n)
  <2>1. N + 1 \in Nat /\ Takes(w, N + 1)
    BY DEF Takes, Continued, Flagged
  <2> QED  BY <2>1
<1>3. n <= 4 <=> w < 2^28
  BY <1>2, VarintLength
<1>4. Limit(p) = 2^28 + low
  BY <1>1, Zenon DEF Limit
<1>5. value < 2^28 + low <=> w < 2^28
  BY <1>1, SMT
<1> QED  BY <1>2, <1>3, <1>4, <1>5

(* What the decoder makes of the octets of a value.                         *)
IntegerResult(value, p, adv) ==
    IF value < Limit(p) THEN Ok(value, adv) ELSE Err("integer overflow")

(* What encode_int writes, decode_int reads: the value, and how many octets *)
(* it takes, for every value that five octets have room for; larger values  *)
(* are refused.                                                             *)
THEOREM IntegerAsSent ==
    ASSUME NEW S, Octet \subseteq S, NEW rest \in Seq(S),
           NEW value \in Nat, NEW p \in 1 .. 8, NEW first, Above(first, p)
    PROVE  decode_int(encode_int(value, p, first) \o rest, p)
             = IntegerResult(value, p, Len(encode_int(value, p, first)))
<1>1. PICK enc : enc = encode_int(value, p, first)
  OBVIOUS
<1>2. /\ enc \in Seq(Octet)
      /\ value < 2^p - 1 => Len(enc) = 1 /\ enc[1] = first + value
      /\ ~(value < 2^p - 1) =>
           \E w \in Nat, N \in Nat : Continued(enc, value, p, first, w, N)
  BY <1>1, EncodedShape
<1>3. enc \in Seq(S)
  BY <1>2, SeqMonotonic
<1>4. PICK b : Joined(b, enc, rest)
  BY DEF Joined
<1>5. b \in Seq(S) /\ Len(b) = Len(enc) + Len(rest) /\ Begins(b, enc)
  BY <1>3, <1>4, BeginsBy
<1>6. PICK K \in Nat, L \in Nat : K = Len(enc) /\ L = Len(b) /\ K <= L
  <2>1. Len(enc) \in Nat /\ Len(rest) \in Nat
    BY <1>3, LenProperties
  <2>2. Len(enc) + Len(rest) \in Nat /\ Len(enc) <= Len(enc) + Len(rest)
    BY <2>1
  <2> QED  BY <1>5, <2>1, <2>2
<1>7. decode_int(b, p) = IntegerResult(value, p, K)
  <2>1. CASE value < 2^p - 1
    <3>1. K = 1 /\ enc[1] = first + value /\ L >= 1
      BY <1>2, <1>6, <2>1
    <3>2. b[1] = first + value
      <4>1. 1 \in 1 .. Len(enc)
        BY <1>6, <3>1
      <4> QED  BY <1>5, <3>1, <4>1 DEF Begins
    <3>3. decode_int(b, p) = Ok(value, 1)
      BY <1>5, <1>6, <2>1, <3>1, <3>2, ReadShort
    <3>4. value < Limit(p)
      <4>1. PICK low \in Nat : low = 2^p - 1
        BY Prefix
      <4>2. value < 2^28 + low
        BY <2>1, <4>1, SMT
      <4> QED  BY <4>1, <4>2, Zenon DEF Limit
    <3> QED  BY <3>1, <3>3, <3>4, Zenon DEF IntegerResult
  <2>2. CASE ~(value < 2^p - 1)
    <3>1. PICK w \in Nat, N \in Nat : Continued(enc, value, p, first, w, N)
      BY <1>2, <2>2
    <3>2. K = N + 2 /\ N + 2 <= L
      BY <1>6, <3>1 DEF Continued
    <3>3. /\ N <= 3 => decode_int(b, p) = Ok(value, N + 2)
          /\ ~(N <= 3) => decode_int(b, p) = Err("integer overflow")
      BY <1>5, <1>6, <3>1, <3>2, ReadLong
    <3>4. N <= 3 <=> value < Limit(p)
      BY <3>1, LimitByLength
    <3> QED  BY <3>2, <3>3, <3>4, Zenon DEF IntegerResult
  <2> QED  BY <2>1, <2>2
<1> QED  BY <1>1, <1>4, <1>6, <1>7, Zenon DEF Joined

-----------------------------------------------------------------------------
(* Reading at a place in the block of which the end may be missing: b has   *)
(* arrived, cut has not, and the client wrote enc first and rest after it.  *)

(* What is left once enc has been read.                                     *)
Remains(S, b, cut, enc, rest) ==
    /\ From(b, Len(enc)) \in Seq(S)
    /\ Joined(b, enc, From(b, Len(enc)))
    /\ Len(From(b, Len(enc))) = Len(b) - Len(enc)
    /\ Joined(rest, From(b, Len(enc)), cut)

(* Once it has arrived whole, enc is in front of what remains.              *)
LEMMA Cutting ==
    ASSUME NEW S, NEW b \in Seq(S), NEW cut \in Seq(S), NEW enc \in Seq(S),
           NEW rest \in Seq(S), SameWhole(b, cut, enc, rest), Len(enc) <= Len(b)
    PROVE  Remains(S, b, cut, enc, rest)
<1>1. PICK K \in Nat : K = Len(enc) /\ K <= Len(b)
  BY LenProperties
<1>2. PICK front \in Seq(S), more \in Seq(S) :
        /\ front = SubSeq(b, 1, K)
        /\ more = SubSeq(b, K + 1, Len(b))
        /\ Len(front) = K
        /\ front \o more = b
  <2>1. /\ SubSeq(b, 1, K) \in Seq(S)
        /\ Len(SubSeq(b, 1, K)) = K
        /\ SubSeq(b, K + 1, Len(b)) \in Seq(S)
        /\ SubSeq(b, 1, K) \o SubSeq(b, K + 1, Len(b)) = b
    BY <1>1, Parts, ZenonT(60)
  <2> QED  BY <2>1, Zenon
<1>3. more \o cut \in Seq(S)
  BY ConcatProperties
<1>4. SameWhole(front, more \o cut, enc, rest)
  <2>1. Regroups(front, more, cut)
    BY Regroup
  <2> QED  BY <1>2, <2>1, Zenon DEF Regroups, SameWhole
<1>5. front = enc /\ more \o cut = rest
  <2>1. Len(front) = Len(enc)
    BY <1>1, <1>2
  <2> QED  BY <1>3, <1>4, <2>1, SameCut
<1>6. From(b, Len(enc)) = more
  BY <1>1, <1>2 DEF From
<1>7. Len(more) = Len(b) - Len(enc)
  <2>1. Len(SubSeq(b, K + 1, Len(b))) = Len(b) - K
    BY <1>1, Parts
  <2> QED  BY <1>1, <1>2, <2>1
<1> QED  BY <1>2, <1>5, <1>6, <1>7, Zenon DEF Remains, Joined

(* What has arrived of enc is as the client wrote it.                       *)
LEMMA SameBeginning ==
    ASSUME NEW S, NEW b \in Seq(S), NEW cut \in Seq(S), NEW enc \in Seq(S),
           NEW rest \in Seq(S), SameWhole(b, cut, enc, rest),
           NEW L \in Nat, L <= Len(b), L <= Len(enc)
    PROVE  SameUpTo(b, enc, L)
<1>1. PICK both : both = b \o cut /\ both = enc \o rest
  BY DEF SameWhole
<1>2. Begins(both, b) /\ Begins(both, enc)
  <2>1. Joined(both, b, cut) /\ Joined(both, enc, rest)
    BY <1>1, Zenon DEF Joined
  <2> QED  BY <2>1, BeginsBy
<1>3. PICK K \in Nat, M \in Nat : K = Len(b) /\ M = Len(enc)
  BY LenProperties
<1>4. ASSUME NEW i \in 1 .. L PROVE b[i] = enc[i]
  <2>1. i \in 1 .. K /\ i \in 1 .. M
    BY <1>3
  <2>2. both[i] = b[i] /\ both[i] = enc[i]
    BY <1>2, <1>3, <2>1 DEF Begins
  <2> QED  BY <2>2
<1> QED  BY <1>4 DEF SameUpTo

(* A result that is no error took the octets of enc.                        *)
Takes1(result, enc, b) ==
    result.err = "none" => result.adv = Len(enc) /\ Len(enc) <= Len(b)

(* ... and gave the value.                                                  *)
ReadsInteger(result, value, enc, b) ==
    /\ Takes1(result, enc, b)
    /\ result.err = "none" => result.value = value

(* Errors are not results ...                                               *)
LEMMA ErrIsError ==
    /\ Err("integer overflow").err # "none"
    /\ Err("need more").err # "none"
    /\ Err("panic").err # "none"
    /\ Err("invalid index").err # "none"
    /\ Err("invalid huffman").err # "none"
BY DEF Err

(* ... and results are no errors.                                           *)
LEMMA OkIsOk == \A value, adv : /\ Ok(value, adv).err = "none"
                                /\ Ok(value, adv).value = value
                                /\ Ok(value, adv).adv = adv
BY DEF Ok

(* With all its octets there, it is read if it is not too large.            *)
Succeeds(result, fine, enc, b) == fine /\ Len(enc) <= Len(b) => result.err = "none"

(* What fits takes four octets after the prefix at most.                    *)
LEMMA FitsLimit ==
    ASSUME NEW n \in Nat, NEW p \in 1 .. 8, Fits(n) PROVE n < Limit(p)
<1>1. PICK low \in Nat : low = 2^p - 1
  BY Prefix
<1>2. n < 2^28 + low
  BY <1>1, SMT DEF Fits
<1> QED  BY <1>1, <1>2, Zenon DEF Limit

(* An integer in the block is read with its value and all its octets, or not *)
(* at all.                                                                  *)
LEMMA IntegerRead ==
    ASSUME NEW S, Octet \subseteq S,
           NEW b \in Seq(S), NEW cut \in Seq(S), NEW rest \in Seq(S),
           NEW value \in Nat, NEW p \in 1 .. 8, NEW first, Above(first, p),
           NEW enc, enc = encode_int(value, p, first),
           SameWhole(b, cut, enc, rest)
    PROVE  /\ enc \in Seq(S) /\ enc \in Seq(Octet)
           /\ ReadsInteger(decode_int(b, p), value, enc, b)
           /\ Succeeds(decode_int(b, p), Fits(value), enc, b)
<1>1. /\ enc \in Seq(Octet)
      /\ value < 2^p - 1 => Len(enc) = 1 /\ enc[1] = first + value
      /\ ~(value < 2^p - 1) =>
           \E w \in Nat, N \in Nat : Continued(enc, value, p, first, w, N)
  BY EncodedShape
<1>2. enc \in Seq(S)
  BY <1>1, SeqMonotonic
<1>3. PICK K \in Nat, L \in Nat : K = Len(enc) /\ L = Len(b)
  BY <1>2, LenProperties
<1>4. CASE K <= L
  <2>1. From(b, Len(enc)) \in Seq(S) /\ Joined(b, enc, From(b, Len(enc)))
    <3>1. Len(enc) <= Len(b)
      BY <1>3, <1>4
    <3>2. Remains(S, b, cut, enc, rest)
      BY <1>2, <3>1, Cutting
    <3> QED  BY <3>2 DEF Remains
  <2>2. decode_int(b, p) = IntegerResult(value, p, Len(enc))
    <3>1. PICK more \in Seq(S) : more = From(b, Len(enc))
      BY <2>1
    <3>2. decode_int(encode_int(value, p, first) \o more, p)
            = IntegerResult(value, p, Len(encode_int(value, p, first)))
      BY IntegerAsSent
    <3> QED  BY <2>1, <3>1, <3>2, Zenon DEF Joined
  <2>3. decode_int(b, p) = Ok(value, Len(enc))
        \/ decode_int(b, p) = Err("integer overflow")
    BY <2>2, Zenon DEF IntegerResult
  <2>4. /\ decode_int(b, p).err = "none" => decode_int(b, p).value = value
        /\ decode_int(b, p).err = "none" => decode_int(b, p).adv = Len(enc)
    <3>1. CASE decode_int(b, p) = Ok(value, Len(enc))
      <4>1. /\ Ok(value, Len(enc)).value = value
            /\ Ok(value, Len(enc)).adv = Len(enc)
        BY OkIsOk
      <4> QED  BY <3>1, <4>1
    <3>2. CASE decode_int(b, p) = Err("integer overflow")
      <4>1. decode_int(b, p).err # "none"
        BY <3>2, ErrIsError
      <4> QED  BY <4>1, Zenon
    <3> QED  BY <2>3, <3>1, <3>2
  <2>5. Fits(value) => decode_int(b, p).err = "none"
    <3>1. ASSUME Fits(value) PROVE decode_int(b, p) = Ok(value, Len(enc))
      <4>1. value < Limit(p)
        BY <3>1, FitsLimit
      <4> QED  BY <2>2, <4>1, Zenon DEF IntegerResult
    <3>2. Ok(value, Len(enc)).err = "none"
      BY OkIsOk
    <3> QED  BY <3>1, <3>2, Zenon
  <2> QED  BY <1>1, <1>2, <1>3, <1>4, <2>4, <2>5 DEF Takes1, ReadsInteger, Succeeds
<1>5. CASE ~(K <= L)
  <2>1. L <= K /\ L + 1 <= K
    BY <1>5
  <2>2. SameUpTo(b, enc, L)
    BY <1>2, <1>3, <2>1, SameBeginning
  <2>3. decode_int(b, p).err # "none"
    <3>1. CASE L = 0
      <4>1. b = <<>>
        BY <1>3, <3>1, EmptySeq
      <4>2. decode_int(b, p) = Err("need more")
        BY <4>1 DEF decode_int
      <4> QED  BY <4>2, ErrIsError, Zenon
    <3>2. CASE L # 0
      <4>1. L >= 1 /\ K >= 2
        BY <1>5, <3>2
      <4>2. ~(value < 2^p - 1)
        BY <1>1, <1>3, <4>1
      <4>3. PICK w \in Nat, N \in Nat : Continued(enc, value, p, first, w, N)
        BY <1>1, <4>2
      <4>4. L <= N + 1
        BY <1>3, <2>1, <4>3 DEF Continued
      <4> QED  BY <1>3, <2>2, <4>1, <4>3, <4>4, ReadCut
    <3> QED  BY <3>1, <3>2
  <2> QED  BY <1>1, <1>2, <1>3, <1>5, <2>3 DEF Takes1, ReadsInteger, Succeeds
<1> QED  BY <1>4, <1>5

-----------------------------------------------------------------------------
(* Strings                                                                  *)

(* The first octet says whether the string is Huffman coded.                *)
StringFirst == {0, 128}

(* Both first octets of a string leave room for its length.                 *)
LEMMA StringAbove == \A first \in StringFirst : first \in Nat /\ Above(first, 7)
<1>1. 2^7 = 128
  BY SMT
<1> QED  BY <1>1 DEF Above, StringFirst

(* The first part of what the client wrote, with the rest of it put to what *)
(* follows.                                                                 *)
LEMMA JoinedAs ==
    ASSUME NEW S, NEW a \in Seq(S), NEW c \in Seq(S), NEW rest \in Seq(S),
           NEW b, NEW cut, NEW enc,
           Joined(enc, a, c), SameWhole(b, cut, enc, rest)
    PROVE  /\ c \o rest \in Seq(S)
           /\ SameWhole(b, cut, a, c \o rest)
<1>1. c \o rest \in Seq(S)
  BY ConcatProperties
<1>2. Regroups(a, c, rest)
  BY Regroup
<1> QED  BY <1>1, <1>2, Zenon DEF Regroups, Joined, SameWhole

(* The length of two parts.                                                 *)
LEMMA JoinedLength ==
    ASSUME NEW S, NEW a \in Seq(S), NEW c \in Seq(S), NEW enc, Joined(enc, a, c)
    PROVE  enc \in Seq(S) /\ Len(enc) = Len(a) + Len(c)
BY BeginsBy

(* The first octet has the bits of `first` and a prefix.                    *)
FirstOf(enc, first, p, x) == /\ x <= 2^p - 1
                             /\ enc[1] = first + x
                             /\ Len(enc) \in Nat
                             /\ Len(enc) >= 1

(* Every integer begins with the bits above the prefix.                     *)
LEMMA FirstOctet ==
    ASSUME NEW value \in Nat, NEW p \in 1 .. 8, NEW first, Above(first, p),
           NEW enc, enc = encode_int(value, p, first)
    PROVE  \E x \in Nat : FirstOf(enc, first, p, x)
<1>1. /\ enc \in Seq(Octet)
      /\ value < 2^p - 1 => Len(enc) = 1 /\ enc[1] = first + value
      /\ ~(value < 2^p - 1) =>
           \E w \in Nat, N \in Nat : Continued(enc, value, p, first, w, N)
  BY EncodedShape
<1>2. PICK low \in Nat : low = 2^p - 1
  BY Prefix
<1>3. CASE value < low
  <2>1. value <= low /\ Len(enc) = 1 /\ enc[1] = first + value
    BY <1>1, <1>2, <1>3
  <2> QED  BY <1>2, <2>1 DEF FirstOf
<1>4. CASE ~(value < low)
  <2>1. PICK w \in Nat, N \in Nat : Continued(enc, value, p, first, w, N)
    BY <1>1, <1>2, <1>4
  <2>2. Len(enc) = N + 2 /\ enc[1] = first + low
    BY <1>2, <2>1 DEF Continued
  <2>3. N + 2 \in Nat /\ N + 2 >= 1 /\ low <= low
    OBVIOUS
  <2> QED  BY <1>2, <2>2, <2>3 DEF FirstOf
<1> QED  BY <1>3, <1>4

(* What the decoder makes of the octets of a string.                        *)
StringResult(s, first, adv) ==
    IF Len(s) < Limit(7) THEN Ok(OutStr(first = 128, s), adv)
                         ELSE Err("integer overflow")

(* A string is read as it is written, with its octets and whether they are  *)
(* Huffman coded, whatever comes after it.                                  *)
THEOREM StringAsSent ==
    ASSUME NEW S, Octet \subseteq S, NEW rest \in Seq(S),
           NEW s \in Seq(S), NEW first \in StringFirst, NEW enc,
           Joined(enc, encode_int(Len(s), 7, first), s)
    PROVE  decode_string(enc \o rest) = StringResult(s, first, Len(enc))
<1>1. PICK n \in Nat : n = Len(s)
  BY LenProperties
<1>2. PICK p \in 1 .. 8 : p = 7
  OBVIOUS
<1>3. Above(first, p) /\ first \in Nat
  BY <1>2, StringAbove
<1>4. PICK ei : ei = encode_int(n, p, first)
  OBVIOUS
<1>5. ei \in Seq(S)
  <2>1. ei \in Seq(Octet)
    BY <1>3, <1>4, EncodedShape
  <2> QED  BY <2>1, SeqMonotonic
<1>6. Joined(enc, ei, s)
  BY <1>1, <1>2, <1>4
<1>7. enc \in Seq(S) /\ Len(enc) = Len(ei) + n
  <2>1. enc \in Seq(S) /\ Len(enc) = Len(ei) + Len(s)
    BY <1>5, <1>6, JoinedLength
  <2> QED  BY <1>1, <2>1
<1>8. PICK K \in Nat : K = Len(ei) /\ K >= 1
  BY <1>3, <1>4, FirstOctet DEF FirstOf
<1>9. PICK b \in Seq(S) : Joined(b, enc, rest)
  <2>1. enc \o rest \in Seq(S)
    BY <1>7, ConcatProperties
  <2> QED  BY <2>1 DEF Joined
<1>10. PICK L \in Nat : L = Len(b) /\ K + n <= L
  <2>1. Len(b) = Len(enc) + Len(rest) /\ Len(rest) \in Nat
    BY <1>7, <1>9, BeginsBy, LenProperties
  <2> QED  BY <1>7, <1>8, <2>1
<1>11. PICK more \in Seq(S) : /\ more = s \o rest
                             /\ Joined(b, ei, more)
  <2>1. s \o rest \in Seq(S)
    BY ConcatProperties
  <2>2. Regroups(ei, s, rest)
    BY <1>5, Regroup
  <2> QED  BY <1>6, <1>9, <2>1, <2>2, Zenon DEF Regroups, Joined
<1>12. decode_int(b, 7) = IntegerResult(n, 7, K)
  <2>1. decode_int(encode_int(n, p, first) \o more, p)
          = IntegerResult(n, p, Len(encode_int(n, p, first)))
    BY <1>3, IntegerAsSent
  <2> QED  BY <1>2, <1>4, <1>8, <1>11, <2>1, Zenon DEF Joined
<1>13. b # <<>>
  BY <1>8, <1>10
<1>14. CASE ~(n < Limit(7))
  <2>1. decode_int(b, 7) = Err("integer overflow")
    BY <1>12, <1>14, Zenon DEF IntegerResult
  <2>2. Err("integer overflow").err # "none"
    BY ErrIsError
  <2>3. decode_string(b) = Err("integer overflow")
    BY <1>13, <2>1, <2>2 DEF decode_string, Then
  <2> QED  BY <1>1, <1>9, <1>14, <2>3, Zenon DEF StringResult, Joined
<1>15. CASE n < Limit(7)
  <2>1. decode_int(b, 7) = Ok(n, K)
    BY <1>12, <1>15, Zenon DEF IntegerResult
  <2>2. Ok(n, K).err = "none" /\ Ok(n, K).value = n /\ Ok(n, K).adv = K
    BY OkIsOk
  <2>3. decode_string(b) =
          IF K + n > L THEN Err("need more")
          ELSE Ok(OutStr(b[1] >= 128, SubSeq(b, K + 1, K + n)), K + n)
    BY <1>10, <1>13, <2>1, <2>2 DEF decode_string, Then
  <2>4. decode_string(b) =
          Ok(OutStr(b[1] >= 128, SubSeq(b, K + 1, K + n)), K + n)
    <3>1. ~(K + n > L)
      BY <1>10
    <3> QED  BY <2>3, <3>1
  <2>5. (b[1] >= 128) = (first = 128)
    <3>1. b[1] = ei[1]
      <4>1. Begins(b, ei)
        BY <1>5, <1>11, BeginsBy
      <4>2. 1 \in 1 .. Len(ei)
        BY <1>8
      <4> QED  BY <4>1, <4>2 DEF Begins
    <3>2. PICK x \in Nat : x <= 2^p - 1 /\ ei[1] = first + x
      <4>1. \E x \in Nat : FirstOf(ei, first, p, x)
        BY <1>3, <1>4, FirstOctet
      <4> QED  BY <4>1 DEF FirstOf
    <3>3. x <= 127
      <4>1. x <= 2^7 - 1
        BY <1>2, <3>2
      <4> QED  BY <4>1, SMT
    <3>4. first = 0 \/ first = 128
      BY DEF StringFirst
    <3> QED  BY <3>1, <3>2, <3>3, <3>4
  <2>6. SubSeq(b, K + 1, K + n) = s
    <3>1. PICK piece \in Seq(S) :
            /\ piece = SubSeq(b, K + 1, K + n)
            /\ Len(piece) = n
            /\ \A i \in 1 .. n : piece[i] = b[K + i]
      <4>1. \A i \in K + 1 .. K + n : b[i] \in S
        BY <1>10, ElementOfSeq
      <4>2. /\ SubSeq(b, K + 1, K + n) \in Seq(S)
            /\ Len(SubSeq(b, K + 1, K + n))
                 = IF K + 1 <= K + n THEN K + n - (K + 1) + 1 ELSE 0
            /\ \A i \in 1 .. K + n - (K + 1) + 1 :
                 SubSeq(b, K + 1, K + n)[i] = b[K + 1 + i - 1]
        BY <4>1, SubSeqProperties
      <4>3. Len(SubSeq(b, K + 1, K + n)) = n
        BY <4>2
      <4>4. ASSUME NEW i \in 1 .. n PROVE SubSeq(b, K + 1, K + n)[i] = b[K + i]
        <5>1. i \in 1 .. K + n - (K + 1) + 1 /\ K + 1 + i - 1 = K + i
          OBVIOUS
        <5> QED  BY <4>2, <5>1
      <4> QED  BY <4>2, <4>3, <4>4, Zenon
    <3>2. \A i \in 1 .. n : b[K + i] = s[i]
      <4>1. Begins(more, s) /\ Len(more) = n + Len(rest) /\ Len(rest) \in Nat
        <5>1. Joined(more, s, rest)
          BY <1>11, Zenon DEF Joined
        <5> QED  BY <1>1, <5>1, BeginsBy, LenProperties
      <4>2. PICK M \in Nat : M = Len(more) /\ n <= M
        BY <4>1
      <4>3. \A i \in 1 .. K + M : b[i] = IF i <= K THEN ei[i] ELSE more[i - K]
        <5>1. \A i \in 1 .. Len(ei) + Len(more) : (ei \o more)[i] =
                IF i <= Len(ei) THEN ei[i] ELSE more[i - Len(ei)]
          BY <1>5, ConcatProperties
        <5>2. b = ei \o more
          BY <1>11, Zenon DEF Joined
        <5> QED  BY <1>8, <4>2, <5>1, <5>2
      <4>4. ASSUME NEW i \in 1 .. n PROVE b[K + i] = s[i]
        <5>1. /\ K + i \in 1 .. K + M /\ ~(K + i <= K) /\ (K + i) - K = i
          BY <4>2
        <5>2. b[K + i] = more[i]
          BY <4>3, <5>1
        <5>3. more[i] = s[i]
          BY <1>1, <4>1 DEF Begins
        <5> QED  BY <5>2, <5>3
      <4> QED  BY <4>4
    <3>3. piece = s
      <4>1. Len(piece) = Len(s) /\ \A i \in 1 .. Len(piece) : piece[i] = s[i]
        BY <1>1, <3>1, <3>2
      <4> QED  BY <4>1, SeqEqual
    <3> QED  BY <3>1, <3>3
  <2>7. Len(enc) = K + n
    BY <1>7, <1>8
  <2>8. decode_string(b) = Ok(OutStr(first = 128, s), Len(enc))
    BY <2>4, <2>5, <2>6, <2>7, Zenon
  <2> QED  BY <1>1, <1>9, <1>15, <2>8, Zenon DEF StringResult, Joined
<1> QED  BY <1>14, <1>15

(* A result that is no error is the string out and took the octets of enc.  *)
ReadsString(result, out, enc, b) ==
    /\ Takes1(result, enc, b)
    /\ result.err = "none" => result.value = out

(* A string in the block is read with all its octets, or not at all.        *)
LEMMA StringRead ==
    ASSUME NEW S, Octet \subseteq S,
           NEW b \in Seq(S), NEW cut \in Seq(S), NEW rest \in Seq(S),
           NEW s \in Seq(S), NEW first \in StringFirst, NEW enc,
           Joined(enc, encode_int(Len(s), 7, first), s),
           SameWhole(b, cut, enc, rest)
    PROVE  /\ enc \in Seq(S)
           /\ ReadsString(decode_string(b), OutStr(first = 128, s), enc, b)
           /\ Succeeds(decode_string(b), Fits(Len(s)), enc, b)
<1>1. PICK n \in Nat : n = Len(s)
  BY LenProperties
<1>2. PICK p \in 1 .. 8 : p = 7
  OBVIOUS
<1>3. Above(first, p)
  BY <1>2, StringAbove
<1>4. PICK ei : ei = encode_int(n, p, first)
  OBVIOUS
<1>5. ei \in Seq(S)
  <2>1. ei \in Seq(Octet)
    BY <1>3, <1>4, EncodedShape
  <2> QED  BY <2>1, SeqMonotonic
<1>6. Joined(enc, ei, s)
  BY <1>1, <1>2, <1>4
<1>7. PICK more \in Seq(S) : SameWhole(b, cut, ei, more)
  BY <1>5, <1>6, JoinedAs
<1>8. ReadsInteger(decode_int(b, p), n, ei, b)
  BY <1>3, <1>4, <1>7, IntegerRead
<1>9. enc \in Seq(S) /\ Len(enc) = Len(ei) + n
  <2>1. enc \in Seq(S) /\ Len(enc) = Len(ei) + Len(s)
    BY <1>5, <1>6, JoinedLength
  <2> QED  BY <1>1, <2>1
<1>10. PICK r : r = decode_int(b, 7)
  OBVIOUS
<1>11. r.err = "none" => r.value = n /\ r.adv = Len(ei)
  BY <1>2, <1>8, <1>10 DEF Takes1, ReadsInteger
<1>12. PICK L \in Nat, K \in Nat : L = Len(b) /\ K = Len(enc)
  BY <1>9, LenProperties
<1>13. CASE K > L
  <2>1. decode_string(b).err # "none"
    <3>1. CASE b = <<>>
      <4>1. decode_string(b) = Err("need more")
        BY <3>1 DEF decode_string
      <4> QED  BY <4>1, ErrIsError
    <3>2. CASE b # <<>> /\ r.err # "none"
      <4>1. decode_string(b) = r
        BY <1>10, <3>2 DEF decode_string, Then
      <4> QED  BY <3>2, <4>1
    <3>3. CASE b # <<>> /\ r.err = "none"
      <4>1. r.adv + r.value = K
        BY <1>9, <1>11, <1>12, <3>3
      <4>2. decode_string(b) =
              IF r.adv + r.value > Len(b) THEN Err("need more")
              ELSE Ok(OutStr(b[1] >= 128,
                             SubSeq(b, r.adv + 1, r.adv + r.value)),
                      r.adv + r.value)
        BY <1>10, <3>3 DEF decode_string, Then
      <4>3. decode_string(b) = Err("need more")
        BY <1>12, <1>13, <4>1, <4>2
      <4> QED  BY <4>3, ErrIsError
    <3> QED  BY <3>1, <3>2, <3>3
  <2> QED  BY <1>9, <1>12, <1>13, <2>1 DEF Takes1, ReadsString, Succeeds
<1>14. CASE ~(K > L)
  <2>1. Len(enc) <= Len(b)
    BY <1>12, <1>14
  <2>2. Remains(S, b, cut, enc, rest)
    BY <1>9, <2>1, Cutting
  <2>3. PICK left \in Seq(S) : Joined(b, enc, left)
    BY <2>2 DEF Remains
  <2>4. decode_string(b) = StringResult(s, first, Len(enc))
    <3>1. decode_string(enc \o left) = StringResult(s, first, Len(enc))
      BY StringAsSent
    <3> QED  BY <2>3, <3>1, Zenon DEF Joined
  <2>5. PICK out : out = OutStr(first = 128, s)
    OBVIOUS
  <2>6. /\ decode_string(b).err = "none" =>
               decode_string(b).value = out /\ decode_string(b).adv = Len(enc)
        /\ Fits(Len(s)) => decode_string(b).err = "none"
    <3>1. CASE Len(s) < Limit(7)
      <4>1. decode_string(b) = Ok(out, Len(enc))
        BY <2>4, <2>5, <3>1, Zenon DEF StringResult
      <4>2. Ok(out, Len(enc)).err = "none" /\ Ok(out, Len(enc)).value = out
            /\ Ok(out, Len(enc)).adv = Len(enc)
        BY OkIsOk
      <4> QED  BY <4>1, <4>2
    <3>2. CASE ~(Len(s) < Limit(7))
      <4>1. decode_string(b) = Err("integer overflow")
        BY <2>4, <3>2, Zenon DEF StringResult
      <4>2. decode_string(b).err # "none"
        BY <4>1, ErrIsError
      <4>3. ~Fits(Len(s))
        BY <1>1, <1>2, <3>2, FitsLimit
      <4> QED  BY <4>2, <4>3, Zenon
    <3> QED  BY <3>1, <3>2
  <2> QED  BY <1>9, <2>1, <2>5, <2>6 DEF Takes1, ReadsString, Succeeds
<1> QED  BY <1>13, <1>14

-----------------------------------------------------------------------------
(* What the client writes are sequences of octets.  The octets of a Huffman *)
(* coded string are what Number says: the proofs about blocks look at what  *)
(* they are only where a text is decoded (TextsRead).                       *)

(* The values a bit may take by the tables.                                 *)
BitValues == {0, 1} \cup UNION {{Code[s][i] : i \in DOMAIN Code[s]} : s \in Symbols}

(* What may stand in a block: octets, and what the bits make.               *)
Alphabet == Octet \cup {Number(SubSeq(bits, 8*i - 7, 8*i)) :
                          bits \in Seq(BitValues), i \in Nat}

(* The code of every symbol is a sequence of them ...                       *)
LEMMA CodeIsSeq == \A s \in Symbols : Code[s] \in Seq(BitValues)
<1>1. ENCODE_TABLE \in Seq(Nat \X Nat) /\ Len(ENCODE_TABLE) = 257
  <2>1. ENCODE_TABLE \in Seq(Nat \X Nat)
    BY SMTT(60) DEF ENCODE_TABLE
  <2>2. Len(ENCODE_TABLE) = 257
    BY SMTT(60) DEF ENCODE_TABLE
  <2> QED  BY <2>1, <2>2
<1>2. ASSUME NEW s \in Symbols PROVE Code[s] \in Seq(BitValues)
  <2>1. s + 1 \in 1 .. Len(ENCODE_TABLE)
    BY <1>1 DEF Symbols, EOS
  <2>2. ENCODE_TABLE[s + 1] \in Nat \X Nat
    <3>1. PICK table, Pairs : /\ table = ENCODE_TABLE /\ Pairs = Nat \X Nat
                              /\ table \in Seq(Pairs)
      BY <1>1
    <3>2. s + 1 \in 1 .. Len(table)
      BY <2>1, <3>1
    <3>3. table[s + 1] \in Pairs
      BY <3>1, <3>2, ElementOfSeq
    <3> QED  BY <3>1, <3>3
  <2>3. PICK w \in Nat, n \in Nat : w = ENCODE_TABLE[s + 1][1] /\ n = ENCODE_TABLE[s + 1][2]
    BY <2>2
  <2>4. Code[s] = [i \in 1 .. w |-> (n \div 2^(w - i)) % 2]
    BY <2>3 DEF Code, BitsOf
  <2>5. DOMAIN Code[s] = 1 .. w /\ Code[s] = [i \in 1 .. w |-> Code[s][i]]
    BY <2>4
  <2>6. \A i \in 1 .. w : Code[s][i] \in BitValues
    BY <2>5 DEF BitValues
  <2>7. [i \in 1 .. w |-> Code[s][i]] \in [1 .. w -> BitValues]
    BY <2>6
  <2>8. [i \in 1 .. w |-> Code[s][i]] \in Seq(BitValues)
    BY <2>7
  <2> QED  BY <2>5, <2>8, Zenon
<1> QED  BY <1>2

(* ... and so is the code of a text.                                        *)
LEMMA BitsIsSeq ==
    ASSUME NEW text \in Seq(Octet)
    PROVE  Bits(text) \in Seq(BitValues)
<1>1. PICK n \in Nat : n = Len(text) /\ DOMAIN text = 1 .. n
  BY LenProperties
<1>2. \A i \in 1 .. n : text[i] \in Symbols
  <2>1. \A x \in Octet : x \in Symbols
    BY DEF Octet, Symbols, EOS
  <2> QED  BY <1>1, <2>1, ElementOfSeq
<1>3. \A i \in 1 .. n : Code[text[i]] \in Seq(BitValues)
  BY <1>2, CodeIsSeq
<1>4. [i \in 1 .. n |-> Code[text[i]]] \in [1 .. n -> Seq(BitValues)]
  BY <1>3
<1>5. PICK codes \in Seq(Seq(BitValues)) : codes = [i \in DOMAIN text |-> Code[text[i]]]
  <2>1. [i \in 1 .. n |-> Code[text[i]]] \in Seq(Seq(BitValues))
    BY <1>4
  <2> QED  BY <1>1, <2>1
<1>6. FlattenSeq(codes) \in Seq(BitValues)
  BY FlattenProperties
<1> QED  BY <1>5, <1>6 DEF Bits

(* Bits make octets.                                                        *)
LEMMA OctetsIsSeq ==
    ASSUME NEW bits \in Seq(BitValues)
    PROVE  Octets(bits) \in Seq(Alphabet)
<1>1. PICK n \in Nat : n = Len(bits) \div 8
  <2>1. \A L \in Nat : L \div 8 \in Nat
    BY SMT
  <2> QED  BY <2>1, LenProperties
<1>2. \A i \in 1 .. n : Number(SubSeq(bits, 8*i - 7, 8*i)) \in Alphabet
  <2>1. TAKE i \in 1 .. n
  <2>2. PICK j \in Nat : j = i
    OBVIOUS
  <2>3. Number(SubSeq(bits, 8*j - 7, 8*j)) \in Alphabet
    <3>1. \E c \in Seq(BitValues), k \in Nat :
            Number(SubSeq(bits, 8*j - 7, 8*j)) = Number(SubSeq(c, 8*k - 7, 8*k))
      OBVIOUS
    <3> QED  BY <3>1 DEF Alphabet
  <2> QED  BY <2>2, <2>3, Zenon
<1>3. Octets(bits) \in [1 .. n -> Alphabet]
  BY <1>1, <1>2 DEF Octets
<1> QED  BY <1>3

(* The padding is bits too.                                                 *)
LEMMA FillIsSeq ==
    ASSUME NEW bits \in Seq(BitValues), NEW bit \in {0, 1}
    PROVE  bits \o [i \in 1 .. (8 - (Len(bits) % 8)) % 8 |-> bit] \in Seq(BitValues)
<1>1. PICK k \in Nat : k = (8 - (Len(bits) % 8)) % 8
  <2>1. \A L \in Nat : (8 - (L % 8)) % 8 \in Nat
    BY SMT
  <2> QED  BY <2>1, LenProperties
<1>2. bit \in BitValues
  BY DEF BitValues
<1>3. [i \in 1 .. k |-> bit] \in Seq(BitValues)
  BY <1>2
<1>4. bits \o [i \in 1 .. k |-> bit] \in Seq(BitValues)
  BY <1>3, ConcatProperties
<1> QED  BY <1>1, <1>4, Zenon

(* What decode_string makes of a string.                                    *)
Out(text, form) == OutStr(form # "plain", Coded(text, form))

(* The bit above the length of a string.                                    *)
FirstOfString(form) == IF form = "plain" THEN 0 ELSE 128

(* ... and in every form.                                                   *)
LEMMA CodedIsSeq ==
    ASSUME NEW text \in Seq(Octet), NEW form
    PROVE  Coded(text, form) \in Seq(Alphabet)
<1>1. text \in Seq(Alphabet)
  <2>1. Octet \subseteq Alphabet
    BY DEF Alphabet
  <2> QED  BY <2>1, SeqMonotonic
<1>2. Bits(text) \in Seq(BitValues)
  BY BitsIsSeq
<1>3. Padded(Bits(text)) \in Seq(BitValues)
  BY <1>2, FillIsSeq DEF Padded, Padding
<1>4. Mispadded(Bits(text)) \in Seq(BitValues)
  BY <1>2, FillIsSeq DEF Mispadded, Padding
<1>5. encode(text) \in Seq(Alphabet)
  BY <1>3, OctetsIsSeq DEF encode
<1>6. Octets(Mispadded(Bits(text))) \in Seq(Alphabet)
  BY <1>4, OctetsIsSeq
<1> QED  BY <1>1, <1>5, <1>6 DEF Coded

(* A string is its length and its octets, in every form.                    *)
LEMMA StringShape ==
    ASSUME NEW text \in Seq(Octet), NEW form
    PROVE  Joined(StringOctets(text, form),
                  encode_int(Len(Coded(text, form)), 7, FirstOfString(form)),
                  Coded(text, form))
<1>1. CASE form = "plain"
  <2>1. StringOctets(text, form) = encode_int(Len(text), 7, 0) \o text
    BY <1>1 DEF StringOctets, encode_str
  <2>2. Coded(text, form) = text /\ FirstOfString(form) = 0
    BY <1>1 DEF Coded, FirstOfString
  <2> QED  BY <2>1, <2>2, Zenon DEF Joined
<1>2. CASE form # "plain"
  <2>1. PICK huff : huff = Coded(text, form)
    OBVIOUS
  <2>2. StringOctets(text, form) = encode_int(Len(huff), 7, 128) \o huff
    BY <1>2, <2>1, Zenon DEF StringOctets
  <2>3. FirstOfString(form) = 128
    BY <1>2 DEF FirstOfString
  <2> QED  BY <2>1, <2>2, <2>3, Zenon DEF Joined
<1> QED  BY <1>1, <1>2

(* Plain octets are among them.                                             *)
LEMMA OctetsAmong == Octet \subseteq Alphabet
BY DEF Alphabet

(* A string in the block.                                                   *)
LEMMA TextRead ==
    ASSUME NEW b \in Seq(Alphabet), NEW cut \in Seq(Alphabet),
           NEW rest \in Seq(Alphabet), NEW text \in Seq(Octet), NEW form,
           SameWhole(b, cut, StringOctets(text, form), rest)
    PROVE  /\ ReadsString(decode_string(b), Out(text, form),
                          StringOctets(text, form), b)
           /\ Succeeds(decode_string(b), Fits(Len(Coded(text, form))),
                       StringOctets(text, form), b)
<1>1. PICK enc : enc = StringOctets(text, form)
  OBVIOUS
<1>2. PICK s \in Seq(Alphabet), first \in StringFirst :
        s = Coded(text, form) /\ first = FirstOfString(form)
  BY CodedIsSeq DEF StringFirst, FirstOfString
<1>3. Joined(enc, encode_int(Len(s), 7, first), s)
  BY <1>1, <1>2, StringShape
<1>4. SameWhole(b, cut, enc, rest)
  BY <1>1
<1>5. /\ ReadsString(decode_string(b), OutStr(first = 128, s), enc, b)
      /\ Succeeds(decode_string(b), Fits(Len(s)), enc, b)
  BY <1>3, <1>4, OctetsAmong, StringRead
<1>6. OutStr(first = 128, s) = Out(text, form)
  <2>1. (first = 128) = (form # "plain")
    BY <1>2 DEF FirstOfString
  <2> QED  BY <1>2, <2>1 DEF Out
<1> QED  BY <1>1, <1>2, <1>5, <1>6

(* ... which are a sequence of octets.                                      *)
LEMMA StringIsSeq ==
    ASSUME NEW text \in Seq(Octet), NEW form
    PROVE  StringOctets(text, form) \in Seq(Alphabet)
<1>1. PICK s \in Seq(Alphabet), first \in StringFirst :
        Joined(StringOctets(text, form), encode_int(Len(s), 7, first), s)
  BY CodedIsSeq, StringShape DEF StringFirst, FirstOfString
<1>2. PICK n \in Nat, p \in 1 .. 8 : n = Len(s) /\ p = 7
  <2>1. 7 \in 1 .. 8
    OBVIOUS
  <2> QED  BY <2>1, LenProperties
<1>3. PICK ei : ei = encode_int(n, p, first)
  OBVIOUS
<1>4. ei \in Seq(Alphabet)
  <2>1. Above(first, p)
    BY <1>2, StringAbove
  <2>2. ei \in Seq(Octet)
    BY <1>3, <2>1, EncodedShape
  <2> QED  BY <2>2, OctetsAmong, SeqMonotonic
<1>5. Joined(StringOctets(text, form), ei, s)
  BY <1>1, <1>2, <1>3
<1> QED  BY <1>4, <1>5, JoinedLength

-----------------------------------------------------------------------------
(* Literals                                                                 *)

(* The last string of a representation ends where it ends.                  *)
LastRead(K, v, text, form, enc, b) ==
    /\ v.err = "none" => /\ K + v.adv = Len(enc)
                         /\ Len(enc) <= Len(b)
                         /\ v.value = Out(text, form)
    /\ Succeeds(v, Fits(Len(Coded(text, form))), enc, b)

(* The string at the end of a literal, whatever was read before it.         *)
LEMMA LastString ==
    ASSUME NEW b \in Seq(Alphabet), NEW cut \in Seq(Alphabet),
           NEW rest \in Seq(Alphabet), NEW head \in Seq(Alphabet),
           NEW text \in Seq(Octet), NEW form, NEW enc,
           Joined(enc, head, StringOctets(text, form)),
           SameWhole(b, cut, enc, rest),
           NEW K \in Nat, K = Len(head), K <= Len(b),
           NEW v, v = decode_string(From(b, K))
    PROVE  LastRead(K, v, text, form, enc, b)
<1>1. PICK vl \in Seq(Alphabet) : vl = StringOctets(text, form)
  BY StringIsSeq
<1>2. PICK more \in Seq(Alphabet) : more = vl \o rest /\ SameWhole(b, cut, head, more)
  <2>1. /\ vl \o rest \in Seq(Alphabet)
        /\ SameWhole(b, cut, head, vl \o rest)
    BY <1>1, JoinedAs
  <2> QED  BY <2>1
<1>3. PICK tail \in Seq(Alphabet) :
        /\ tail = From(b, K)
        /\ Len(tail) = Len(b) - K
        /\ Joined(more, tail, cut)
  <2>1. /\ From(b, Len(head)) \in Seq(Alphabet)
        /\ Len(From(b, Len(head))) = Len(b) - Len(head)
        /\ Joined(more, From(b, Len(head)), cut)
    <3>1. Len(head) <= Len(b)
      OBVIOUS
    <3>2. Remains(Alphabet, b, cut, head, more)
      BY <1>2, <3>1, Cutting
    <3> QED  BY <3>2 DEF Remains
  <2> QED  BY <2>1
<1>4. SameWhole(tail, cut, StringOctets(text, form), rest)
  BY <1>1, <1>2, <1>3, Zenon DEF Joined, SameWhole
<1>5. /\ ReadsString(v, Out(text, form), StringOctets(text, form), tail)
      /\ Succeeds(v, Fits(Len(Coded(text, form))), StringOctets(text, form), tail)
  <2>1. v = decode_string(tail)
    BY <1>3
  <2> QED  BY <1>4, <2>1, TextRead
<1>6. v.err = "none" =>
        v.adv = Len(vl) /\ Len(vl) <= Len(tail) /\ v.value = Out(text, form)
  BY <1>1, <1>5 DEF ReadsString, Takes1
<1>7. Len(enc) = K + Len(vl)
  <2>1. Len(enc) = Len(head) + Len(vl)
    BY <1>1, JoinedLength
  <2> QED  BY <2>1
<1>8. PICK L \in Nat, M \in Nat : L = Len(b) /\ M = Len(vl)
  BY <1>1, LenProperties
<1>9. Succeeds(v, Fits(Len(Coded(text, form))), enc, b)
  <2>1. Len(enc) <= Len(b) => Len(vl) <= Len(tail)
    BY <1>3, <1>7, <1>8
  <2> QED  BY <1>1, <1>5, <2>1 DEF Succeeds
<1>10. v.err = "none" => /\ K + v.adv = Len(enc)
                         /\ Len(enc) <= Len(b)
                         /\ v.value = Out(text, form)
  <2>1. Len(vl) <= Len(tail) => K + Len(vl) <= Len(b)
    BY <1>3, <1>8
  <2> QED  BY <1>6, <1>7, <2>1
<1> QED  BY <1>9, <1>10 DEF LastRead

(* What a literal has between its first integer and its value.              *)
NameForm(rep) == IF rep.form = "plain" THEN "plain" ELSE "huffman"

NamePart(rep) ==
    IF rep.index # 0 THEN <<>>
    ELSE StringOctets(Spelling(rep.name), NameForm(rep))

(* The spelling of a name is octets.                                        *)
LEMMA SpellingType ==
    ASSUME NEW rep \in Representations, rep.kind \notin {"Indexed", "SizeUpdate"},
           rep.index = 0
    PROVE  Spelling(rep.name) \in Seq(Octet)
<1>1. rep.name \in {"path", "grpc-encoding", "other", "none"}
      /\ rep.name # "none"
  BY RepresentationsAssumption DEF Representation
<1>2. PATH \in Seq(Octet)
  BY DEF PATH, Octet
<1>3. GRPC_ENCODING \in Seq(Octet)
  BY DEF GRPC_ENCODING, Octet
<1>4. TE \in Seq(Octet)
  BY DEF TE, Octet
<1>5. CASE rep.name = "path"
  BY <1>2, <1>5 DEF Spelling
<1>6. CASE rep.name = "grpc-encoding"
  BY <1>3, <1>6 DEF Spelling
<1>7. CASE rep.name = "other"
  BY <1>4, <1>7 DEF Spelling
<1> QED  BY <1>1, <1>5, <1>6, <1>7

(* ... and is a sequence of octets.                                         *)
LEMMA NameIsSeq ==
    ASSUME NEW rep \in Representations, rep.kind \notin {"Indexed", "SizeUpdate"}
    PROVE  NamePart(rep) \in Seq(Alphabet)
<1>1. CASE rep.index # 0
  <2>1. NamePart(rep) = <<>>
    BY <1>1 DEF NamePart, NameForm
  <2> QED  BY <2>1, EmptySeq
<1>2. CASE rep.index = 0
  <2>1. PICK name \in Seq(Octet), form \in Forms :
          /\ name = Spelling(rep.name)
          /\ form = IF rep.form = "plain" THEN "plain" ELSE "huffman"
    BY <1>2, SpellingType DEF Forms
  <2>2. StringOctets(name, form) \in Seq(Alphabet)
    BY StringIsSeq
  <2>3. NamePart(rep) = StringOctets(name, form)
    BY <1>2, <2>1 DEF NamePart, NameForm
  <2> QED  BY <2>2, <2>3
<1> QED  BY <1>1, <1>2

(* What the decoder makes of a literal: its name, taken from the table if    *)
(* it has an index, and its value as a string out.                          *)
NameRead(rep) ==
    IF rep.index = 0 THEN NameOf(Out(Spelling(rep.name), NameForm(rep)))
                     ELSE classify_table_index(rep.index).value

(* There is an entry for the index of a name.                               *)
Named(rep) == rep.index # 0 => classify_table_index(rep.index).err = "none"

(* decode_literal_header gave what the representation says ...              *)
ReadsLiteral(d, rep, enc, b) ==
    /\ Takes1(d, enc, b)
    /\ d.err = "none" =>
         d.value = Literal(NameRead(rep), Out(rep.value, rep.form)) /\ Named(rep)

(* ... and has to, if nothing is out of its range.                          *)
LiteralFits(rep) ==
    /\ Fits(rep.index)
    /\ Fits(Len(Coded(rep.value, rep.form)))
    /\ rep.index = 0 => Fits(Len(Coded(Spelling(rep.name), NameForm(rep))))
    /\ Named(rep)

(* A literal in the block is read with all its octets, or not at all,       *)
(* whatever the table makes of its index.                                   *)
LEMMA LiteralRead ==
    ASSUME NEW b \in Seq(Alphabet), NEW cut \in Seq(Alphabet),
           NEW rest \in Seq(Alphabet), NEW rep \in Representations,
           rep.kind \notin {"Indexed", "SizeUpdate"},
           NEW p \in 1 .. 8, NEW first, Above(first, p),
           NEW enc, enc = LiteralOctets(rep, p, first),
           SameWhole(b, cut, enc, rest)
    PROVE  /\ ReadsLiteral(decode_literal_header(b, p), rep, enc, b)
           /\ Succeeds(decode_literal_header(b, p), LiteralFits(rep), enc, b)
<1>1. PICK index \in Nat, text \in Seq(Octet) : index = rep.index /\ text = rep.value
  BY RepresentationsAssumption DEF Representation
<1>2. PICK ei : ei = encode_int(index, p, first)
  OBVIOUS
<1>3. ei \in Seq(Alphabet)
  <2>1. ei \in Seq(Octet)
    BY <1>2, EncodedShape
  <2> QED  BY <2>1, OctetsAmong, SeqMonotonic
<1>4. PICK nm \in Seq(Alphabet) : nm = NamePart(rep)
  BY NameIsSeq
<1>5. PICK vl \in Seq(Alphabet) : vl = StringOctets(text, rep.form)
  BY StringIsSeq
<1>6. PICK head \in Seq(Alphabet) : Joined(head, ei, nm)
  <2>1. ei \o nm \in Seq(Alphabet)
    BY <1>3, ConcatProperties
  <2> QED  BY <2>1 DEF Joined
<1>7. Joined(enc, head, StringOctets(text, rep.form))
  <2>1. enc = encode_int(rep.index, p, first) \o NamePart(rep)
                \o StringOctets(rep.value, rep.form)
    BY DEF LiteralOctets, NamePart, NameForm
  <2>2. enc = (ei \o nm) \o StringOctets(text, rep.form)
    BY <1>1, <1>2, <1>4, <2>1, Zenon
  <2> QED  BY <1>6, <2>2, Zenon DEF Joined
<1>8. Joined(enc, head, vl)
  BY <1>5, <1>7
<1>9. PICK K \in Nat, E \in Nat, L \in Nat, M \in Nat :
        K = Len(head) /\ E = Len(ei) /\ L = Len(b) /\ M = Len(nm)
  BY <1>3, LenProperties
<1>10. K = E + M
  <2>1. head \in Seq(Alphabet) /\ Len(head) = Len(ei) + Len(nm)
    BY <1>3, <1>6, JoinedLength
  <2> QED  BY <1>9, <2>1
<1>11. PICK more \in Seq(Alphabet) : more = vl \o rest /\ SameWhole(b, cut, head, more)
  <2>1. /\ vl \o rest \in Seq(Alphabet)
        /\ SameWhole(b, cut, head, vl \o rest)
    BY <1>8, JoinedAs
  <2> QED  BY <2>1
<1>12. PICK most \in Seq(Alphabet) : most = nm \o more /\ SameWhole(b, cut, ei, most)
  <2>1. /\ nm \o more \in Seq(Alphabet)
        /\ SameWhole(b, cut, ei, nm \o more)
    BY <1>3, <1>6, <1>11, JoinedAs
  <2> QED  BY <2>1
<1>13. /\ ReadsInteger(decode_int(b, p), index, ei, b)
       /\ Succeeds(decode_int(b, p), Fits(index), ei, b)
  BY <1>2, <1>12, OctetsAmong, IntegerRead
<1>14. PICK r : r = decode_int(b, p)
  OBVIOUS
<1>15. PICK Z \in Nat : Z = Len(enc) /\ Z = K + Len(vl) /\ K <= Z
  <2>1. Len(enc) = Len(head) + Len(vl) /\ Len(vl) \in Nat
    BY <1>8, JoinedLength, LenProperties
  <2>2. Len(enc) = K + Len(vl) /\ K + Len(vl) \in Nat /\ K <= K + Len(vl)
    BY <1>9, <2>1
  <2> QED  BY <2>2
<1>16. /\ r.err = "none" => r.value = index /\ r.adv = E /\ E <= L
       /\ Fits(index) /\ Z <= L => r.err = "none"
  <2>1. r.err = "none" => r.value = index /\ r.adv = E /\ E <= L
    BY <1>9, <1>13, <1>14 DEF ReadsInteger, Takes1
  <2>2. Z <= L => Len(ei) <= Len(b)
    BY <1>9, <1>10, <1>15
  <2> QED  BY <1>13, <1>14, <2>1, <2>2 DEF Succeeds
<1>17. PICK out : out = Out(text, rep.form) /\ out = Out(rep.value, rep.form)
  BY <1>1
<1>18. PICK size : /\ size = Len(Coded(text, rep.form))
                   /\ size = Len(Coded(rep.value, rep.form))
  BY <1>1
<1>19. PICK d : d = decode_literal_header(b, p)
  OBVIOUS
<1>20. CASE r.err # "none"
  <2>1. d = r
    BY <1>14, <1>19, <1>20 DEF decode_literal_header, Then
  <2>2. LiteralFits(rep) /\ Len(enc) <= Len(b) => d.err = "none"
    BY <1>1, <1>9, <1>15, <1>16, <2>1 DEF LiteralFits
  <2> QED  BY <1>19, <1>20, <2>1, <2>2 DEF Takes1, ReadsLiteral, Succeeds
<1>21. CASE r.err = "none" /\ index # 0
  <2>1. M = 0 /\ K = E /\ K <= L
    <3>1. nm = <<>>
      BY <1>1, <1>4, <1>21 DEF NamePart
    <3>2. M = 0
      BY <1>9, <3>1
    <3> QED  BY <1>10, <1>16, <1>21, <3>2
  <2>2. PICK v, c : v = decode_string(From(b, K)) /\ c = classify_table_index(index)
    OBVIOUS
  <2>3. d = IF v.err = "none"
              THEN IF c.err = "none"
                     THEN Ok(Literal(c.value, v.value), r.adv + v.adv)
                     ELSE c
              ELSE v
    BY <1>14, <1>16, <1>19, <1>21, <2>1, <2>2 DEF decode_literal_header, Then
  <2>4. LastRead(K, v, text, rep.form, enc, b)
    <3>1. K <= Len(b) /\ K = Len(head)
      BY <1>9, <2>1
    <3> QED  BY <1>7, <2>2, <3>1, LastString
  <2>5. /\ v.err = "none" => K + v.adv = Z /\ Z <= L /\ v.value = out
        /\ Fits(size) /\ Z <= L => v.err = "none"
    BY <1>9, <1>15, <1>17, <1>18, <2>4 DEF LastRead, Succeeds
  <2>6. NameRead(rep) = c.value /\ (LiteralFits(rep) => Fits(size) /\ c.err = "none")
    BY <1>1, <1>18, <1>21, <2>2 DEF NameRead, LiteralFits, Named
  <2>7. CASE v.err # "none"
    BY <1>9, <1>15, <1>19, <2>3, <2>5, <2>6, <2>7
    DEF Takes1, ReadsLiteral, Succeeds
  <2>8. CASE v.err = "none" /\ c.err # "none"
    BY <1>19, <2>3, <2>6, <2>8 DEF Takes1, ReadsLiteral, Succeeds
  <2>9. CASE v.err = "none" /\ c.err = "none"
    <3>1. PICK lit : lit = Literal(NameRead(rep), out)
      OBVIOUS
    <3>2. d = Ok(lit, Z)
      <4>1. d = Ok(Literal(c.value, v.value), r.adv + v.adv)
        BY <2>3, <2>9
      <4>2. r.adv + v.adv = Z /\ v.value = out
        BY <1>16, <1>21, <2>1, <2>5, <2>9
      <4> QED  BY <2>6, <3>1, <4>1, <4>2, Zenon
    <3>3. d.err = "none" /\ d.value = lit /\ d.adv = Z
      BY <3>2, OkIsOk
    <3>4. Z <= L
      BY <2>5, <2>9
    <3>5. Named(rep)
      BY <1>1, <2>2, <2>9 DEF Named
    <3> QED  BY <1>9, <1>15, <1>17, <1>19, <3>1, <3>3, <3>4, <3>5
             DEF Takes1, ReadsLiteral, Succeeds
  <2> QED  BY <2>7, <2>8, <2>9
<1>22. CASE r.err = "none" /\ index = 0
  <2>1. PICK name \in Seq(Octet), form \in Forms :
          /\ name = Spelling(rep.name) /\ form = NameForm(rep)
          /\ nm = StringOctets(name, form)
    <3>1. PICK name \in Seq(Octet) : name = Spelling(rep.name)
      BY <1>1, <1>22, SpellingType
    <3>2. PICK form \in Forms : form = NameForm(rep)
      BY DEF NameForm, Forms
    <3> QED  BY <1>1, <1>4, <1>22, <3>1, <3>2 DEF NamePart
  <2>2. PICK tail \in Seq(Alphabet) :
          /\ tail = From(b, E)
          /\ Len(tail) = L - E
          /\ Joined(most, tail, cut)
    <3>1. Len(ei) <= Len(b)
      BY <1>9, <1>16, <1>22
    <3>2. /\ From(b, Len(ei)) \in Seq(Alphabet)
          /\ Len(From(b, Len(ei))) = Len(b) - Len(ei)
          /\ Joined(most, From(b, Len(ei)), cut)
      <4>1. Remains(Alphabet, b, cut, ei, most)
        BY <1>3, <1>12, <3>1, Cutting
      <4> QED  BY <4>1 DEF Remains
    <3> QED  BY <1>9, <3>2
  <2>3. SameWhole(tail, cut, StringOctets(name, form), more)
    BY <1>12, <2>1, <2>2, Zenon DEF Joined, SameWhole
  <2>4. PICK n, nout : n = decode_string(tail) /\ nout = Out(name, form)
    OBVIOUS
  <2>5. /\ ReadsString(n, nout, StringOctets(name, form), tail)
        /\ Succeeds(n, Fits(Len(Coded(name, form))), StringOctets(name, form), tail)
    BY <2>3, <2>4, TextRead
  <2>6. n.err = "none" => n.adv = M /\ K <= L /\ E + n.adv = K /\ n.value = nout
    <3>1. n.err = "none" => n.adv = M /\ M <= L - E /\ n.value = nout
      BY <1>9, <2>1, <2>2, <2>5 DEF Takes1, ReadsString
    <3>2. E + M = K /\ (M <= L - E => K <= L)
      BY <1>9, <1>10
    <3> QED  BY <3>1, <3>2
  <2>7. LiteralFits(rep) /\ Z <= L => n.err = "none"
    <3>1. Z <= L => Len(nm) <= Len(tail)
      BY <1>9, <1>10, <1>15, <2>2
    <3>2. LiteralFits(rep) => Fits(Len(Coded(name, form)))
      BY <1>1, <1>22, <2>1 DEF LiteralFits
    <3> QED  BY <2>1, <2>5, <3>1, <3>2 DEF Succeeds
  <2>8. PICK v : v = decode_string(From(b, K))
    OBVIOUS
  <2>9. CASE n.err # "none"
    <3>1. d = n
      BY <1>14, <1>16, <1>19, <1>22, <2>2, <2>4, <2>9 DEF decode_literal_header, Then
    <3> QED  BY <1>9, <1>15, <1>19, <2>7, <2>9, <3>1
             DEF Takes1, ReadsLiteral, Succeeds
  <2>10. CASE n.err = "none"
    <3>1. d = IF v.err = "none"
                THEN Ok(Literal(NameOf(n.value), v.value), E + n.adv + v.adv)
                ELSE v
      BY <1>14, <1>16, <1>19, <1>22, <2>2, <2>4, <2>6, <2>8, <2>10
      DEF decode_literal_header, Then
    <3>2. LastRead(K, v, text, rep.form, enc, b)
      <4>1. K <= Len(b) /\ K = Len(head)
        BY <1>9, <2>6, <2>10
      <4> QED  BY <1>7, <2>8, <4>1, LastString
    <3>3. /\ v.err = "none" => K + v.adv = Z /\ Z <= L /\ v.value = out
          /\ Fits(size) /\ Z <= L => v.err = "none"
      BY <1>9, <1>15, <1>17, <1>18, <3>2 DEF LastRead, Succeeds
    <3>4. NameRead(rep) = NameOf(nout)
      BY <1>1, <1>22, <2>1, <2>4 DEF NameRead
    <3>5. LiteralFits(rep) => Fits(size)
      BY <1>18 DEF LiteralFits
    <3>6. CASE v.err # "none"
      BY <1>9, <1>15, <1>19, <3>1, <3>3, <3>5, <3>6
      DEF Takes1, ReadsLiteral, Succeeds
    <3>7. CASE v.err = "none"
      <4>1. PICK lit : lit = Literal(NameRead(rep), out)
        OBVIOUS
      <4>2. d = Ok(lit, Z)
        <5>1. d = Ok(Literal(NameOf(n.value), v.value), E + n.adv + v.adv)
          BY <3>1, <3>7
        <5>2. E + n.adv + v.adv = Z /\ v.value = out /\ n.value = nout
          BY <2>6, <2>10, <3>3, <3>7
        <5> QED  BY <3>4, <4>1, <5>1, <5>2, Zenon
      <4>3. d.err = "none" /\ d.value = lit /\ d.adv = Z
        BY <4>2, OkIsOk
      <4>4. Z <= L
        BY <3>3, <3>7
      <4>5. Named(rep)
        BY <1>1, <1>22 DEF Named
      <4> QED  BY <1>9, <1>15, <1>17, <1>19, <4>1, <4>3, <4>4, <4>5
               DEF Takes1, ReadsLiteral, Succeeds
    <3> QED  BY <3>6, <3>7
  <2> QED  BY <2>9, <2>10
<1> QED  BY <1>20, <1>21, <1>22

-----------------------------------------------------------------------------
(* Representations                                                          *)

(* The layouts of the five kinds leave room for their prefixes.             *)
LEMMA LayoutAbove == /\ Above(128, 7)
                     /\ Above(64, 6)
                     /\ Above(0, 4)
                     /\ Above(16, 4)
                     /\ Above(32, 5)
<1>1. 2^7 = 128 /\ 2^6 = 64 /\ 2^4 = 16 /\ 2^5 = 32
  BY SMT
<1> QED  BY <1>1 DEF Above

(* The octets of an integer, and its first.                                 *)
LEMMA IntegerShape ==
    ASSUME NEW value \in Nat, NEW p \in 1 .. 8, NEW first, Above(first, p),
           NEW enc, enc = encode_int(value, p, first)
    PROVE  enc \in Seq(Alphabet) /\ \E x \in Nat : FirstOf(enc, first, p, x)
<1>1. enc \in Seq(Octet)
  BY EncodedShape
<1>2. enc \in Seq(Alphabet)
  BY <1>1, OctetsAmong, SeqMonotonic
<1>3. \E x \in Nat : FirstOf(enc, first, p, x)
  BY FirstOctet
<1> QED  BY <1>2, <1>3

(* What begins with an integer has its first octet.                         *)
LEMMA FirstOfMore ==
    ASSUME NEW a \in Seq(Alphabet), NEW c \in Seq(Alphabet), NEW enc,
           Joined(enc, a, c), NEW first, NEW p, NEW x, FirstOf(a, first, p, x)
    PROVE  FirstOf(enc, first, p, x)
<1>1. enc \in Seq(Alphabet) /\ Len(enc) = Len(a) + Len(c) /\ Begins(enc, a)
  BY BeginsBy
<1>2. PICK K \in Nat, M \in Nat : K = Len(a) /\ M = Len(c) /\ K >= 1
  BY LenProperties DEF FirstOf
<1>3. enc[1] = a[1]
  <2>1. 1 \in 1 .. Len(a)
    BY <1>2
  <2> QED  BY <1>1, <2>1 DEF Begins
<1> QED  BY <1>1, <1>2, <1>3 DEF FirstOf

(* The octets of a literal, and its first.                                  *)
LEMMA LiteralShape ==
    ASSUME NEW rep \in Representations, rep.kind \notin {"Indexed", "SizeUpdate"},
           NEW p \in 1 .. 8, NEW first, Above(first, p),
           NEW enc, enc = LiteralOctets(rep, p, first)
    PROVE  enc \in Seq(Alphabet) /\ \E x \in Nat : FirstOf(enc, first, p, x)
<1>1. PICK index \in Nat, text \in Seq(Octet) : index = rep.index /\ text = rep.value
  BY RepresentationsAssumption DEF Representation
<1>2. PICK ei : ei = encode_int(index, p, first)
  OBVIOUS
<1>3. ei \in Seq(Alphabet) /\ \E x \in Nat : FirstOf(ei, first, p, x)
  BY <1>2, IntegerShape
<1>4. PICK nm \in Seq(Alphabet) : nm = NamePart(rep)
  BY NameIsSeq
<1>5. PICK vl \in Seq(Alphabet) : vl = StringOctets(text, rep.form)
  BY StringIsSeq
<1>6. PICK head \in Seq(Alphabet) : Joined(head, ei, nm)
  <2>1. ei \o nm \in Seq(Alphabet)
    BY <1>3, ConcatProperties
  <2> QED  BY <2>1 DEF Joined
<1>7. Joined(enc, head, vl)
  <2>1. enc = encode_int(rep.index, p, first) \o NamePart(rep)
                \o StringOctets(rep.value, rep.form)
    BY DEF LiteralOctets, NamePart, NameForm
  <2>2. enc = (ei \o nm) \o vl
    BY <1>1, <1>2, <1>4, <1>5, <2>1, Zenon
  <2> QED  BY <1>6, <2>2, Zenon DEF Joined
<1>8. PICK x \in Nat : FirstOf(ei, first, p, x)
  BY <1>3
<1>9. FirstOf(head, first, p, x)
  BY <1>3, <1>6, <1>8, FirstOfMore
<1>10. FirstOf(enc, first, p, x)
  BY <1>7, <1>9, FirstOfMore
<1>11. enc \in Seq(Alphabet) /\ Len(enc) = Len(head) + Len(vl)
  BY <1>7, JoinedLength
<1> QED  BY <1>10, <1>11

(* The octets of a representation, and the kind its first octet shows.      *)
KindShown(enc, kind) == /\ Len(enc) \in Nat
                        /\ Len(enc) >= 1
                        /\ load(enc[1]) = kind

(* Representation::load tells the kinds by the first octet.                 *)
LEMMA KindOf ==
    /\ \A x \in Nat : x <= 2^7 - 1 => load(128 + x) = "Indexed"
    /\ \A x \in Nat : x <= 2^6 - 1 => load(64 + x) = "LiteralWithIndexing"
    /\ \A x \in Nat : x <= 2^4 - 1 => load(0 + x) = "LiteralWithoutIndexing"
    /\ \A x \in Nat : x <= 2^4 - 1 => load(16 + x) = "LiteralNeverIndexed"
    /\ \A x \in Nat : x <= 2^5 - 1 => load(32 + x) = "SizeUpdate"
<1>1. 2^7 - 1 = 127 /\ 2^6 - 1 = 63 /\ 2^4 - 1 = 15 /\ 2^5 - 1 = 31
  BY SMT
<1>2. ASSUME NEW x \in Nat, x <= 127 PROVE load(128 + x) = "Indexed"
  <2>1. 128 + x >= 128
    BY <1>2
  <2> QED  BY <2>1 DEF load
<1>3. ASSUME NEW x \in Nat, x <= 63 PROVE load(64 + x) = "LiteralWithIndexing"
  <2>1. ~(64 + x >= 128) /\ 64 + x \in 64 .. 127
    BY <1>3
  <2> QED  BY <2>1 DEF load
<1>4. ASSUME NEW x \in Nat, x <= 15
      PROVE  /\ load(0 + x) = "LiteralWithoutIndexing"
             /\ load(16 + x) = "LiteralNeverIndexed"
  <2>1. /\ ~(0 + x >= 128) /\ 0 + x \notin 64 .. 127 /\ 0 + x \in 0 .. 15
        /\ ~(16 + x >= 128) /\ 16 + x \notin 64 .. 127
        /\ 16 + x \notin 0 .. 15 /\ 16 + x \in 16 .. 31
    BY <1>4
  <2> QED  BY <2>1 DEF load
<1>5. ASSUME NEW x \in Nat, x <= 31 PROVE load(32 + x) = "SizeUpdate"
  <2>1. /\ ~(32 + x >= 128) /\ 32 + x \notin 64 .. 127 /\ 32 + x \notin 0 .. 15
        /\ 32 + x \notin 16 .. 31 /\ 32 + x \in 32 .. 63
    BY <1>5
  <2> QED  BY <2>1 DEF load
<1> QED  BY <1>1, <1>2, <1>3, <1>4, <1>5

(* The same of an encoded representation.                                   *)
LEMMA KindByFirst ==
    ASSUME NEW enc, NEW x \in Nat
    PROVE  /\ FirstOf(enc, 128, 7, x) => KindShown(enc, "Indexed")
           /\ FirstOf(enc, 64, 6, x) => KindShown(enc, "LiteralWithIndexing")
           /\ FirstOf(enc, 0, 4, x) => KindShown(enc, "LiteralWithoutIndexing")
           /\ FirstOf(enc, 16, 4, x) => KindShown(enc, "LiteralNeverIndexed")
           /\ FirstOf(enc, 32, 5, x) => KindShown(enc, "SizeUpdate")
<1>1. ASSUME FirstOf(enc, 128, 7, x) PROVE KindShown(enc, "Indexed")
  <2>1. x <= 2^7 - 1 /\ enc[1] = 128 + x /\ Len(enc) \in Nat /\ Len(enc) >= 1
    BY <1>1 DEF FirstOf
  <2>2. load(128 + x) = "Indexed"
    BY <2>1, KindOf
  <2> QED  BY <2>1, <2>2 DEF KindShown
<1>2. ASSUME FirstOf(enc, 64, 6, x) PROVE KindShown(enc, "LiteralWithIndexing")
  <2>1. x <= 2^6 - 1 /\ enc[1] = 64 + x /\ Len(enc) \in Nat /\ Len(enc) >= 1
    BY <1>2 DEF FirstOf
  <2>2. load(64 + x) = "LiteralWithIndexing"
    BY <2>1, KindOf
  <2> QED  BY <2>1, <2>2 DEF KindShown
<1>3. ASSUME FirstOf(enc, 0, 4, x) PROVE KindShown(enc, "LiteralWithoutIndexing")
  <2>1. x <= 2^4 - 1 /\ enc[1] = 0 + x /\ Len(enc) \in Nat /\ Len(enc) >= 1
    BY <1>3 DEF FirstOf
  <2>2. load(0 + x) = "LiteralWithoutIndexing"
    BY <2>1, KindOf
  <2> QED  BY <2>1, <2>2 DEF KindShown
<1>4. ASSUME FirstOf(enc, 16, 4, x) PROVE KindShown(enc, "LiteralNeverIndexed")
  <2>1. x <= 2^4 - 1 /\ enc[1] = 16 + x /\ Len(enc) \in Nat /\ Len(enc) >= 1
    BY <1>4 DEF FirstOf
  <2>2. load(16 + x) = "LiteralNeverIndexed"
    BY <2>1, KindOf
  <2> QED  BY <2>1, <2>2 DEF KindShown
<1>5. ASSUME FirstOf(enc, 32, 5, x) PROVE KindShown(enc, "SizeUpdate")
  <2>1. x <= 2^5 - 1 /\ enc[1] = 32 + x /\ Len(enc) \in Nat /\ Len(enc) >= 1
    BY <1>5 DEF FirstOf
  <2>2. load(32 + x) = "SizeUpdate"
    BY <2>1, KindOf
  <2> QED  BY <2>1, <2>2 DEF KindShown
<1> QED  BY <1>1, <1>2, <1>3, <1>4, <1>5

(* Every representation is octets, and shows its kind.                      *)
LEMMA RepresentationShape ==
    ASSUME NEW rep \in Representations
    PROVE  /\ RepresentationOctets(rep) \in Seq(Alphabet)
           /\ KindShown(RepresentationOctets(rep), rep.kind)
<1>1. rep.kind \in Kinds /\ rep.index \in Nat
  BY RepresentationsAssumption DEF Representation
<1>2. PICK enc : enc = RepresentationOctets(rep)
  OBVIOUS
<1>4. 7 \in 1 .. 8 /\ 6 \in 1 .. 8 /\ 4 \in 1 .. 8 /\ 5 \in 1 .. 8
  OBVIOUS
<1>5. CASE rep.kind = "Indexed"
  <2>1. enc = encode_int(rep.index, 7, 128)
    BY <1>2, <1>5 DEF RepresentationOctets
  <2>2. enc \in Seq(Alphabet) /\ \E x \in Nat : FirstOf(enc, 128, 7, x)
    BY <1>1, <1>4, <2>1, LayoutAbove, IntegerShape, ZenonT(60)
  <2>3. PICK x \in Nat : FirstOf(enc, 128, 7, x)
    BY <2>2
  <2>4. KindShown(enc, "Indexed")
    BY <2>3, KindByFirst
  <2> QED  BY <1>2, <1>5, <2>2, <2>4
<1>6. CASE rep.kind = "LiteralWithIndexing"
  <2>1. enc = LiteralOctets(rep, 6, 64)
    BY <1>2, <1>6 DEF RepresentationOctets
  <2>2. enc \in Seq(Alphabet) /\ \E x \in Nat : FirstOf(enc, 64, 6, x)
    BY <1>4, <1>6, <2>1, LayoutAbove, LiteralShape
  <2>3. PICK x \in Nat : FirstOf(enc, 64, 6, x)
    BY <2>2
  <2>4. KindShown(enc, "LiteralWithIndexing")
    BY <2>3, KindByFirst
  <2> QED  BY <1>2, <1>6, <2>2, <2>4
<1>7. CASE rep.kind = "LiteralWithoutIndexing"
  <2>1. enc = LiteralOctets(rep, 4, 0)
    BY <1>2, <1>7 DEF RepresentationOctets
  <2>2. enc \in Seq(Alphabet) /\ \E x \in Nat : FirstOf(enc, 0, 4, x)
    BY <1>4, <1>7, <2>1, LayoutAbove, LiteralShape
  <2>3. PICK x \in Nat : FirstOf(enc, 0, 4, x)
    BY <2>2
  <2>4. KindShown(enc, "LiteralWithoutIndexing")
    BY <2>3, KindByFirst
  <2> QED  BY <1>2, <1>7, <2>2, <2>4
<1>8. CASE rep.kind = "LiteralNeverIndexed"
  <2>1. enc = LiteralOctets(rep, 4, 16)
    BY <1>2, <1>8 DEF RepresentationOctets
  <2>2. enc \in Seq(Alphabet) /\ \E x \in Nat : FirstOf(enc, 16, 4, x)
    BY <1>4, <1>8, <2>1, LayoutAbove, LiteralShape
  <2>3. PICK x \in Nat : FirstOf(enc, 16, 4, x)
    BY <2>2
  <2>4. KindShown(enc, "LiteralNeverIndexed")
    BY <2>3, KindByFirst
  <2> QED  BY <1>2, <1>8, <2>2, <2>4
<1>9. CASE rep.kind = "SizeUpdate"
  <2>1. enc = encode_int(rep.index, 5, 32)
    BY <1>2, <1>9 DEF RepresentationOctets
  <2>2. enc \in Seq(Alphabet) /\ \E x \in Nat : FirstOf(enc, 32, 5, x)
    BY <1>1, <1>4, <2>1, LayoutAbove, IntegerShape
  <2>3. PICK x \in Nat : FirstOf(enc, 32, 5, x)
    BY <2>2
  <2>4. KindShown(enc, "SizeUpdate")
    BY <2>3, KindByFirst
  <2> QED  BY <1>2, <1>9, <2>2, <2>4
<1> QED  BY <1>1, <1>5, <1>6, <1>7, <1>8, <1>9 DEF Kinds

-----------------------------------------------------------------------------
(* One round of the loop                                                    *)

(* A small size update is read with its one octet.                          *)
LEMMA SizeRead ==
    ASSUME NEW b \in Seq(Alphabet), NEW cut \in Seq(Alphabet),
           NEW rest \in Seq(Alphabet), NEW rep \in Representations,
           rep.kind = "SizeUpdate", rep.index < 31, b # <<>>,
           NEW enc, enc = RepresentationOctets(rep),
           SameWhole(b, cut, enc, rest)
    PROVE  Takes1(decode_int(b, 7), enc, b) /\ decode_int(b, 7).err = "none"
<1>1. PICK index \in Nat : index = rep.index /\ index < 31
  BY RepresentationsAssumption DEF Representation
<1>2. enc = <<32 + index>>
  <2>1. index < 2^5 - 1
    BY <1>1, SMT
  <2>2. enc = encode_int(index, 5, 32)
    BY <1>1 DEF RepresentationOctets
  <2> QED  BY <2>1, <2>2 DEF encode_int, encode_int_one_byte
<1>3. PICK L \in Nat : L = Len(b) /\ L >= 1
  <2>1. Len(b) \in Nat /\ Len(b) # 0
    BY EmptySeq, LenProperties
  <2> QED  BY <2>1
<1>4. enc \in Seq(Alphabet) /\ Len(enc) = 1 /\ enc[1] = 32 + index
  <2>1. enc \in Seq(Alphabet)
    BY RepresentationShape
  <2>2. Len(enc) = 1 /\ enc[1] = 32 + index
    BY <1>2
  <2> QED  BY <2>1, <2>2
<1>5. b[1] = 32 + index
  <2>1. SameUpTo(b, enc, 1)
    <3>1. PICK one \in Nat : one = 1 /\ one <= Len(b) /\ one <= Len(enc)
      BY <1>3, <1>4
    <3>2. SameUpTo(b, enc, one)
      BY <1>4, <3>1, SameBeginning
    <3> QED  BY <3>1, <3>2
  <2> QED  BY <1>4, <2>1 DEF SameUpTo
<1>6. PICK value \in Nat, p \in 1 .. 8, first \in Nat :
        value = 32 + index /\ p = 7 /\ first = 0
  OBVIOUS
<1>7. Above(first, p) /\ value < 2^p - 1 /\ b[1] = first + value
  <2>1. 2^7 = 128
    BY SMT
  <2> QED  BY <1>1, <1>5, <1>6, <2>1 DEF Above
<1>8. decode_int(b, p) = Ok(value, 1)
  BY <1>3, <1>7, ReadShort
<1>9. Ok(value, 1).adv = 1 /\ Ok(value, 1).err = "none"
  BY OkIsOk
<1> QED  BY <1>3, <1>4, <1>6, <1>8, <1>9 DEF Takes1

(* The round that is taken is the one of the client's kind.                 *)
LEMMA KindIs ==
    ASSUME NEW kind, Round(kind), buf \in Seq(Alphabet),
           NEW cut \in Seq(Alphabet), NEW rest \in Seq(Alphabet),
           NEW rep \in Representations,
           SameWhole(buf, cut, RepresentationOctets(rep), rest)
    PROVE  kind = rep.kind /\ UNCHANGED <<sent, missing>> /\ buf # <<>>
<1>1. PICK enc \in Seq(Alphabet) : enc = RepresentationOctets(rep)
  BY RepresentationShape
<1>2. KindShown(enc, rep.kind)
  BY <1>1, RepresentationShape
<1>3. buf # <<>> /\ load(buf[1]) = kind /\ UNCHANGED <<sent, missing>>
  BY DEF Round
<1>4. PICK one \in Nat : one = 1 /\ one <= Len(buf) /\ one <= Len(enc)
  <2>1. Len(buf) \in Nat /\ Len(buf) # 0
    BY <1>3, EmptySeq, LenProperties
  <2>2. Len(enc) \in Nat /\ Len(enc) >= 1
    BY <1>2 DEF KindShown
  <2>3. 1 <= Len(buf) /\ 1 <= Len(enc)
    BY <2>1, <2>2
  <2> QED  BY <2>3
<1>5. buf[1] = enc[1]
  <2>1. SameWhole(buf, cut, enc, rest)
    BY <1>1
  <2>2. SameUpTo(buf, enc, one)
    BY <1>4, <2>1, SameBeginning
  <2>3. 1 \in 1 .. one
    BY <1>4
  <2> QED  BY <2>2, <2>3 DEF SameUpTo
<1> QED  BY <1>2, <1>3, <1>5 DEF KindShown

(* What a round reads, for each kind of representation.                     *)
TextSaid(rep) ==
    IF Text(Out(rep.value, rep.form)).ok THEN Text(Out(rep.value, rep.form)).buf
                                         ELSE <<>>

(* A field is what the representation says.                                 *)
Says(rep, field) ==
    /\ field.kind = rep.kind
    /\ rep.kind = "Indexed" => field.index = rep.index
    /\ rep.kind \notin {"Indexed", "SizeUpdate"} =>
         /\ field.name = NameRead(rep) /\ field.text = TextSaid(rep) /\ Named(rep)
         /\ NameRead(rep) = "path" => Text(Out(rep.value, rep.form)).ok

(* When it reads it at all.                                                 *)
RoundFits(rep) ==
    /\ rep.kind = "Indexed" => Fits(rep.index) /\ ~(rep.index > 61 + table_len)
    /\ rep.kind \notin {"Indexed", "SizeUpdate"} =>
         /\ LiteralFits(rep)
         /\ NameRead(rep) = "path" => Text(Out(rep.value, rep.form)).ok

(* A round reads its octets, all of them, and says so.                      *)
ReadsRound(round, rep, enc) ==
    /\ Takes1(round, enc, buf)
    /\ round.err = "none" => Says(rep, round.value)
    /\ Succeeds(round, RoundFits(rep), enc, buf)

(* The entry that a literal with indexing makes.                            *)
EntrySaid(rep) ==
    IF NameRead(rep) = "grpc-encoding" /\ TextSaid(rep) \notin Known
      THEN "other" ELSE NameRead(rep)

(* A round reads all of the representation, or nothing.                     *)
Taken(rep, enc) ==
    /\ Len(enc) <= Len(buf)
    /\ buf' = From(buf, Len(enc))
    /\ outcome' = outcome
    /\ \E field : read' = Append(read, field) /\ Says(rep, field)
    /\ dynamic_table' = IF rep.kind = "LiteralWithIndexing"
                          THEN Append(dynamic_table, EntrySaid(rep))
                          ELSE dynamic_table

(* The loop ends without reading.                                           *)
Left == UNCHANGED <<read, buf, dynamic_table>>

(* A round is taken or the loop ends, and it is taken if it has to be.      *)
Moved(rep, enc) ==
    /\ UNCHANGED <<sent, missing>>
    /\ buf # <<>>
    /\ Taken(rep, enc) \/ Left
    /\ RoundFits(rep) /\ Len(enc) <= Len(buf) => Taken(rep, enc)

(* Consume moves by the octets of the round.                                *)
LEMMA Consumed ==
    ASSUME NEW round, NEW rep, NEW enc, ReadsRound(round, rep, enc), Consume(round),
           UNCHANGED <<sent, missing>>, buf # <<>>,
           round.err = "none" =>
             dynamic_table' = IF rep.kind = "LiteralWithIndexing"
                                THEN Append(dynamic_table, EntrySaid(rep))
                                ELSE dynamic_table,
           round.err # "none" => UNCHANGED dynamic_table
    PROVE  Moved(rep, enc)
<1>1. CASE round.err = "none"
  <2>1. read' = Append(read, round.value) /\ Says(rep, round.value)
    BY <1>1 DEF Consume, ReadsRound
  <2>2. buf' = From(buf, Len(enc)) /\ Len(enc) <= Len(buf) /\ outcome' = outcome
    BY <1>1 DEF Consume, ReadsRound, Takes1
  <2>3. Taken(rep, enc)
    BY <1>1, <2>1, <2>2 DEF Taken
  <2> QED  BY <2>3 DEF Moved
<1>2. CASE round.err # "none"
  <2>1. Left
    BY <1>2 DEF Consume, Left
  <2>2. ~(RoundFits(rep) /\ Len(enc) <= Len(buf))
    BY <1>2 DEF ReadsRound, Succeeds
  <2> QED  BY <2>1, <2>2 DEF Moved
<1> QED  BY <1>1, <1>2

(* What the loop takes from a literal once its header and strings are read. *)
LEMMA LiteralRound ==
    ASSUME NEW rep \in Representations, rep.kind \notin {"Indexed", "SizeUpdate"},
           NEW enc, NEW d, ReadsLiteral(d, rep, enc, buf),
           Succeeds(d, LiteralFits(rep), enc, buf),
           NEW round, round = IF d.err = "none" THEN FieldOf(rep.kind, d) ELSE d
    PROVE  /\ ReadsRound(round, rep, enc)
           /\ round.err = "none" =>
                round.value.name = NameRead(rep) /\ round.value.text = TextSaid(rep)
<1>1. CASE d.err # "none"
  <2>1. ~(LiteralFits(rep) /\ Len(enc) <= Len(buf))
    BY <1>1 DEF Succeeds
  <2>2. ~(RoundFits(rep) /\ Len(enc) <= Len(buf))
    BY <2>1 DEF RoundFits
  <2> QED  BY <1>1, <2>2 DEF ReadsRound, Takes1, Succeeds
<1>2. CASE d.err = "none"
  <2>1. PICK out, name : out = Out(rep.value, rep.form) /\ name = NameRead(rep)
    OBVIOUS
  <2>2. /\ d.value = Literal(name, out) /\ Named(rep)
        /\ d.adv = Len(enc) /\ Len(enc) <= Len(buf)
    BY <1>2, <2>1 DEF ReadsLiteral, Takes1
  <2>3. d.value.name = name /\ d.value.out = out
    BY <2>2 DEF Literal
  <2>4. PICK field : field = Field(rep.kind, 0, name, TextSaid(rep))
    OBVIOUS
  <2>5. round = IF name = "path" /\ ~Text(out).ok THEN Err("invalid huffman")
                ELSE Ok(field, d.adv)
    BY <1>2, <2>1, <2>3, <2>4 DEF FieldOf, TextSaid
  <2>6. CASE name = "path" /\ ~Text(out).ok
    <3>1. round.err # "none"
      <4>1. round = Err("invalid huffman")
        BY <2>5, <2>6
      <4> QED  BY <4>1, ErrIsError
    <3>2. ~RoundFits(rep)
      BY <2>1, <2>6 DEF RoundFits
    <3> QED  BY <3>1, <3>2 DEF ReadsRound, Takes1, Succeeds
  <2>7. CASE ~(name = "path" /\ ~Text(out).ok)
    <3>1. round = Ok(field, d.adv)
      BY <2>5, <2>7
    <3>2. round.err = "none" /\ round.value = field /\ round.adv = d.adv
      BY <3>1, OkIsOk
    <3>3. /\ field.kind = rep.kind /\ field.name = name
          /\ field.text = TextSaid(rep)
      BY <2>4 DEF Field
    <3>4. Says(rep, field)
      BY <2>1, <2>2, <2>7, <3>3 DEF Says
    <3> QED  BY <2>1, <2>2, <3>2, <3>3, <3>4 DEF ReadsRound, Takes1, Succeeds
  <2> QED  BY <2>6, <2>7
<1> QED  BY <1>1, <1>2

(* Whatever round is taken at the beginning of a representation, it is the  *)
(* round of that kind, and takes all its octets or none.                    *)
LEMMA RoundMoves ==
    ASSUME SmallSizes, BlockNext, buf \in Seq(Alphabet),
           NEW cut \in Seq(Alphabet), NEW rest \in Seq(Alphabet),
           NEW rep \in Representations, NEW enc, enc = RepresentationOctets(rep),
           SameWhole(buf, cut, enc, rest)
    PROVE  EndOfBlock \/ Moved(rep, enc)
<1>1. rep.index \in Nat
  BY RepresentationsAssumption DEF Representation
<1>2. 7 \in 1 .. 8 /\ 6 \in 1 .. 8 /\ 4 \in 1 .. 8
  OBVIOUS
<1>3. CASE ReadIndexed
  <2>1. rep.kind = "Indexed" /\ UNCHANGED <<sent, missing>> /\ buf # <<>>
    BY <1>3, KindIs DEF ReadIndexed
  <2>2. enc = encode_int(rep.index, 7, 128)
    BY <2>1 DEF RepresentationOctets
  <2>3. /\ ReadsInteger(decode_int(buf, 7), rep.index, enc, buf)
        /\ Succeeds(decode_int(buf, 7), Fits(rep.index), enc, buf)
    BY <1>1, <1>2, <2>2, LayoutAbove, OctetsAmong, IntegerRead
  <2>4. PICK r : r = decode_int(buf, 7)
    OBVIOUS
  <2>5. /\ r.err = "none" => /\ r.adv = Len(enc) /\ Len(enc) <= Len(buf)
                             /\ r.value = rep.index
        /\ Fits(rep.index) /\ Len(enc) <= Len(buf) => r.err = "none"
    BY <2>3, <2>4 DEF ReadsInteger, Takes1, Succeeds
  <2>6. PICK field : field = Field("Indexed", r.value, "none", <<>>)
    OBVIOUS
  <2>7. PICK round :
          round = IF r.err = "none"
                    THEN IF r.value > 61 + table_len
                           THEN Err("invalid index") ELSE Ok(field, r.adv)
                    ELSE r
    OBVIOUS
  <2>8. Consume(round) /\ UNCHANGED dynamic_table
    BY <1>3, <2>4, <2>6, <2>7 DEF ReadIndexed, Then
  <2>9. ReadsRound(round, rep, enc)
    <3>1. CASE r.err # "none"
      BY <2>1, <2>5, <2>7, <3>1 DEF ReadsRound, Takes1, Succeeds, RoundFits
    <3>2. CASE r.err = "none" /\ r.value > 61 + table_len
      <4>1. round.err # "none"
        BY <2>7, <3>2, ErrIsError
      <4>2. ~RoundFits(rep)
        BY <2>1, <2>5, <3>2 DEF RoundFits
      <4> QED  BY <4>1, <4>2 DEF ReadsRound, Takes1, Succeeds
    <3>3. CASE r.err = "none" /\ ~(r.value > 61 + table_len)
      <4>1. round = Ok(field, r.adv)
        BY <2>7, <3>3
      <4>2. round.err = "none" /\ round.value = field /\ round.adv = r.adv
        BY <4>1, OkIsOk
      <4>3. field.kind = rep.kind /\ field.index = r.value
        BY <2>1, <2>6 DEF Field
      <4>4. Says(rep, field)
        BY <2>1, <2>5, <3>3, <4>3 DEF Says
      <4> QED  BY <2>5, <3>3, <4>2, <4>4 DEF ReadsRound, Takes1, Succeeds
    <3> QED  BY <3>1, <3>2, <3>3
  <2>10. rep.kind # "LiteralWithIndexing"
    BY <2>1
  <2>11. Moved(rep, enc)
    BY <2>1, <2>8, <2>9, <2>10, Consumed
  <2> QED  BY <2>11
<1>4. CASE ReadLiteralWithIndexing
  <2>1. /\ rep.kind = "LiteralWithIndexing"
        /\ UNCHANGED <<sent, missing>> /\ buf # <<>>
    BY <1>4, KindIs DEF ReadLiteralWithIndexing
  <2>2. enc = LiteralOctets(rep, 6, 64)
    BY <2>1 DEF RepresentationOctets
  <2>3. PICK d : d = decode_literal_header(buf, 6)
    OBVIOUS
  <2>4. ReadsLiteral(d, rep, enc, buf) /\ Succeeds(d, LiteralFits(rep), enc, buf)
    BY <1>2, <2>1, <2>2, <2>3, LayoutAbove, LiteralRead
  <2>5. PICK round : /\ round = IF d.err = "none"
                                  THEN FieldOf("LiteralWithIndexing", d) ELSE d
                     /\ round = IF d.err = "none" THEN FieldOf(rep.kind, d) ELSE d
    BY <2>1
  <2>6. /\ ReadsRound(round, rep, enc)
        /\ round.err = "none" =>
             round.value.name = NameRead(rep) /\ round.value.text = TextSaid(rep)
    <3>1. rep.kind \notin {"Indexed", "SizeUpdate"}
      BY <2>1
    <3> QED  BY <2>4, <2>5, <3>1, LiteralRound
  <2>7. PICK entry :
          entry = IF round.value.name = "grpc-encoding"
                       /\ round.value.text \notin Known
                    THEN "other" ELSE round.value.name
    OBVIOUS
  <2>8. /\ Consume(round)
        /\ IF round.err = "none"
             THEN dynamic_table' = Append(dynamic_table, entry)
             ELSE UNCHANGED dynamic_table
    BY <1>4, <2>3, <2>5, <2>7 DEF ReadLiteralWithIndexing, Then
  <2>9. round.err = "none" => entry = EntrySaid(rep)
    BY <2>6, <2>7 DEF EntrySaid
  <2>10. Moved(rep, enc)
    BY <2>1, <2>6, <2>8, <2>9, Consumed
  <2> QED  BY <2>10
<1>5. ASSUME NEW kind \in {"LiteralWithoutIndexing", "LiteralNeverIndexed"},
             ReadLiteral(kind)
      PROVE  Moved(rep, enc)
  <2>1. rep.kind = kind /\ UNCHANGED <<sent, missing>> /\ buf # <<>>
    BY <1>5, KindIs DEF ReadLiteral
  <2>2. PICK first \in {0, 16} : enc = LiteralOctets(rep, 4, first)
    <3>1. CASE kind = "LiteralWithoutIndexing"
      BY <2>1, <3>1 DEF RepresentationOctets
    <3>2. CASE kind = "LiteralNeverIndexed"
      BY <2>1, <3>2 DEF RepresentationOctets
    <3> QED  BY <1>5, <3>1, <3>2
  <2>3. PICK d : d = decode_literal_header(buf, 4)
    OBVIOUS
  <2>4. ReadsLiteral(d, rep, enc, buf) /\ Succeeds(d, LiteralFits(rep), enc, buf)
    <3>1. Above(first, 4) /\ rep.kind \notin {"Indexed", "SizeUpdate"}
      BY <1>5, <2>1, LayoutAbove
    <3> QED  BY <1>2, <2>2, <2>3, <3>1, LiteralRead
  <2>5. PICK round : /\ round = IF d.err = "none" THEN FieldOf(kind, d) ELSE d
                     /\ round = IF d.err = "none" THEN FieldOf(rep.kind, d) ELSE d
    BY <2>1
  <2>6. ReadsRound(round, rep, enc)
    <3>1. rep.kind \notin {"Indexed", "SizeUpdate"}
      BY <1>5, <2>1
    <3> QED  BY <2>4, <2>5, <3>1, LiteralRound
  <2>7. Consume(round) /\ UNCHANGED dynamic_table
    BY <1>5, <2>3, <2>5 DEF ReadLiteral, Then
  <2>8. rep.kind # "LiteralWithIndexing"
    BY <1>5, <2>1
  <2> QED  BY <2>1, <2>6, <2>7, <2>8, Consumed
<1>6. CASE ReadSizeUpdate
  <2>1. rep.kind = "SizeUpdate" /\ UNCHANGED <<sent, missing>> /\ buf # <<>>
    BY <1>6, KindIs DEF ReadSizeUpdate
  <2>2. PICK r : r = decode_int(buf, 7)
    OBVIOUS
  <2>3. r.err = "none" /\ r.adv = Len(enc) /\ Len(enc) <= Len(buf)
    <3>1. Takes1(decode_int(buf, 7), enc, buf) /\ decode_int(buf, 7).err = "none"
      BY <2>1, SizeRead DEF SmallSizes
    <3> QED  BY <2>2, <3>1 DEF Takes1
  <2>4. PICK field : field = Field("SizeUpdate", 0, "none", <<>>)
    OBVIOUS
  <2>5. PICK round : round = Ok(field, r.adv)
    OBVIOUS
  <2>6. Consume(round) /\ UNCHANGED dynamic_table
    BY <1>6, <2>2, <2>3, <2>4, <2>5 DEF ReadSizeUpdate, Then
  <2>7. ReadsRound(round, rep, enc)
    <3>1. round.err = "none" /\ round.value = field /\ round.adv = r.adv
      BY <2>5, OkIsOk
    <3>2. Says(rep, field)
      BY <2>1, <2>4 DEF Says, Field
    <3> QED  BY <2>3, <3>1, <3>2 DEF ReadsRound, Takes1, Succeeds
  <2>8. rep.kind # "LiteralWithIndexing"
    BY <2>1
  <2>9. Moved(rep, enc)
    BY <2>1, <2>6, <2>7, <2>8, Consumed
  <2> QED  BY <2>9
<1>7. CASE EndOfBlock
  BY <1>7
<1>8. CASE ReadLiteral("LiteralWithoutIndexing")
  <2>1. Moved(rep, enc)
    BY <1>5, <1>8
  <2> QED  BY <2>1
<1>9. CASE ReadLiteral("LiteralNeverIndexed")
  <2>1. Moved(rep, enc)
    BY <1>5, <1>9
  <2> QED  BY <2>1
<1> QED  BY <1>3, <1>4, <1>6, <1>7, <1>8, <1>9 DEF BlockNext

-----------------------------------------------------------------------------
(* The block, representation by representation                              *)

(* The representations, encoded.                                            *)
Pieces(reps) == [i \in DOMAIN reps |-> RepresentationOctets(reps[i])]

(* The octets of the block are those of its representations.                *)
LEMMA PiecesShape ==
    ASSUME NEW reps \in Seq(Representations), NEW n \in Nat, n = Len(reps)
    PROVE  /\ Pieces(reps) \in Seq(Seq(Alphabet))
           /\ Len(Pieces(reps)) = n
           /\ \A i \in 1 .. n : Pieces(reps)[i] = RepresentationOctets(reps[i])
           /\ BlockOctets(reps) = FlattenSeq(Pieces(reps))
           /\ BlockOctets(reps) \in Seq(Alphabet)
<1>1. DOMAIN reps = 1 .. n
  BY LenProperties
<1>2. \A i \in 1 .. n : RepresentationOctets(reps[i]) \in Seq(Alphabet)
  <2>1. ASSUME NEW i \in 1 .. n PROVE RepresentationOctets(reps[i]) \in Seq(Alphabet)
    <3>1. reps[i] \in Representations
      BY ElementOfSeq
    <3> QED  BY <3>1, RepresentationShape
  <2> QED  BY <2>1
<1>3. PICK ps : ps = Pieces(reps)
  OBVIOUS
<1>4. ps = [i \in 1 .. n |-> RepresentationOctets(reps[i])]
  BY <1>1, <1>3 DEF Pieces
<1>5. ps \in [1 .. n -> Seq(Alphabet)]
  BY <1>2, <1>4
<1>6. ps \in Seq(Seq(Alphabet)) /\ Len(ps) = n
  BY <1>5
<1>7. BlockOctets(reps) = FlattenSeq(ps)
  BY <1>3, Zenon DEF BlockOctets, Pieces
<1>8. FlattenSeq(ps) \in Seq(Alphabet)
  BY <1>6, FlattenProperties
<1>9. \A i \in 1 .. n : ps[i] = RepresentationOctets(reps[i])
  BY <1>4
<1> QED  BY <1>3, <1>6, <1>7, <1>8, <1>9

(* The octets of the first n representations.                               *)
UpTo(reps, n) == BlockOctets(SubSeq(reps, 1, n))

(* They are octets.                                                         *)
LEMMA UpToIsSeq ==
    ASSUME NEW reps \in Seq(Representations), NEW n \in Nat, n <= Len(reps)
    PROVE  UpTo(reps, n) \in Seq(Alphabet)
<1>1. PICK some \in Seq(Representations) : some = SubSeq(reps, 1, n) /\ Len(some) = n
  <2>1. SubSeq(reps, 1, n) \in Seq(Representations) /\ Len(SubSeq(reps, 1, n)) = n
    BY Parts
  <2> QED  BY <2>1
<1>2. BlockOctets(some) \in Seq(Alphabet)
  BY <1>1, PiecesShape
<1> QED  BY <1>1, <1>2 DEF UpTo

(* One representation more.                                                 *)
LEMMA UpToNext ==
    ASSUME NEW reps \in Seq(Representations), NEW n \in Nat, n + 1 <= Len(reps)
    PROVE  Joined(UpTo(reps, n + 1), UpTo(reps, n), RepresentationOctets(reps[n + 1]))
<1>1. PICK L \in Nat : L = Len(reps)
  BY LenProperties
<1>2. n <= L /\ n + 1 \in Nat /\ n + 1 \in 1 .. L
  BY <1>1, Below
<1>3. PICK a \in Seq(Representations) :
        /\ a = SubSeq(reps, 1, n)
        /\ Len(a) = n
        /\ \A i \in 1 .. n : a[i] = reps[i]
  <2>1. SubSeq(reps, 1, n) \in Seq(Representations) /\ Len(SubSeq(reps, 1, n)) = n
    BY <1>1, <1>2, Parts
  <2>2. \A i \in 1 .. n : SubSeq(reps, 1, n)[i] = reps[i]
    BY <1>1, <1>2
  <2> QED  BY <2>1, <2>2
<1>4. PICK c \in Seq(Representations) :
        /\ c = SubSeq(reps, 1, n + 1)
        /\ Len(c) = n + 1
        /\ \A i \in 1 .. n + 1 : c[i] = reps[i]
  <2>1. /\ SubSeq(reps, 1, n + 1) \in Seq(Representations)
        /\ Len(SubSeq(reps, 1, n + 1)) = n + 1
    BY <1>1, <1>2, Parts
  <2>2. \A i \in 1 .. n + 1 : SubSeq(reps, 1, n + 1)[i] = reps[i]
    BY <1>1, <1>2
  <2> QED  BY <2>1, <2>2
<1>5. PICK enc \in Seq(Alphabet) : enc = RepresentationOctets(reps[n + 1])
  <2>1. reps[n + 1] \in Representations
    BY <1>1, <1>2, ElementOfSeq
  <2> QED  BY <2>1, RepresentationShape
<1>6. PICK pa \in Seq(Seq(Alphabet)) :
        /\ pa = Pieces(a)
        /\ Len(pa) = n
        /\ \A i \in 1 .. n : pa[i] = RepresentationOctets(a[i])
        /\ BlockOctets(a) = FlattenSeq(pa)
  <2>1. /\ Pieces(a) \in Seq(Seq(Alphabet))
        /\ Len(Pieces(a)) = n
        /\ \A i \in 1 .. n : Pieces(a)[i] = RepresentationOctets(a[i])
        /\ BlockOctets(a) = FlattenSeq(Pieces(a))
        /\ BlockOctets(a) \in Seq(Alphabet)
    BY <1>3, PiecesShape
  <2> QED  BY <2>1
<1>7. PICK pc \in Seq(Seq(Alphabet)) :
        /\ pc = Pieces(c)
        /\ Len(pc) = n + 1
        /\ \A i \in 1 .. n + 1 : pc[i] = RepresentationOctets(c[i])
        /\ BlockOctets(c) = FlattenSeq(pc)
  <2>1. /\ Pieces(c) \in Seq(Seq(Alphabet))
        /\ Len(Pieces(c)) = n + 1
        /\ \A i \in 1 .. n + 1 : Pieces(c)[i] = RepresentationOctets(c[i])
        /\ BlockOctets(c) = FlattenSeq(Pieces(c))
        /\ BlockOctets(c) \in Seq(Alphabet)
    BY <1>2, <1>4, PiecesShape
  <2> QED  BY <2>1
<1>8. pc = Append(pa, enc)
  <2>1. PICK ap \in Seq(Seq(Alphabet)) :
          /\ ap = Append(pa, enc)
          /\ Len(ap) = n + 1
          /\ \A i \in 1 .. n : ap[i] = pa[i]
          /\ ap[n + 1] = enc
    <3>1. /\ Append(pa, enc) \in Seq(Seq(Alphabet))
          /\ Len(Append(pa, enc)) = n + 1
          /\ \A i \in 1 .. n : Append(pa, enc)[i] = pa[i]
          /\ Append(pa, enc)[n + 1] = enc
          /\ DOMAIN Append(pa, enc) = 1 .. n + 1
      BY <1>6, Appended
    <3> QED  BY <3>1
  <2>2. \A i \in 1 .. n + 1 : pc[i] = ap[i]
    <3>1. ASSUME NEW i \in 1 .. n + 1 PROVE pc[i] = ap[i]
      <4>1. CASE i = n + 1
        <5>1. n + 1 \in 1 .. n + 1
          BY <1>2
        <5>2. pc[n + 1] = RepresentationOctets(c[n + 1]) /\ c[n + 1] = reps[n + 1]
          BY <1>4, <1>7, <5>1
        <5> QED  BY <1>5, <2>1, <4>1, <5>2
      <4>2. CASE i # n + 1
        <5>1. i \in 1 .. n
          BY <4>2, NotLast
        <5>2. pc[i] = RepresentationOctets(c[i]) /\ c[i] = reps[i]
          BY <1>4, <1>7
        <5>3. ap[i] = RepresentationOctets(a[i]) /\ a[i] = reps[i]
          BY <1>3, <1>6, <2>1, <5>1
        <5> QED  BY <5>2, <5>3
      <4> QED  BY <4>1, <4>2
    <3> QED  BY <3>1
  <2>3. pc = ap
    <3>1. Len(pc) = Len(ap) /\ \A i \in 1 .. Len(pc) : pc[i] = ap[i]
      BY <1>7, <2>1, <2>2
    <3> QED  BY <3>1, SeqEqual
  <2> QED  BY <2>1, <2>3
<1>9. FlattenSeq(Append(pa, enc)) = FlattenSeq(pa) \o enc
  BY FlattenProperties
<1>10. BlockOctets(c) = BlockOctets(a) \o enc
  BY <1>6, <1>7, <1>8, <1>9, Zenon
<1> QED  BY <1>3, <1>4, <1>5, <1>10, Zenon DEF UpTo, Joined

(* All of them, and none.                                                   *)
LEMMA UpToEnds ==
    ASSUME NEW reps \in Seq(Representations)
    PROVE  /\ UpTo(reps, Len(reps)) = BlockOctets(reps)
           /\ UpTo(reps, 0) = <<>>
<1>1. PICK L \in Nat : L = Len(reps)
  BY LenProperties
<1>2. SubSeq(reps, 1, L) = reps
  BY <1>1
<1>3. SubSeq(reps, 1, 0) = <<>>
  BY <1>1
<1>4. PICK none \in Seq(Representations) : none = <<>> /\ Len(none) = 0
  BY EmptySeq
<1>5. PICK ps \in Seq(Seq(Alphabet)) :
        Len(ps) = 0 /\ BlockOctets(none) = FlattenSeq(ps)
  <2>1. PICK zero \in Nat : zero = 0 /\ zero = Len(none)
    BY <1>4
  <2>2. /\ Pieces(none) \in Seq(Seq(Alphabet))
        /\ Len(Pieces(none)) = zero
        /\ \A i \in 1 .. zero : Pieces(none)[i] = RepresentationOctets(none[i])
        /\ BlockOctets(none) = FlattenSeq(Pieces(none))
        /\ BlockOctets(none) \in Seq(Alphabet)
    BY <2>1, PiecesShape
  <2> QED  BY <2>1, <2>2
<1>6. ps = <<>>
  BY <1>5, EmptySeq
<1>7. FlattenSeq(ps) = <<>>
  BY <1>6, FlattenProperties
<1> QED  BY <1>1, <1>2, <1>3, <1>4, <1>5, <1>7, Zenon DEF UpTo

(* The block is what its first n representations make, and more.            *)
LEMMA BeginsBlock ==
    ASSUME NEW reps \in Seq(Representations), NEW n \in Nat, n <= Len(reps)
    PROVE  \E tail \in Seq(Alphabet) :
             Joined(BlockOctets(reps), UpTo(reps, n), tail)
<1>1. PICK L \in Nat : L = Len(reps)
  BY LenProperties
<1>2. PICK W \in Seq(Alphabet) : W = BlockOctets(reps)
  <2>1. BlockOctets(reps) \in Seq(Alphabet)
    BY <1>1, PiecesShape
  <2> QED  BY <2>1
<1> DEFINE T == {m \in Nat : m <= L => \E tail \in Seq(Alphabet) :
                                         Joined(W, UpTo(reps, L - m), tail)}
<1>3. 0 \in T
  <2>1. Joined(W, UpTo(reps, L - 0), <<>>)
    <3>1. L - 0 = L
      OBVIOUS
    <3>2. UpTo(reps, L) = W
      BY <1>1, <1>2, UpToEnds
    <3>3. W \o <<>> = W
      BY ConcatEmptySeq
    <3> QED  BY <3>1, <3>2, <3>3, Zenon DEF Joined
  <2>2. <<>> \in Seq(Alphabet)
    BY EmptySeq
  <2> QED  BY <2>1, <2>2
<1>4. ASSUME NEW m \in Nat, m \in T PROVE m + 1 \in T
  <2>1. CASE ~(m + 1 <= L)
    BY <2>1
  <2>2. CASE m + 1 <= L
    <3>1. PICK k \in Nat : k = L - (m + 1) /\ L - m = k + 1 /\ k + 1 <= L
      <4>1. L - (m + 1) \in Nat /\ L - m = (L - (m + 1)) + 1 /\ (L - (m + 1)) + 1 <= L
        BY <2>2
      <4> QED  BY <4>1
    <3>2. PICK tail \in Seq(Alphabet) : Joined(W, UpTo(reps, k + 1), tail)
      <4>1. m <= L
        BY <2>2
      <4> QED  BY <1>4, <3>1, <4>1
    <3>3. PICK enc \in Seq(Alphabet) : enc = RepresentationOctets(reps[k + 1])
      <4>1. k + 1 \in 1 .. Len(reps)
        BY <1>1, <3>1
      <4>2. reps[k + 1] \in Representations
        BY <4>1, ElementOfSeq
      <4> QED  BY <4>2, RepresentationShape
    <3>4. Joined(UpTo(reps, k + 1), UpTo(reps, k), enc)
      <4>1. k + 1 <= Len(reps)
        BY <1>1, <3>1
      <4> QED  BY <3>3, <4>1, UpToNext
    <3>5. UpTo(reps, k) \in Seq(Alphabet)
      <4>1. k <= Len(reps)
        BY <1>1, <3>1
      <4> QED  BY <4>1, UpToIsSeq
    <3>6. PICK more \in Seq(Alphabet) : more = enc \o tail
      <4>1. enc \o tail \in Seq(Alphabet)
        BY ConcatProperties
      <4> QED  BY <4>1
    <3>7. Joined(W, UpTo(reps, k), more)
      <4>1. Regroups(UpTo(reps, k), enc, tail)
        BY <3>5, Regroup
      <4> QED  BY <3>2, <3>4, <3>6, <4>1, Zenon DEF Regroups, Joined
    <3>8. \E t \in Seq(Alphabet) : Joined(W, UpTo(reps, L - (m + 1)), t)
      BY <3>1, <3>7
    <3> QED  BY <3>8
  <2> QED  BY <2>1, <2>2
<1>5. Nat \subseteq T
  <2> HIDE DEF T
  <2> QED  BY <1>3, <1>4, SetInduction
<1>6. PICK m \in Nat : m = L - n /\ m <= L /\ L - m = n
  <2>1. L - n \in Nat /\ L - n <= L /\ L - (L - n) = n
    BY <1>1
  <2> QED  BY <2>1
<1>7. m \in T
  BY <1>5
<1> QED  BY <1>2, <1>6, <1>7

-----------------------------------------------------------------------------
(* The invariant                                                            *)

(* What the variables hold; the inductive invariant of RoundsMatch.         *)
BTypes == /\ sent \in Seq(Representations)
          /\ Len(sent) <= MaxLength
          /\ missing \in Nat
          /\ missing <= Len(BlockOctets(sent))
          /\ buf \in Seq(Alphabet)
          /\ \E T : read \in Seq(T)
          /\ Len(read) <= Len(sent)

BInv == BTypes /\ RoundsMatch

(* What arrived is the block up to what is missing.                         *)
LEMMA ReceivedShape ==
    ASSUME BTypes
    PROVE  \E cut \in Seq(Alphabet) :
             /\ Received \in Seq(Alphabet)
             /\ Joined(BlockOctets(sent), Received, cut)
             /\ Len(cut) = missing
<1>1. PICK n \in Nat : n = Len(sent)
  BY LenProperties DEF BTypes
<1>2. PICK W \in Seq(Alphabet) : W = BlockOctets(sent)
  <2>1. BlockOctets(sent) \in Seq(Alphabet)
    BY <1>1, PiecesShape DEF BTypes
  <2> QED  BY <2>1
<1>3. PICK M \in Nat : M = Len(W) /\ missing \in Nat /\ missing <= M
  BY <1>2, LenProperties DEF BTypes
<1>4. PICK k \in Nat : k = Len(W) - missing /\ k <= Len(W)
  <2>1. M - missing \in Nat /\ M - missing <= M
    BY <1>3
  <2> QED  BY <1>3, <2>1
<1>5. /\ SubSeq(W, 1, k) \in Seq(Alphabet)
      /\ SubSeq(W, k + 1, Len(W)) \in Seq(Alphabet)
      /\ SubSeq(W, 1, k) \o SubSeq(W, k + 1, Len(W)) = W
  BY <1>4, Parts
<1>6. Received = SubSeq(W, 1, k)
  BY <1>2, <1>4 DEF Received
<1>7. Len(SubSeq(W, k + 1, Len(W))) = missing
  <2>1. Len(SubSeq(W, k + 1, Len(W))) = Len(W) - k
    BY <1>4, Parts
  <2>2. Len(W) - k = missing
    BY <1>3, <1>4
  <2> QED  BY <2>1, <2>2
<1> QED  BY <1>2, <1>5, <1>6, <1>7, Zenon DEF Joined

(* What is unread begins with the rest of the block, or is empty.           *)
LEMMA AtNext ==
    ASSUME BInv, NEW k \in Nat, k = Len(read)
    PROVE  /\ k < Len(sent) =>
                \E cut \in Seq(Alphabet), rest \in Seq(Alphabet) :
                   /\ SameWhole(buf, cut, RepresentationOctets(sent[k + 1]), rest)
                   /\ Len(cut) = missing
           /\ k = Len(sent) => buf = <<>>
<1>1. PICK n \in Nat : n = Len(sent) /\ k <= n
  BY LenProperties DEF BInv, BTypes
<1>2. PICK reps \in Seq(Representations) : reps = sent /\ Len(reps) = n
  BY <1>1 DEF BInv, BTypes
<1>3. PICK W \in Seq(Alphabet) : W = BlockOctets(reps)
  <2>1. BlockOctets(reps) \in Seq(Alphabet)
    BY <1>2, PiecesShape
  <2> QED  BY <2>1
<1>4. PICK cut \in Seq(Alphabet), got \in Seq(Alphabet) :
        got = Received /\ Joined(W, got, cut) /\ Len(cut) = missing
  <2>1. PICK cut \in Seq(Alphabet) :
          /\ Received \in Seq(Alphabet)
          /\ Joined(BlockOctets(sent), Received, cut)
          /\ Len(cut) = missing
    BY ReceivedShape DEF BInv
  <2> QED  BY <1>2, <1>3, <2>1
<1>5. PICK up \in Seq(Alphabet) : up = UpTo(reps, k)
  <2>1. k <= Len(reps)
    BY <1>1, <1>2
  <2> QED  BY <2>1, UpToIsSeq
<1>6. PICK b \in Seq(Alphabet) : b = buf
  BY DEF BInv, BTypes
<1>7. got = up \o b
  BY <1>2, <1>4, <1>5, <1>6, Zenon DEF BInv, RoundsMatch, UpTo
<1>8. PICK more \in Seq(Alphabet) : more = b \o cut /\ Joined(W, up, more)
  <2>1. b \o cut \in Seq(Alphabet)
    BY ConcatProperties
  <2>2. Regroups(up, b, cut)
    BY Regroup
  <2> QED  BY <1>4, <1>7, <2>1, <2>2, Zenon DEF Regroups, Joined
<1>9. ASSUME NEW t \in Seq(Alphabet), Joined(W, up, t) PROVE more = t
  <2>1. SameWhole(up, more, up, t)
    BY <1>8, <1>9, Zenon DEF SameWhole, Joined
  <2> QED  BY <2>1, SameCut
<1>10. ASSUME k < n
       PROVE  \E rest \in Seq(Alphabet) :
                SameWhole(b, cut, RepresentationOctets(reps[k + 1]), rest)
  <2>1. k + 1 \in Nat /\ k + 1 <= Len(reps) /\ k + 1 \in 1 .. Len(reps)
    BY <1>2, <1>10
  <2>2. PICK enc \in Seq(Alphabet) : enc = RepresentationOctets(reps[k + 1])
    <3>1. reps[k + 1] \in Representations
      BY <2>1, ElementOfSeq
    <3> QED  BY <3>1, RepresentationShape
  <2>3. PICK rest \in Seq(Alphabet) : Joined(W, UpTo(reps, k + 1), rest)
    BY <1>3, <2>1, BeginsBlock
  <2>4. Joined(UpTo(reps, k + 1), up, enc)
    BY <1>5, <2>1, <2>2, UpToNext
  <2>5. PICK t \in Seq(Alphabet) : t = enc \o rest /\ Joined(W, up, t)
    <3>1. enc \o rest \in Seq(Alphabet)
      BY ConcatProperties
    <3>2. Regroups(up, enc, rest)
      BY Regroup
    <3> QED  BY <2>3, <2>4, <3>1, <3>2, Zenon DEF Regroups, Joined
  <2>6. more = t
    BY <1>9, <2>5
  <2> QED  BY <1>8, <2>2, <2>5, <2>6, Zenon DEF SameWhole
<1>11. ASSUME k = n PROVE b = <<>>
  <2>1. up = W
    BY <1>2, <1>3, <1>5, <1>11, UpToEnds
  <2>2. Joined(W, up, <<>>) /\ <<>> \in Seq(Alphabet)
    <3>1. up \o <<>> = up
      BY ConcatEmptySeq
    <3> QED  BY <2>1, <3>1, EmptySeq, Zenon DEF Joined
  <2>3. more = <<>>
    BY <1>9, <2>2
  <2>4. Len(b) + Len(cut) = 0
    <3>1. Len(b \o cut) = Len(b) + Len(cut)
      BY ConcatProperties
    <3>2. Len(more) = 0
      BY <2>3, EmptySeq
    <3> QED  BY <1>8, <3>1, <3>2
  <2>5. Len(b) = 0
    <3>1. PICK x \in Nat, y \in Nat : x = Len(b) /\ y = Len(cut)
      BY LenProperties
    <3> QED  BY <2>4, <3>1
  <2> QED  BY <2>5, EmptySeq
<1> QED  BY <1>1, <1>2, <1>4, <1>6, <1>10, <1>11

(* It holds at first.                                                       *)
LEMMA BInvInit == BlockInit => BInv
<1> SUFFICES ASSUME BlockInit PROVE BInv
  OBVIOUS
<1>1. PICK reps \in Seq(Representations), n \in Nat :
        reps = sent /\ n = Len(reps) /\ n <= MaxLength
  <2>1. PICK m \in 1 .. MaxLength : sent \in [1 .. m -> Representations]
    BY DEF BlockInit
  <2>2. m \in Nat
    BY <2>1, BoundsAssumption
  <2>3. sent \in Seq(Representations) /\ Len(sent) = m /\ m <= MaxLength
    BY <2>1, <2>2, BoundsAssumption
  <2> QED  BY <2>3, LenProperties
<1>2. PICK W \in Seq(Alphabet) : W = BlockOctets(sent)
  <2>1. BlockOctets(reps) \in Seq(Alphabet)
    BY <1>1, PiecesShape
  <2> QED  BY <1>1, <2>1
<1>3. missing \in Nat /\ missing <= Len(W)
  BY <1>2, BoundsAssumption DEF BlockInit
<1>4. PICK got \in Seq(Alphabet) : got = Received
  <2>1. PICK M \in Nat : M = Len(W)
    BY LenProperties
  <2>2. PICK k \in Nat : k = Len(W) - missing /\ k <= Len(W)
    <3>1. M - missing \in Nat /\ M - missing <= M
      BY <1>3, <2>1
    <3> QED  BY <2>1, <3>1
  <2>3. SubSeq(W, 1, k) \in Seq(Alphabet)
    BY <2>2, Parts
  <2> QED  BY <1>2, <2>2, <2>3 DEF Received
<1>5. buf = got /\ read = <<>>
  BY <1>4 DEF BlockInit
<1>6. read \in Seq({}) /\ Len(read) = 0
  BY <1>5, EmptySeq
<1>7. BTypes
  <2>1. Len(read) <= Len(sent)
    BY <1>1, <1>6
  <2> QED  BY <1>1, <1>2, <1>3, <1>5, <1>6, <2>1 DEF BTypes
<1>8. RoundsMatch
  <2>1. UpTo(reps, 0) = <<>>
    BY UpToEnds
  <2>2. <<>> \o got = got
    BY ConcatEmptySeq
  <2>3. BlockOctets(SubSeq(sent, 1, 0)) \o got = got
    BY <1>1, <2>1, <2>2, Zenon DEF UpTo
  <2>4. Len(read) = 0
    BY <1>6
  <2> QED  BY <1>4, <1>5, <2>3, <2>4, Zenon DEF RoundsMatch
<1> QED  BY <1>7, <1>8 DEF BInv

(* A round that took all of the representation stands at the next one.      *)
LEMMA Advances ==
    ASSUME BInv, NEW k \in Nat, k = Len(read), k < Len(sent),
           NEW cut \in Seq(Alphabet), NEW rest \in Seq(Alphabet),
           NEW enc, enc = RepresentationOctets(sent[k + 1]),
           SameWhole(buf, cut, enc, rest), Len(enc) <= Len(buf),
           UNCHANGED <<sent, missing>>, buf' = From(buf, Len(enc)),
           NEW field, read' = Append(read, field)
    PROVE  BInv'
<1>1. PICK n \in Nat : n = Len(sent) /\ k + 1 <= n
  BY LenProperties DEF BInv, BTypes
<1>2. PICK reps \in Seq(Representations) : reps = sent /\ Len(reps) = n
  BY <1>1 DEF BInv, BTypes
<1>3. enc \in Seq(Alphabet)
  <2>1. k + 1 \in 1 .. Len(reps)
    BY <1>1, <1>2
  <2>2. reps[k + 1] \in Representations
    BY <2>1, ElementOfSeq
  <2> QED  BY <1>2, <2>2, RepresentationShape
<1>4. PICK b \in Seq(Alphabet) : b = buf
  BY DEF BInv, BTypes
<1>5. PICK left \in Seq(Alphabet) : left = From(b, Len(enc)) /\ Joined(b, enc, left)
  <2>1. SameWhole(b, cut, enc, rest) /\ Len(enc) <= Len(b)
    BY <1>4
  <2>2. Remains(Alphabet, b, cut, enc, rest)
    BY <1>3, <2>1, Cutting
  <2> QED  BY <2>2 DEF Remains
<1>6. buf' = left /\ sent' = reps /\ missing' = missing
  BY <1>2, <1>4, <1>5
<1>7. PICK T : read \in Seq(T)
  BY DEF BInv, BTypes
<1>8. read' \in Seq(T \cup {field}) /\ Len(read') = k + 1
  <2>1. PICK U : U = T \cup {field}
    OBVIOUS
  <2>2. PICK old \in Seq(U) : old = read /\ Len(old) = k
    <3>1. read \in Seq(U)
      BY <1>7, <2>1, SeqMonotonic
    <3> QED  BY <3>1
  <2>3. field \in U
    BY <2>1
  <2>4. Append(old, field) \in Seq(U) /\ Len(Append(old, field)) = k + 1
    BY <2>2, <2>3, Appended
  <2> QED  BY <2>1, <2>2, <2>4
<1>9. BTypes'
  <2>1. /\ missing' \in Nat /\ missing' <= Len(BlockOctets(sent'))
        /\ Len(sent') <= MaxLength
    BY <1>2, <1>6 DEF BInv, BTypes
  <2>2. Len(read') <= Len(sent')
    BY <1>1, <1>2, <1>6, <1>8
  <2>3. \E S : read' \in Seq(S)
    BY <1>8
  <2> QED  BY <1>6, <2>1, <2>2, <2>3 DEF BTypes
<1>10. RoundsMatch'
  <2>1. PICK up \in Seq(Alphabet) : up = UpTo(reps, k)
    <3>1. k <= Len(reps)
      BY <1>1, <1>2
    <3> QED  BY <3>1, UpToIsSeq
  <2>2. Joined(UpTo(reps, k + 1), up, enc)
    <3>1. k + 1 <= Len(reps)
      BY <1>1, <1>2
    <3> QED  BY <1>2, <2>1, <3>1, UpToNext
  <2>3. up \o b = Received
    BY <1>2, <1>4, <2>1, Zenon DEF BInv, RoundsMatch, UpTo
  <2>4. Regroups(up, enc, left)
    BY <1>3, Regroup
  <2>5. UpTo(reps, k + 1) \o left = Received
    BY <1>5, <2>2, <2>3, <2>4, Zenon DEF Regroups, Joined
  <2>6. Received' = Received
    BY <1>2, <1>6 DEF Received
  <2> QED  BY <1>6, <1>8, <2>5, <2>6, Zenon DEF RoundsMatch, UpTo
<1> QED  BY <1>9, <1>10 DEF BInv

(* A step keeps it.                                                         *)
LEMMA BInvSame == BInv /\ UNCHANGED <<sent, missing, buf, read>> => BInv'
  BY DEF BInv, BTypes, RoundsMatch, Received

(* Of a block that arrived whole, all of the next representation is there.  *)
LEMMA Unread ==
    ASSUME BInv, NEW k \in Nat, k = Len(read), k < Len(sent), missing = 0
    PROVE  Len(RepresentationOctets(sent[k + 1])) <= Len(buf) /\ buf # <<>>
<1>1. PICK cut \in Seq(Alphabet), rest \in Seq(Alphabet) :
        /\ SameWhole(buf, cut, RepresentationOctets(sent[k + 1]), rest)
        /\ Len(cut) = missing
  BY AtNext
<1>2. PICK rep \in Representations : rep = sent[k + 1]
  <2>1. k + 1 \in 1 .. Len(sent) /\ sent \in Seq(Representations)
    BY LenProperties DEF BInv, BTypes
  <2> QED  BY <2>1, ElementOfSeq
<1>3. PICK enc \in Seq(Alphabet) :
        enc = RepresentationOctets(rep) /\ enc = RepresentationOctets(sent[k + 1])
  BY <1>2, RepresentationShape
<1>4. PICK b \in Seq(Alphabet) : b = buf
  BY DEF BInv, BTypes
<1>5. Len(b) + Len(cut) = Len(enc) + Len(rest)
  <2>1. /\ Len(b \o cut) = Len(b) + Len(cut)
        /\ Len(enc \o rest) = Len(enc) + Len(rest)
    BY ConcatProperties
  <2> QED  BY <1>1, <1>3, <1>4, <2>1, Zenon DEF SameWhole
<1>6. PICK B \in Nat, E \in Nat, R \in Nat :
        B = Len(b) /\ E = Len(enc) /\ R = Len(rest)
  BY LenProperties
<1>7. E >= 1
  BY <1>3, <1>6, RepresentationShape DEF KindShown
<1>8. B = E + R
  BY <1>1, <1>5, <1>6
<1>9. E <= B /\ B # 0
  BY <1>6, <1>7, <1>8
<1>10. b = <<>> => B = 0
  BY <1>6, EmptySeq
<1> QED  BY <1>3, <1>4, <1>6, <1>9, <1>10

(* The round taken at the client's k+1-st representation.                   *)
RoundAt(k) ==
    /\ k < Len(sent)
    /\ Moved(sent[k + 1], RepresentationOctets(sent[k + 1]))
    /\ Taken(sent[k + 1], RepresentationOctets(sent[k + 1])) => BInv'

(* A step of the loop ends it, or reads the next representation, which there *)
(* is.                                                                      *)
LEMMA RoundTaken ==
    ASSUME SmallSizes, BInv, BlockNext, NEW k \in Nat, k = Len(read)
    PROVE  EndOfBlock \/ RoundAt(k)
<1>1. PICK n \in Nat : n = Len(sent) /\ k <= n
  BY LenProperties DEF BInv, BTypes
<1>2. CASE k = n
  <2>1. buf = <<>>
    BY <1>1, <1>2, AtNext
  <2> QED  BY <2>1 DEF BlockNext, ReadIndexed, ReadLiteralWithIndexing,
                       ReadLiteral, ReadSizeUpdate, Round
<1>3. CASE k < n
  <2>1. k < Len(sent)
    BY <1>1, <1>3
  <2>2. PICK cut \in Seq(Alphabet), rest \in Seq(Alphabet) :
          /\ SameWhole(buf, cut, RepresentationOctets(sent[k + 1]), rest)
          /\ Len(cut) = missing
    BY <2>1, AtNext
  <2>3. PICK rep \in Representations : rep = sent[k + 1]
    <3>1. k + 1 \in 1 .. Len(sent) /\ sent \in Seq(Representations)
      BY <1>1, <1>3 DEF BInv, BTypes
    <3> QED  BY <3>1, ElementOfSeq
  <2>4. PICK enc \in Seq(Alphabet) :
          enc = RepresentationOctets(rep) /\ enc = RepresentationOctets(sent[k + 1])
    BY <2>3, RepresentationShape
  <2>5. SameWhole(buf, cut, enc, rest)
    BY <2>2, <2>4
  <2>6. EndOfBlock \/ Moved(rep, enc)
    <3>1. buf \in Seq(Alphabet)
      BY DEF BInv, BTypes
    <3> QED  BY <2>4, <2>5, <3>1, RoundMoves
  <2>7. ASSUME Moved(rep, enc), Taken(rep, enc) PROVE BInv'
    <3>1. /\ UNCHANGED <<sent, missing>> /\ Len(enc) <= Len(buf)
          /\ buf' = From(buf, Len(enc))
      BY <2>7 DEF Moved, Taken
    <3>2. PICK field : read' = Append(read, field)
      BY <2>7 DEF Taken
    <3> QED  BY <2>1, <2>4, <2>5, <3>1, <3>2, Advances
  <2> QED  BY <2>1, <2>3, <2>4, <2>6, <2>7 DEF RoundAt
<1> QED  BY <1>1, <1>2, <1>3

(* Every step keeps it.                                                     *)
LEMMA BInvStep ==
    SmallSizes => (BInv /\ [BlockNext]_block_vars => BInv')
<1> SUFFICES ASSUME SmallSizes, BInv, [BlockNext]_block_vars PROVE BInv'
  OBVIOUS
<1>1. CASE UNCHANGED block_vars
  BY <1>1, BInvSame DEF block_vars
<1>2. CASE BlockNext
  <2>1. PICK k \in Nat : k = Len(read)
    <3>1. PICK T : read \in Seq(T)
      BY DEF BInv, BTypes
    <3> QED  BY <3>1, LenProperties
  <2>2. EndOfBlock \/ RoundAt(k)
    BY <1>2, <2>1, RoundTaken
  <2>3. CASE EndOfBlock
    <3>1. UNCHANGED <<sent, missing, buf, read>>
      BY <2>3 DEF EndOfBlock
    <3> QED  BY <3>1, BInvSame
  <2>4. CASE RoundAt(k)
    <3>1. CASE Left
      <4>1. UNCHANGED <<sent, missing, buf, read>>
        BY <2>4, <3>1 DEF RoundAt, Moved, Left
      <4> QED  BY <4>1, BInvSame
    <3> QED  BY <2>4, <3>1 DEF RoundAt, Moved
  <2> QED  BY <2>2, <2>3, <2>4
<1> QED  BY <1>1, <1>2

(* RoundsMatch: every round of the loop leaves it where the client's next   *)
(* representation begins, for every set of representations, every length    *)
(* of a block and any number of octets missing at its end, as long as the   *)
(* sizes of the client's table updates fit their prefix of five bits.       *)
THEOREM RoundsMatchHolds == SmallSizes => (BlockSpec => []RoundsMatch)
<1>1. BlockInit => BInv
  BY BInvInit
<1>2. SmallSizes => (BInv /\ [BlockNext]_block_vars => BInv')
  BY BInvStep
<1>3. BInv => RoundsMatch
  BY DEF BInv
<1>4. SUFFICES ASSUME SmallSizes PROVE BlockSpec => []RoundsMatch
  OBVIOUS
<1>5. BInv /\ [BlockNext]_block_vars => BInv'
  BY <1>2, <1>4
<1> QED  BY <1>1, <1>3, <1>5, PTL DEF BlockSpec

-----------------------------------------------------------------------------
(* The entries of the client's table                                        *)

(* How many representations before the i-th made an entry.                  *)
LEMMA EntriesNone == \A reps : Inserted(reps, 1) = {} /\ Entries(reps, 1) = 0
<1>1. ASSUME NEW reps PROVE Inserted(reps, 1) = {} /\ Entries(reps, 1) = 0
  <2>1. Inserted(reps, 1) = {}
    BY DEF Inserted
  <2> QED  BY <2>1, FS_EmptySet DEF Entries
<1> QED  BY <1>1

(* A representation with indexing makes an entry, and no other one does.    *)
LEMMA InsertedNext ==
    ASSUME NEW reps, NEW i \in Nat, i >= 1
    PROVE  Inserted(reps, i + 1) = IF reps[i].kind = "LiteralWithIndexing"
                                     THEN Inserted(reps, i) \cup {i}
                                     ELSE Inserted(reps, i)
  BY DEF Inserted

(* Entries are counted, and there are no more than representations.         *)
Counted(reps, i) == /\ IsFiniteSet(Inserted(reps, i))
                    /\ Entries(reps, i) \in Nat
                    /\ Entries(reps, i) <= i - 1

(* ... so there is one entry more.                                          *)
LEMMA EntriesNext ==
    ASSUME NEW reps, NEW i \in Nat, i >= 1, Counted(reps, i)
    PROVE  /\ Counted(reps, i + 1)
           /\ Entries(reps, i + 1) = IF reps[i].kind = "LiteralWithIndexing"
                                       THEN Entries(reps, i) + 1
                                       ELSE Entries(reps, i)
<1>1. i \notin Inserted(reps, i)
  BY DEF Inserted
<1>2. PICK n, I : /\ n = Entries(reps, i) /\ I = Inserted(reps, i) /\ n \in Nat
                  /\ IsFiniteSet(I) /\ n = Cardinality(I) /\ n <= i - 1
  BY DEF Counted, Entries
<1>3. IsFiniteSet(I \cup {i}) /\ Cardinality(I \cup {i}) = n + 1
  BY <1>1, <1>2, FS_AddElement
<1>4. CASE reps[i].kind = "LiteralWithIndexing"
  <2>1. Inserted(reps, i + 1) = I \cup {i}
    BY <1>2, <1>4, InsertedNext
  <2>2. Entries(reps, i + 1) = n + 1 /\ IsFiniteSet(Inserted(reps, i + 1))
    BY <1>3, <2>1 DEF Entries
  <2>3. n + 1 \in Nat /\ n + 1 <= (i + 1) - 1
    BY <1>2
  <2> QED  BY <1>2, <1>4, <2>2, <2>3 DEF Counted
<1>5. CASE reps[i].kind # "LiteralWithIndexing"
  <2>1. Inserted(reps, i + 1) = I
    BY <1>2, <1>5, InsertedNext
  <2>2. Entries(reps, i + 1) = n /\ IsFiniteSet(Inserted(reps, i + 1))
    BY <1>2, <2>1 DEF Entries
  <2>3. n <= (i + 1) - 1
    BY <1>2
  <2> QED  BY <1>2, <1>5, <2>2, <2>3 DEF Counted
<1> QED  BY <1>4, <1>5

(* Every entry has its place, and every place its entry.                    *)
Placed(reps, i) ==
    /\ Counted(reps, i)
    /\ \A j \in Inserted(reps, i) : /\ Entries(reps, j) \in Nat
                                    /\ Entries(reps, j) < Entries(reps, i)
    /\ \A p \in 1 .. Entries(reps, i) :
         \E j \in Inserted(reps, i) : Entries(reps, j) + 1 = p

(* One representation more keeps the entries at their places.               *)
LEMMA PlacedNext ==
    ASSUME NEW reps, NEW i \in Nat, i >= 1, Placed(reps, i)
    PROVE  Placed(reps, i + 1)
<1>1. PICK n \in Nat : n = Entries(reps, i)
  BY DEF Placed, Counted
<1>2. Counted(reps, i + 1)
  BY EntriesNext DEF Placed
<1>3. CASE reps[i].kind = "LiteralWithIndexing"
  <2>1. /\ Entries(reps, i + 1) = n + 1
        /\ Inserted(reps, i + 1) = Inserted(reps, i) \cup {i}
    BY <1>1, <1>3, EntriesNext, InsertedNext DEF Placed
  <2>2. ASSUME NEW j \in Inserted(reps, i + 1)
        PROVE  Entries(reps, j) \in Nat /\ Entries(reps, j) < n + 1
    <3>1. CASE j \in Inserted(reps, i)
      <4>1. Entries(reps, j) \in Nat /\ Entries(reps, j) < n
        BY <1>1, <3>1 DEF Placed
      <4> QED  BY <4>1
    <3>2. CASE j = i
      BY <1>1, <3>2
    <3> QED  BY <2>1, <2>2, <3>1, <3>2
  <2>3. ASSUME NEW p \in 1 .. n + 1
        PROVE  \E j \in Inserted(reps, i + 1) : Entries(reps, j) + 1 = p
    <3>1. CASE p = n + 1
      BY <1>1, <2>1, <3>1
    <3>2. CASE p # n + 1
      <4>1. p \in 1 .. n
        BY <3>2, NotLast
      <4>2. PICK j \in Inserted(reps, i) : Entries(reps, j) + 1 = p
        BY <1>1, <4>1 DEF Placed
      <4> QED  BY <2>1, <4>2
    <3> QED  BY <3>1, <3>2
  <2> QED  BY <1>2, <2>1, <2>2, <2>3 DEF Placed
<1>4. CASE reps[i].kind # "LiteralWithIndexing"
  <2>1. /\ Entries(reps, i + 1) = n
        /\ Inserted(reps, i + 1) = Inserted(reps, i)
    BY <1>1, <1>4, EntriesNext, InsertedNext DEF Placed
  <2> QED  BY <1>1, <1>2, <2>1 DEF Placed
<1> QED  BY <1>3, <1>4

(* Each entry is where the number of the earlier ones says.                 *)
LEMMA AllPlaced == \A reps : \A i \in Nat : Placed(reps, i + 1)
<1> SUFFICES ASSUME NEW reps PROVE \A i \in Nat : Placed(reps, i + 1)
  OBVIOUS
<1> DEFINE T == {i \in Nat : Placed(reps, i + 1)}
<1>1. 0 \in T
  <2>1. Inserted(reps, 1) = {} /\ Entries(reps, 1) = 0
    BY EntriesNone
  <2>2. Counted(reps, 1)
    BY <2>1, FS_EmptySet DEF Counted
  <2>3. Placed(reps, 1)
    BY <2>1, <2>2 DEF Placed
  <2> QED  BY <2>3
<1>2. ASSUME NEW i \in Nat, i \in T PROVE i + 1 \in T
  <2>1. i + 1 \in Nat /\ i + 1 >= 1
    OBVIOUS
  <2>2. Placed(reps, (i + 1) + 1)
    BY <1>2, <2>1, PlacedNext
  <2> QED  BY <2>1, <2>2
<1> HIDE DEF T
<1>3. Nat \subseteq T
  BY <1>1, <1>2, SetInduction
<1> QED  BY <1>3 DEF T

-----------------------------------------------------------------------------
(* The names the client means                                               *)

(* One step of the recursion in NamesMeant.                                 *)
Meant(reps, n) == {j \in Inserted(reps, n) :
                     Entries(reps, n) - Entries(reps, j) = reps[n].index - 61}

(* The name of the n-th representation by those of earlier ones.            *)
NameBy(reps, f, n) ==
    LET made == CHOOSE j \in Meant(reps, n) : TRUE
    IN  IF reps[n].index = 0 THEN reps[n].name
        ELSE IF reps[n].index \in {4, 5} THEN "path"
        ELSE IF Meant(reps, n) = {} THEN "other"
        ELSE Kept(f[made], reps[made])

(* It looks at earlier names only.                                          *)
LEMMA NameByEarlier ==
    ASSUME NEW reps, NEW n \in Nat, NEW f, NEW g,
           \A j \in 1 .. n - 1 : f[j] = g[j]
    PROVE  NameBy(reps, f, n) = NameBy(reps, g, n)
<1>1. Meant(reps, n) \subseteq 1 .. n - 1
  BY DEF Meant, Inserted
<1>2. CASE Meant(reps, n) = {}
  BY <1>2, Zenon DEF NameBy
<1>3. CASE Meant(reps, n) # {}
  <2>1. PICK made : made = CHOOSE j \in Meant(reps, n) : TRUE
    OBVIOUS
  <2>2. f[made] = g[made]
    BY <1>1, <1>3, <2>1
  <2> QED  BY <2>1, <2>2, Zenon DEF NameBy
<1> QED  BY <1>2, <1>3

(* The names up to any representation can be told: that of an entry is told *)
(* before it is used.                                                       *)
LEMMA NamesExist ==
    \A reps : \A n \in Nat : \E f : f = [m \in 1 .. n |-> NameBy(reps, f, m)]
<1> SUFFICES ASSUME NEW reps
             PROVE  \A n \in Nat : \E f : f = [m \in 1 .. n |-> NameBy(reps, f, m)]
  OBVIOUS
<1> DEFINE T == {n \in Nat : \E f : f = [m \in 1 .. n |-> NameBy(reps, f, m)]}
<1>1. 0 \in T
  <2>1. PICK f : f = [m \in 1 .. 0 |-> reps]
    OBVIOUS
  <2>2. f = [m \in 1 .. 0 |-> NameBy(reps, f, m)]
    BY <2>1
  <2> QED  BY <2>2
<1>2. ASSUME NEW n \in Nat, n \in T PROVE n + 1 \in T
  <2>1. PICK f : f = [m \in 1 .. n |-> NameBy(reps, f, m)]
    BY <1>2
  <2>2. PICK g : g = [m \in 1 .. n + 1 |-> NameBy(reps, f, m)]
    OBVIOUS
  <2>3. \A m \in 1 .. n : g[m] = f[m]
    <3>1. ASSUME NEW m \in 1 .. n PROVE g[m] = f[m]
      <4>1. m \in 1 .. n + 1
        OBVIOUS
      <4>2. g[m] = NameBy(reps, f, m) /\ f[m] = NameBy(reps, f, m)
        BY <2>1, <2>2, <4>1, Zenon
      <4> QED  BY <4>2
    <3> QED  BY <3>1
  <2>4. \A m \in 1 .. n + 1 : NameBy(reps, g, m) = NameBy(reps, f, m)
    <3>1. ASSUME NEW m \in 1 .. n + 1 PROVE NameBy(reps, g, m) = NameBy(reps, f, m)
      <4>1. m \in Nat /\ \A j \in 1 .. m - 1 : j \in 1 .. n
        OBVIOUS
      <4>2. \A j \in 1 .. m - 1 : g[j] = f[j]
        BY <2>3, <4>1
      <4> QED  BY <4>1, <4>2, NameByEarlier
    <3> QED  BY <3>1
  <2>5. g = [m \in 1 .. n + 1 |-> NameBy(reps, g, m)]
    BY <2>2, <2>4
  <2>6. n + 1 \in Nat
    OBVIOUS
  <2> QED  BY <2>5, <2>6
<1> HIDE DEF T
<1>3. Nat \subseteq T
  BY <1>1, <1>2, SetInduction
<1> QED  BY <1>3 DEF T

(* NamesMeant is what its definition says: the recursion is well founded.   *)
LEMMA NamesMeantDef ==
    ASSUME NEW reps \in Seq(Representations), NEW n \in 1 .. Len(reps)
    PROVE  NamesMeant(reps)[n] = NameBy(reps, NamesMeant(reps), n)
<1>1. PICK L \in Nat : L = Len(reps) /\ DOMAIN reps = 1 .. L
  BY LenProperties
<1>2. NamesMeant(reps)
        = CHOOSE f : f = [m \in DOMAIN reps |-> NameBy(reps, f, m)]
  BY Zenon DEF NamesMeant, NameBy, Meant
<1>3. \E f : f = [m \in 1 .. L |-> NameBy(reps, f, m)]
  BY NamesExist
<1>4. PICK f : f = NamesMeant(reps)
  OBVIOUS
<1>5. f = [m \in 1 .. L |-> NameBy(reps, f, m)]
  BY <1>1, <1>2, <1>3, <1>4, Zenon
<1>6. n \in 1 .. L
  BY <1>1
<1> QED  BY <1>4, <1>5, <1>6, Zenon

-----------------------------------------------------------------------------
(* The names the decoder looks for                                          *)

(* How many bits the letters of those names take.                           *)
Wide(x, w) == x \in Octet /\ w \in Nat /\ Len(Code[x]) = w

(* The width of a symbol is that of ENCODE_TABLE.                           *)
LEMMA CodeLength ==
    ASSUME NEW x \in Octet, NEW w \in Nat, ENCODE_TABLE[x + 1][1] = w
    PROVE  Wide(x, w)
<1>1. x \in Symbols
  BY DEF Octet, Symbols, EOS
<1>2. Code[x] = [i \in 1 .. w |-> (ENCODE_TABLE[x + 1][2] \div 2^(w - i)) % 2]
  BY <1>1 DEF Code, BitsOf
<1>3. Len(Code[x]) = w
  BY <1>2
<1> QED  BY <1>3 DEF Wide

(* The widths of the letters of the three names.                            *)
LEMMA Letters ==
    /\ Wide(45, 6)
    /\ Wide(58, 7)
    /\ Wide(97, 5)
    /\ Wide(99, 5)
    /\ Wide(100, 6)
    /\ Wide(101, 5)
    /\ Wide(103, 6)
    /\ Wide(104, 6)
    /\ Wide(105, 5)
    /\ Wide(110, 6)
    /\ Wide(111, 5)
    /\ Wide(112, 6)
    /\ Wide(114, 6)
    /\ Wide(116, 5)
<1>1. /\ ENCODE_TABLE[46][1] = 6
      /\ ENCODE_TABLE[59][1] = 7
      /\ ENCODE_TABLE[98][1] = 5
      /\ ENCODE_TABLE[100][1] = 5
      /\ ENCODE_TABLE[101][1] = 6
      /\ ENCODE_TABLE[102][1] = 5
      /\ ENCODE_TABLE[104][1] = 6
      /\ ENCODE_TABLE[105][1] = 6
      /\ ENCODE_TABLE[106][1] = 5
      /\ ENCODE_TABLE[111][1] = 6
      /\ ENCODE_TABLE[112][1] = 5
      /\ ENCODE_TABLE[113][1] = 6
      /\ ENCODE_TABLE[115][1] = 6
      /\ ENCODE_TABLE[117][1] = 5
  <2>1. PICK T : T = ENCODE_TABLE
    OBVIOUS
  <2>2. /\ T[46][1] = 6
        /\ T[59][1] = 7
        /\ T[98][1] = 5
        /\ T[100][1] = 5
        /\ T[101][1] = 6
        /\ T[102][1] = 5
        /\ T[104][1] = 6
        /\ T[105][1] = 6
        /\ T[106][1] = 5
        /\ T[111][1] = 6
        /\ T[112][1] = 5
        /\ T[113][1] = 6
        /\ T[115][1] = 6
        /\ T[117][1] = 5
    BY <2>1, SMTT(60) DEF ENCODE_TABLE
  <2> QED  BY <2>1, <2>2
<1>2. Wide(45, 6)
  <2>1. 45 \in Octet /\ 45 + 1 = 46
    BY DEF Octet
  <2>2. ENCODE_TABLE[45 + 1][1] = 6
    BY <1>1, <2>1
  <2> QED  BY <2>1, <2>2, CodeLength
<1>3. Wide(58, 7)
  <2>1. 58 \in Octet /\ 58 + 1 = 59
    BY DEF Octet
  <2>2. ENCODE_TABLE[58 + 1][1] = 7
    BY <1>1, <2>1
  <2> QED  BY <2>1, <2>2, CodeLength
<1>4. Wide(97, 5)
  <2>1. 97 \in Octet /\ 97 + 1 = 98
    BY DEF Octet
  <2>2. ENCODE_TABLE[97 + 1][1] = 5
    BY <1>1, <2>1
  <2> QED  BY <2>1, <2>2, CodeLength
<1>5. Wide(99, 5)
  <2>1. 99 \in Octet /\ 99 + 1 = 100
    BY DEF Octet
  <2>2. ENCODE_TABLE[99 + 1][1] = 5
    BY <1>1, <2>1
  <2> QED  BY <2>1, <2>2, CodeLength
<1>6. Wide(100, 6)
  <2>1. 100 \in Octet /\ 100 + 1 = 101
    BY DEF Octet
  <2>2. ENCODE_TABLE[100 + 1][1] = 6
    BY <1>1, <2>1
  <2> QED  BY <2>1, <2>2, CodeLength
<1>7. Wide(101, 5)
  <2>1. 101 \in Octet /\ 101 + 1 = 102
    BY DEF Octet
  <2>2. ENCODE_TABLE[101 + 1][1] = 5
    BY <1>1, <2>1
  <2> QED  BY <2>1, <2>2, CodeLength
<1>8. Wide(103, 6)
  <2>1. 103 \in Octet /\ 103 + 1 = 104
    BY DEF Octet
  <2>2. ENCODE_TABLE[103 + 1][1] = 6
    BY <1>1, <2>1
  <2> QED  BY <2>1, <2>2, CodeLength
<1>9. Wide(104, 6)
  <2>1. 104 \in Octet /\ 104 + 1 = 105
    BY DEF Octet
  <2>2. ENCODE_TABLE[104 + 1][1] = 6
    BY <1>1, <2>1
  <2> QED  BY <2>1, <2>2, CodeLength
<1>10. Wide(105, 5)
  <2>1. 105 \in Octet /\ 105 + 1 = 106
    BY DEF Octet
  <2>2. ENCODE_TABLE[105 + 1][1] = 5
    BY <1>1, <2>1
  <2> QED  BY <2>1, <2>2, CodeLength
<1>11. Wide(110, 6)
  <2>1. 110 \in Octet /\ 110 + 1 = 111
    BY DEF Octet
  <2>2. ENCODE_TABLE[110 + 1][1] = 6
    BY <1>1, <2>1
  <2> QED  BY <2>1, <2>2, CodeLength
<1>12. Wide(111, 5)
  <2>1. 111 \in Octet /\ 111 + 1 = 112
    BY DEF Octet
  <2>2. ENCODE_TABLE[111 + 1][1] = 5
    BY <1>1, <2>1
  <2> QED  BY <2>1, <2>2, CodeLength
<1>13. Wide(112, 6)
  <2>1. 112 \in Octet /\ 112 + 1 = 113
    BY DEF Octet
  <2>2. ENCODE_TABLE[112 + 1][1] = 6
    BY <1>1, <2>1
  <2> QED  BY <2>1, <2>2, CodeLength
<1>14. Wide(114, 6)
  <2>1. 114 \in Octet /\ 114 + 1 = 115
    BY DEF Octet
  <2>2. ENCODE_TABLE[114 + 1][1] = 6
    BY <1>1, <2>1
  <2> QED  BY <2>1, <2>2, CodeLength
<1>15. Wide(116, 5)
  <2>1. 116 \in Octet /\ 116 + 1 = 117
    BY DEF Octet
  <2>2. ENCODE_TABLE[116 + 1][1] = 5
    BY <1>1, <2>1
  <2> QED  BY <2>1, <2>2, CodeLength
<1> QED  BY <1>2, <1>3, <1>4, <1>5, <1>6, <1>7, <1>8, <1>9, <1>10, <1>11, <1>12, <1>13, <1>14, <1>15

(* The codes of the symbols of a text, one after another.                   *)
LEMMA CodesShape ==
    ASSUME NEW src \in Seq(Octet), NEW k \in Nat, k = Len(src)
    PROVE  /\ CodesOf(src) \in Seq(Seq(BitValues))
           /\ Len(CodesOf(src)) = k
           /\ \A i \in 1 .. k : CodesOf(src)[i] = Code[src[i]]
           /\ Bits(src) = FlattenSeq(CodesOf(src))
<1>1. DOMAIN src = 1 .. k
  BY LenProperties
<1>2. \A i \in 1 .. k : Code[src[i]] \in Seq(BitValues)
  <2>1. \A y \in Octet : y \in Symbols
    BY DEF Octet, Symbols, EOS
  <2> QED  BY <1>1, <2>1, CodeIsSeq, ElementOfSeq
<1>3. PICK f : f = CodesOf(src)
  OBVIOUS
<1>4. f = [i \in 1 .. k |-> Code[src[i]]]
  BY <1>1, <1>3, Zenon DEF CodesOf
<1>5. f \in [1 .. k -> Seq(BitValues)]
  BY <1>2, <1>4
<1>6. f \in Seq(Seq(BitValues)) /\ Len(f) = k
  BY <1>5
<1>7. \A i \in 1 .. k : f[i] = Code[src[i]]
  BY <1>4
<1>8. Bits(src) = FlattenSeq(f)
  BY <1>3, Zenon DEF Bits, CodesOf
<1> QED  BY <1>3, <1>6, <1>7, <1>8

(* One symbol more adds its width.                                          *)
LEMMA BitsLonger ==
    ASSUME NEW src \in Seq(Octet), NEW x, NEW w, Wide(x, w),
           NEW n \in Nat, Len(Bits(src)) = n
    PROVE  Len(Bits(Append(src, x))) = n + w
<1>1. PICK k \in Nat : k = Len(src)
  BY LenProperties
<1>2. x \in Octet /\ w \in Nat /\ Len(Code[x]) = w
  BY DEF Wide
<1>3. PICK code \in Seq(BitValues) : code = Code[x]
  <2>1. x \in Symbols
    BY <1>2 DEF Octet, Symbols, EOS
  <2> QED  BY <2>1, CodeIsSeq
<1>4. PICK cs \in Seq(Seq(BitValues)) :
        /\ cs = CodesOf(src)
        /\ Len(cs) = k
        /\ \A i \in 1 .. k : cs[i] = Code[src[i]]
        /\ Bits(src) = FlattenSeq(cs)
  <2>1. /\ CodesOf(src) \in Seq(Seq(BitValues))
        /\ Len(CodesOf(src)) = k
        /\ \A i \in 1 .. k : CodesOf(src)[i] = Code[src[i]]
        /\ Bits(src) = FlattenSeq(CodesOf(src))
    BY <1>1, CodesShape
  <2> QED  BY <2>1
<1>5. PICK ap \in Seq(Octet) : /\ ap = Append(src, x)
                              /\ Len(ap) = k + 1
                              /\ \A i \in 1 .. k : ap[i] = src[i]
                              /\ ap[k + 1] = x
  <2>1. /\ Append(src, x) \in Seq(Octet)
        /\ Len(Append(src, x)) = k + 1
        /\ \A i \in 1 .. k : Append(src, x)[i] = src[i]
        /\ Append(src, x)[k + 1] = x
        /\ DOMAIN Append(src, x) = 1 .. k + 1
    BY <1>1, <1>2, Appended
  <2> QED  BY <2>1
<1>6. PICK ac \in Seq(Seq(BitValues)) : /\ ac = Append(cs, code)
                                       /\ Len(ac) = k + 1
                                       /\ \A i \in 1 .. k : ac[i] = cs[i]
                                       /\ ac[k + 1] = code
  <2>1. /\ Append(cs, code) \in Seq(Seq(BitValues))
        /\ Len(Append(cs, code)) = k + 1
        /\ \A i \in 1 .. k : Append(cs, code)[i] = cs[i]
        /\ Append(cs, code)[k + 1] = code
        /\ DOMAIN Append(cs, code) = 1 .. k + 1
    BY <1>4, Appended, SMTT(60)
  <2> QED  BY <2>1, Zenon
<1>7. PICK as \in Seq(Seq(BitValues)) :
        /\ Len(as) = k + 1
        /\ \A i \in 1 .. k + 1 : as[i] = Code[ap[i]]
        /\ Bits(ap) = FlattenSeq(as)
  <2>1. PICK m \in Nat : m = k + 1 /\ m = Len(ap)
    BY <1>5
  <2>2. /\ CodesOf(ap) \in Seq(Seq(BitValues))
        /\ Len(CodesOf(ap)) = m
        /\ \A i \in 1 .. m : CodesOf(ap)[i] = Code[ap[i]]
        /\ Bits(ap) = FlattenSeq(CodesOf(ap))
    BY <2>1, CodesShape
  <2> QED  BY <2>1, <2>2
<1>8. as = ac
  <2>1. \A i \in 1 .. k + 1 : as[i] = ac[i]
    <3>1. ASSUME NEW i \in 1 .. k + 1 PROVE as[i] = ac[i]
      <4>0. as[i] = Code[ap[i]]
        BY <1>7
      <4>1. CASE i = k + 1
        <5>1. ap[i] = x /\ ac[i] = code
          BY <1>5, <1>6, <4>1
        <5> QED  BY <1>3, <4>0, <5>1, Zenon
      <4>2. CASE i # k + 1
        <5>1. i \in 1 .. k
          BY <4>2, NotLast
        <5>2. ac[i] = cs[i] /\ cs[i] = Code[src[i]] /\ ap[i] = src[i]
          BY <1>4, <1>5, <1>6, <5>1
        <5> QED  BY <4>0, <5>2, Zenon
      <4> QED  BY <4>1, <4>2
    <3> QED  BY <3>1
  <2>2. Len(as) = Len(ac) /\ \A i \in 1 .. Len(as) : as[i] = ac[i]
    BY <1>6, <1>7, <2>1
  <2> QED  BY <2>2, SeqEqual
<1>9. FlattenSeq(Append(cs, code)) = FlattenSeq(cs) \o code
  BY FlattenProperties
<1>10. PICK B \in Seq(BitValues) : B = Bits(src)
  BY BitsIsSeq
<1>11. Bits(ap) = B \o code
  BY <1>4, <1>6, <1>7, <1>8, <1>9, <1>10, Zenon
<1>12. Len(B \o code) = Len(B) + Len(code)
  BY ConcatProperties
<1>13. Len(B) = n /\ Len(code) = w
  BY <1>2, <1>3, <1>10
<1> QED  BY <1>5, <1>11, <1>12, <1>13

(* No symbols, no bits.                                                     *)
LEMMA BitsNone == Len(Bits(<<>>)) = 0
<1>1. PICK none \in Seq(Seq(BitValues)) : none = <<>>
  BY EmptySeq
<1>2. [i \in DOMAIN <<>> |-> Code[<<>>[i]]] = <<>>
  OBVIOUS
<1>3. FlattenSeq(<<>>) = <<>>
  BY <1>1, FlattenProperties
<1>4. Bits(<<>>) = <<>>
  BY <1>2, <1>3, Zenon DEF Bits
<1> QED  BY <1>4

(* The bits of the first k letters.                                         *)
BitsUpTo(src, k, n) == /\ src \in Seq(Octet) /\ k \in Nat /\ n \in Nat
                       /\ k <= Len(src)
                       /\ Len(Bits(SubSeq(src, 1, k))) = n

(* The same for the beginning of a text,                                    *)
LEMMA BitsMore ==
    ASSUME NEW src, NEW k, NEW n, BitsUpTo(src, k, n), NEW x, NEW w, Wide(x, w),
           k + 1 <= Len(src), src[k + 1] = x
    PROVE  BitsUpTo(src, k + 1, n + w)
<1>1. /\ src \in Seq(Octet) /\ k \in Nat /\ n \in Nat /\ k <= Len(src)
      /\ Len(Bits(SubSeq(src, 1, k))) = n
  BY DEF BitsUpTo
<1>2. PICK a \in Seq(Octet) : a = SubSeq(src, 1, k)
  <2>1. SubSeq(src, 1, k) \in Seq(Octet)
    BY <1>1, Parts
  <2> QED  BY <2>1
<1>3. Len(Bits(Append(a, x))) = n + w
  BY <1>1, <1>2, BitsLonger
<1>4. SubSeq(src, 1, k + 1) = Append(SubSeq(src, 1, k), src[k + 1])
  BY <1>1
<1>5. k + 1 \in Nat /\ n + w \in Nat
  BY <1>1 DEF Wide
<1> QED  BY <1>1, <1>2, <1>3, <1>4, <1>5, Zenon DEF BitsUpTo

(* from none of it                                                          *)
LEMMA BitsStart ==
    ASSUME NEW src \in Seq(Octet)
    PROVE  BitsUpTo(src, 0, 0)
<1>1. SubSeq(src, 1, 0) = <<>> /\ 0 <= Len(src)
  BY LenProperties
<1> QED  BY <1>1, BitsNone DEF BitsUpTo

(* to all of it.                                                            *)
LEMMA BitsEnd ==
    ASSUME NEW src, NEW n, BitsUpTo(src, Len(src), n)
    PROVE  Len(Bits(src)) = n
<1>1. src \in Seq(Octet)
  BY DEF BitsUpTo
<1>2. SubSeq(src, 1, Len(src)) = src
  BY <1>1
<1> QED  BY <1>2, Zenon DEF BitsUpTo

(* Huffman makes each of the three names shorter. That tells their coded    *)
(* form from any plain one, by its length.                                  *)
LEMMA PATHBits == PATH \in Seq(Octet) /\ Len(PATH) = 5 /\ Len(Bits(PATH)) = 29
<1>1. PATH \in Seq(Octet) /\ Len(PATH) = 5
  BY DEF PATH, Octet
<1>2. PATH[1] = 58 /\ PATH[2] = 112 /\ PATH[3] = 97 /\ PATH[4] = 116 /\ PATH[5] = 104
  BY DEF PATH
<1>3. BitsUpTo(PATH, 0, 0)
  BY <1>1, BitsStart
<1>4. BitsUpTo(PATH, 1, 7)
  <2>1. 0 + 1 = 1 /\ 0 + 7 = 7 /\ 0 + 1 <= Len(PATH)
    BY <1>1
  <2>2. Wide(58, 7) /\ PATH[0 + 1] = 58
    BY <1>2, <2>1, Letters
  <2>3. BitsUpTo(PATH, 0 + 1, 0 + 7)
    BY <1>3, <2>1, <2>2, BitsMore
  <2> QED  BY <2>1, <2>3
<1>5. BitsUpTo(PATH, 2, 13)
  <2>1. 1 + 1 = 2 /\ 7 + 6 = 13 /\ 1 + 1 <= Len(PATH)
    BY <1>1
  <2>2. Wide(112, 6) /\ PATH[1 + 1] = 112
    BY <1>2, <2>1, Letters
  <2>3. BitsUpTo(PATH, 1 + 1, 7 + 6)
    BY <1>4, <2>1, <2>2, BitsMore
  <2> QED  BY <2>1, <2>3
<1>6. BitsUpTo(PATH, 3, 18)
  <2>1. 2 + 1 = 3 /\ 13 + 5 = 18 /\ 2 + 1 <= Len(PATH)
    BY <1>1
  <2>2. Wide(97, 5) /\ PATH[2 + 1] = 97
    BY <1>2, <2>1, Letters
  <2>3. BitsUpTo(PATH, 2 + 1, 13 + 5)
    BY <1>5, <2>1, <2>2, BitsMore
  <2> QED  BY <2>1, <2>3
<1>7. BitsUpTo(PATH, 4, 23)
  <2>1. 3 + 1 = 4 /\ 18 + 5 = 23 /\ 3 + 1 <= Len(PATH)
    BY <1>1
  <2>2. Wide(116, 5) /\ PATH[3 + 1] = 116
    BY <1>2, <2>1, Letters
  <2>3. BitsUpTo(PATH, 3 + 1, 18 + 5)
    BY <1>6, <2>1, <2>2, BitsMore
  <2> QED  BY <2>1, <2>3
<1>8. BitsUpTo(PATH, 5, 29)
  <2>1. 4 + 1 = 5 /\ 23 + 6 = 29 /\ 4 + 1 <= Len(PATH)
    BY <1>1
  <2>2. Wide(104, 6) /\ PATH[4 + 1] = 104
    BY <1>2, <2>1, Letters
  <2>3. BitsUpTo(PATH, 4 + 1, 23 + 6)
    BY <1>7, <2>1, <2>2, BitsMore
  <2> QED  BY <2>1, <2>3
<1> QED  BY <1>1, <1>8, BitsEnd

LEMMA GRPC_ENCODINGBits ==
    /\ GRPC_ENCODING \in Seq(Octet)
    /\ Len(GRPC_ENCODING) = 13
    /\ Len(Bits(GRPC_ENCODING)) = 73
<1>1. GRPC_ENCODING \in Seq(Octet) /\ Len(GRPC_ENCODING) = 13
  BY DEF GRPC_ENCODING, Octet
<1>2. GRPC_ENCODING[1] = 103 /\ GRPC_ENCODING[2] = 114
      /\ GRPC_ENCODING[3] = 112 /\ GRPC_ENCODING[4] = 99
      /\ GRPC_ENCODING[5] = 45 /\ GRPC_ENCODING[6] = 101
      /\ GRPC_ENCODING[7] = 110 /\ GRPC_ENCODING[8] = 99
      /\ GRPC_ENCODING[9] = 111 /\ GRPC_ENCODING[10] = 100
      /\ GRPC_ENCODING[11] = 105 /\ GRPC_ENCODING[12] = 110
      /\ GRPC_ENCODING[13] = 103
  BY DEF GRPC_ENCODING
<1>3. BitsUpTo(GRPC_ENCODING, 0, 0)
  BY <1>1, BitsStart
<1>4. BitsUpTo(GRPC_ENCODING, 1, 6)
  <2>1. 0 + 1 = 1 /\ 0 + 6 = 6 /\ 0 + 1 <= Len(GRPC_ENCODING)
    BY <1>1
  <2>2. Wide(103, 6) /\ GRPC_ENCODING[0 + 1] = 103
    BY <1>2, <2>1, Letters
  <2>3. BitsUpTo(GRPC_ENCODING, 0 + 1, 0 + 6)
    BY <1>3, <2>1, <2>2, BitsMore
  <2> QED  BY <2>1, <2>3
<1>5. BitsUpTo(GRPC_ENCODING, 2, 12)
  <2>1. 1 + 1 = 2 /\ 6 + 6 = 12 /\ 1 + 1 <= Len(GRPC_ENCODING)
    BY <1>1
  <2>2. Wide(114, 6) /\ GRPC_ENCODING[1 + 1] = 114
    BY <1>2, <2>1, Letters
  <2>3. BitsUpTo(GRPC_ENCODING, 1 + 1, 6 + 6)
    BY <1>4, <2>1, <2>2, BitsMore
  <2> QED  BY <2>1, <2>3
<1>6. BitsUpTo(GRPC_ENCODING, 3, 18)
  <2>1. 2 + 1 = 3 /\ 12 + 6 = 18 /\ 2 + 1 <= Len(GRPC_ENCODING)
    BY <1>1
  <2>2. Wide(112, 6) /\ GRPC_ENCODING[2 + 1] = 112
    BY <1>2, <2>1, Letters
  <2>3. BitsUpTo(GRPC_ENCODING, 2 + 1, 12 + 6)
    BY <1>5, <2>1, <2>2, BitsMore
  <2> QED  BY <2>1, <2>3
<1>7. BitsUpTo(GRPC_ENCODING, 4, 23)
  <2>1. 3 + 1 = 4 /\ 18 + 5 = 23 /\ 3 + 1 <= Len(GRPC_ENCODING)
    BY <1>1
  <2>2. Wide(99, 5) /\ GRPC_ENCODING[3 + 1] = 99
    BY <1>2, <2>1, Letters
  <2>3. BitsUpTo(GRPC_ENCODING, 3 + 1, 18 + 5)
    BY <1>6, <2>1, <2>2, BitsMore
  <2> QED  BY <2>1, <2>3
<1>8. BitsUpTo(GRPC_ENCODING, 5, 29)
  <2>1. 4 + 1 = 5 /\ 23 + 6 = 29 /\ 4 + 1 <= Len(GRPC_ENCODING)
    BY <1>1
  <2>2. Wide(45, 6) /\ GRPC_ENCODING[4 + 1] = 45
    BY <1>2, <2>1, Letters
  <2>3. BitsUpTo(GRPC_ENCODING, 4 + 1, 23 + 6)
    BY <1>7, <2>1, <2>2, BitsMore
  <2> QED  BY <2>1, <2>3
<1>9. BitsUpTo(GRPC_ENCODING, 6, 34)
  <2>1. 5 + 1 = 6 /\ 29 + 5 = 34 /\ 5 + 1 <= Len(GRPC_ENCODING)
    BY <1>1
  <2>2. Wide(101, 5) /\ GRPC_ENCODING[5 + 1] = 101
    BY <1>2, <2>1, Letters
  <2>3. BitsUpTo(GRPC_ENCODING, 5 + 1, 29 + 5)
    BY <1>8, <2>1, <2>2, BitsMore
  <2> QED  BY <2>1, <2>3
<1>10. BitsUpTo(GRPC_ENCODING, 7, 40)
  <2>1. 6 + 1 = 7 /\ 34 + 6 = 40 /\ 6 + 1 <= Len(GRPC_ENCODING)
    BY <1>1
  <2>2. Wide(110, 6) /\ GRPC_ENCODING[6 + 1] = 110
    BY <1>2, <2>1, Letters
  <2>3. BitsUpTo(GRPC_ENCODING, 6 + 1, 34 + 6)
    BY <1>9, <2>1, <2>2, BitsMore
  <2> QED  BY <2>1, <2>3
<1>11. BitsUpTo(GRPC_ENCODING, 8, 45)
  <2>1. 7 + 1 = 8 /\ 40 + 5 = 45 /\ 7 + 1 <= Len(GRPC_ENCODING)
    BY <1>1
  <2>2. Wide(99, 5) /\ GRPC_ENCODING[7 + 1] = 99
    BY <1>2, <2>1, Letters
  <2>3. BitsUpTo(GRPC_ENCODING, 7 + 1, 40 + 5)
    BY <1>10, <2>1, <2>2, BitsMore
  <2> QED  BY <2>1, <2>3
<1>12. BitsUpTo(GRPC_ENCODING, 9, 50)
  <2>1. 8 + 1 = 9 /\ 45 + 5 = 50 /\ 8 + 1 <= Len(GRPC_ENCODING)
    BY <1>1
  <2>2. Wide(111, 5) /\ GRPC_ENCODING[8 + 1] = 111
    BY <1>2, <2>1, Letters
  <2>3. BitsUpTo(GRPC_ENCODING, 8 + 1, 45 + 5)
    BY <1>11, <2>1, <2>2, BitsMore
  <2> QED  BY <2>1, <2>3
<1>13. BitsUpTo(GRPC_ENCODING, 10, 56)
  <2>1. 9 + 1 = 10 /\ 50 + 6 = 56 /\ 9 + 1 <= Len(GRPC_ENCODING)
    BY <1>1
  <2>2. Wide(100, 6) /\ GRPC_ENCODING[9 + 1] = 100
    BY <1>2, <2>1, Letters
  <2>3. BitsUpTo(GRPC_ENCODING, 9 + 1, 50 + 6)
    BY <1>12, <2>1, <2>2, BitsMore
  <2> QED  BY <2>1, <2>3
<1>14. BitsUpTo(GRPC_ENCODING, 11, 61)
  <2>1. 10 + 1 = 11 /\ 56 + 5 = 61 /\ 10 + 1 <= Len(GRPC_ENCODING)
    BY <1>1
  <2>2. Wide(105, 5) /\ GRPC_ENCODING[10 + 1] = 105
    BY <1>2, <2>1, Letters
  <2>3. BitsUpTo(GRPC_ENCODING, 10 + 1, 56 + 5)
    BY <1>13, <2>1, <2>2, BitsMore
  <2> QED  BY <2>1, <2>3
<1>15. BitsUpTo(GRPC_ENCODING, 12, 67)
  <2>1. 11 + 1 = 12 /\ 61 + 6 = 67 /\ 11 + 1 <= Len(GRPC_ENCODING)
    BY <1>1
  <2>2. Wide(110, 6) /\ GRPC_ENCODING[11 + 1] = 110
    BY <1>2, <2>1, Letters
  <2>3. BitsUpTo(GRPC_ENCODING, 11 + 1, 61 + 6)
    BY <1>14, <2>1, <2>2, BitsMore
  <2> QED  BY <2>1, <2>3
<1>16. BitsUpTo(GRPC_ENCODING, 13, 73)
  <2>1. 12 + 1 = 13 /\ 67 + 6 = 73 /\ 12 + 1 <= Len(GRPC_ENCODING)
    BY <1>1
  <2>2. Wide(103, 6) /\ GRPC_ENCODING[12 + 1] = 103
    BY <1>2, <2>1, Letters
  <2>3. BitsUpTo(GRPC_ENCODING, 12 + 1, 67 + 6)
    BY <1>15, <2>1, <2>2, BitsMore
  <2> QED  BY <2>1, <2>3
<1> QED  BY <1>1, <1>16, BitsEnd

LEMMA TEBits == TE \in Seq(Octet) /\ Len(TE) = 2 /\ Len(Bits(TE)) = 10
<1>1. TE \in Seq(Octet) /\ Len(TE) = 2
  BY DEF TE, Octet
<1>2. TE[1] = 116 /\ TE[2] = 101
  BY DEF TE
<1>3. BitsUpTo(TE, 0, 0)
  BY <1>1, BitsStart
<1>4. BitsUpTo(TE, 1, 5)
  <2>1. 0 + 1 = 1 /\ 0 + 5 = 5 /\ 0 + 1 <= Len(TE)
    BY <1>1
  <2>2. Wide(116, 5) /\ TE[0 + 1] = 116
    BY <1>2, <2>1, Letters
  <2>3. BitsUpTo(TE, 0 + 1, 0 + 5)
    <3>1. PICK k, n, x, w : k = 0 /\ n = 0 /\ x = 116 /\ w = 5
      OBVIOUS
    <3>2. BitsUpTo(TE, k + 1, n + w)
      <4>1. BitsUpTo(TE, k, n) /\ Wide(x, w) /\ k + 1 <= Len(TE) /\ TE[k + 1] = x
        BY <1>3, <2>1, <2>2, <3>1
      <4> QED  BY <4>1, BitsMore
    <3> QED  BY <3>1, <3>2
  <2> QED  BY <2>1, <2>3
<1>5. BitsUpTo(TE, 2, 10)
  <2>1. 1 + 1 = 2 /\ 5 + 5 = 10 /\ 1 + 1 <= Len(TE)
    BY <1>1
  <2>2. Wide(101, 5) /\ TE[1 + 1] = 101
    BY <1>2, <2>1, Letters
  <2>3. BitsUpTo(TE, 1 + 1, 5 + 5)
    BY <1>4, <2>1, <2>2, BitsMore
  <2> QED  BY <2>1, <2>3
<1> QED  BY <1>1, <1>5, BitsEnd

(* The octets of a Huffman coded text: its bits, filled up.                 *)
LEMMA CodedLength ==
    ASSUME NEW src \in Seq(Octet), NEW n \in Nat, Len(Bits(src)) = n
    PROVE  Len(encode(src)) = (n + ((8 - (n % 8)) % 8)) \div 8
<1>1. PICK bits \in Seq(BitValues) : bits = Bits(src) /\ Len(bits) = n
  BY BitsIsSeq
<1>2. PICK k \in Nat : k = (8 - (n % 8)) % 8
  <2>1. (8 - (n % 8)) % 8 \in Nat
    BY SMT
  <2> QED  BY <2>1
<1>3. PICK fill \in Seq(BitValues) : fill = [i \in 1 .. k |-> 1] /\ Len(fill) = k
  <2>1. 1 \in BitValues
    BY DEF BitValues
  <2>2. [i \in 1 .. k |-> 1] \in Seq(BitValues) /\ Len([i \in 1 .. k |-> 1]) = k
    BY <2>1
  <2> QED  BY <2>2
<1>4. Padded(bits) = bits \o fill
  BY <1>1, <1>2, <1>3, Zenon DEF Padded, Padding
<1>5. Len(bits \o fill) = n + k
  <2>1. Len(bits \o fill) = Len(bits) + Len(fill)
    BY ConcatProperties
  <2> QED  BY <1>1, <1>3, <2>1
<1>6. PICK m \in Nat : m = (n + k) \div 8
  <2>1. (n + k) \div 8 \in Nat
    BY SMT
  <2> QED  BY <2>1
<1>7. PICK all : all = bits \o fill /\ Len(all) \div 8 = m
  BY <1>5, <1>6
<1>8. encode(src) = [i \in 1 .. m |-> Number(SubSeq(all, 8*i - 7, 8*i))]
  BY <1>1, <1>4, <1>7, Zenon DEF encode, Octets
<1>9. Len(encode(src)) = m
  BY <1>8
<1> QED  BY <1>2, <1>6, <1>9

(* The names differ in length, coded and plain.                             *)
LEMMA NameLengths ==
    /\ Len(PATH) = 5 /\ Len(encode(PATH)) = 4
    /\ Len(GRPC_ENCODING) = 13 /\ Len(encode(GRPC_ENCODING)) = 10
    /\ Len(TE) = 2 /\ Len(encode(TE)) = 2
<1>1. Len(PATH) = 5 /\ Len(encode(PATH)) = 4
  <2>1. Len(encode(PATH)) = (29 + ((8 - (29 % 8)) % 8)) \div 8
    BY PATHBits, CodedLength
  <2>2. (29 + ((8 - (29 % 8)) % 8)) \div 8 = 4
    BY SMT
  <2> QED  BY <2>1, <2>2, PATHBits
<1>2. Len(GRPC_ENCODING) = 13 /\ Len(encode(GRPC_ENCODING)) = 10
  <2>1. Len(encode(GRPC_ENCODING)) = (73 + ((8 - (73 % 8)) % 8)) \div 8
    <3>1. PICK n \in Nat : n = 73 /\ Len(Bits(GRPC_ENCODING)) = n
      BY GRPC_ENCODINGBits
    <3>2. Len(Bits(GRPC_ENCODING)) = n /\ GRPC_ENCODING \in Seq(Octet)
      BY <3>1, GRPC_ENCODINGBits
    <3>3. Len(encode(GRPC_ENCODING)) = (n + ((8 - (n % 8)) % 8)) \div 8
      BY <3>2, CodedLength
    <3> QED  BY <3>1, <3>3, ZenonT(60)
  <2>2. (73 + ((8 - (73 % 8)) % 8)) \div 8 = 10
    BY SMT
  <2> QED  BY <2>1, <2>2, GRPC_ENCODINGBits
<1>3. Len(TE) = 2 /\ Len(encode(TE)) = 2
  <2>1. Len(encode(TE)) = (10 + ((8 - (10 % 8)) % 8)) \div 8
    BY TEBits, CodedLength
  <2>2. (10 + ((8 - (10 % 8)) % 8)) \div 8 = 2
    BY SMT
  <2> QED  BY <2>1, <2>2, TEBits
<1> QED  BY <1>1, <1>2, <1>3

(* Each name is known by either form of its spelling, and no other.         *)
LEMMA Spelled ==
    ASSUME NEW name \in {"path", "grpc-encoding", "other"},
           NEW form \in {"plain", "huffman"}
    PROVE  /\ NameOf(Out(Spelling(name), form)) = name
           /\ Fits(Len(Coded(Spelling(name), form)))
<1>1. PICK s : s = Spelling(name)
  OBVIOUS
<1>2. PICK out : out = Out(s, form)
  OBVIOUS
<1>3. /\ name = "path" => s = PATH
      /\ name = "grpc-encoding" => s = GRPC_ENCODING
      /\ name = "other" => s = TE
  BY <1>1 DEF Spelling
<1>4. CASE form = "plain"
  <2>1. out = OutStr(FALSE, s) /\ Coded(s, form) = s
    BY <1>2, <1>4 DEF Out, Coded
  <2>2. out.huff = FALSE /\ out.msg = s
    BY <2>1 DEF OutStr
  <2>3. /\ eq_str(out, PATH) <=> s = PATH
        /\ eq_str(out, GRPC_ENCODING) <=> s = GRPC_ENCODING
    BY <2>2 DEF eq_str
  <2>4. PATH # GRPC_ENCODING /\ TE # PATH /\ TE # GRPC_ENCODING
    BY NameLengths
  <2>5. NameOf(out) = name
    BY <1>3, <2>3, <2>4 DEF NameOf
  <2>6. Len(s) < 2^28
    <3>1. 13 < 2^28
      BY SMT
    <3>2. Len(s) \in Nat /\ Len(s) <= 13
      <4>1. CASE name = "path"
        <5>1. Len(s) = 5
          BY <1>3, <4>1, NameLengths, Zenon
        <5> QED  BY <5>1
      <4>2. CASE name = "grpc-encoding"
        <5>1. Len(s) = 13
          BY <1>3, <4>2, NameLengths, Zenon
        <5> QED  BY <5>1
      <4>3. CASE name = "other"
        <5>1. Len(s) = 2
          BY <1>3, <4>3, NameLengths, Zenon
        <5> QED  BY <5>1
      <4> QED  BY <4>1, <4>2, <4>3
    <3>3. 2^28 \in Nat
      BY SMT
    <3> QED  BY <3>1, <3>2, <3>3
  <2> QED  BY <1>1, <1>2, <2>1, <2>5, <2>6 DEF Fits
<1>5. CASE form = "huffman"
  <2>1. out = OutStr(TRUE, encode(s)) /\ Coded(s, form) = encode(s)
    BY <1>2, <1>5 DEF Out, Coded
  <2>2. out.huff = TRUE /\ out.msg = encode(s)
    BY <2>1 DEF OutStr
  <2>3. /\ eq_str(out, PATH) <=> Len(encode(s)) <= 5 /\ encode(s) = encode(PATH)
        /\ eq_str(out, GRPC_ENCODING)
             <=> Len(encode(s)) <= 13 /\ encode(s) = encode(GRPC_ENCODING)
    BY <2>2, NameLengths DEF eq_str
  <2>4. /\ encode(PATH) # encode(GRPC_ENCODING)
        /\ encode(TE) # encode(PATH) /\ encode(TE) # encode(GRPC_ENCODING)
    BY NameLengths
  <2>5. Len(encode(PATH)) <= 5 /\ Len(encode(GRPC_ENCODING)) <= 13
    BY NameLengths
  <2>6. ASSUME name = "path" PROVE NameOf(out) = name
    <3>1. eq_str(out, PATH)
      BY <1>3, <2>3, <2>5, <2>6, Zenon
    <3> QED  BY <2>6, <3>1 DEF NameOf
  <2>7. ASSUME name = "grpc-encoding" PROVE NameOf(out) = name
    <3>1. s = GRPC_ENCODING
      BY <1>3, <2>7
    <3>2. ~eq_str(out, PATH) /\ eq_str(out, GRPC_ENCODING)
      BY <2>3, <2>4, <2>5, <3>1, Zenon
    <3> QED  BY <2>7, <3>2 DEF NameOf
  <2>8. ASSUME name = "other" PROVE NameOf(out) = name
    <3>1. ~eq_str(out, PATH) /\ ~eq_str(out, GRPC_ENCODING)
      BY <1>3, <2>3, <2>4, <2>8, Zenon
    <3> QED  BY <2>8, <3>1 DEF NameOf
  <2>9. NameOf(out) = name
    BY <2>6, <2>7, <2>8
  <2>10. Len(encode(s)) < 2^28
    <3>1. 13 < 2^28
      BY SMT
    <3>2. Len(encode(s)) \in Nat /\ Len(encode(s)) <= 13
      <4>1. CASE name = "path"
        <5>1. Len(encode(s)) = 4
          BY <1>3, <4>1, NameLengths, Zenon
        <5> QED  BY <5>1
      <4>2. CASE name = "grpc-encoding"
        <5>1. Len(encode(s)) = 10
          BY <1>3, <4>2, NameLengths, Zenon
        <5> QED  BY <5>1
      <4>3. CASE name = "other"
        <5>1. Len(encode(s)) = 2
          BY <1>3, <4>3, NameLengths, Zenon
        <5> QED  BY <5>1
      <4> QED  BY <4>1, <4>2, <4>3
    <3>3. 2^28 \in Nat
      BY SMT
    <3> QED  BY <3>1, <3>2, <3>3
  <2> QED  BY <1>1, <1>2, <2>1, <2>9, <2>10 DEF Fits
<1> QED  BY <1>4, <1>5

-----------------------------------------------------------------------------
(* What is read is what is meant                                            *)

(* Huffman texts decode to what is meant by them, and not at all if zeros   *)
(* are left over.                                                           *)
HuffmanReads ==
    \A rep \in Representations :
        rep.form # "plain" =>
            LET text == decode(Coded(rep.value, rep.form))
            IN  /\ text.ok <=> Readable(rep)
                /\ Readable(rep) => text.buf = MeantValue(rep)

(* The tables give that for every text.                                     *)
LEMMA TextsRead ==
    ASSUME TablesFit
    PROVE  HuffmanReads
<1> SUFFICES ASSUME NEW rep \in Representations, rep.form # "plain",
                    NEW text, text = decode(Coded(rep.value, rep.form))
             PROVE  /\ text.ok <=> Readable(rep)
                    /\ Readable(rep) => text.buf = MeantValue(rep)
  BY Zenon DEF HuffmanReads
<1>1. PICK src \in Seq(Octet) : src = rep.value
  BY RepresentationsAssumption DEF Representation
<1>2. rep.form \in {"huffman", "mispadded"}
  BY RepresentationsAssumption DEF Representation, Forms
<1>3. CASE rep.form = "huffman"
  <2>1. text = decode(encode(src))
    BY <1>1, <1>3 DEF Coded
  <2>2. text = [ok |-> TRUE, buf |-> src]
    BY <2>1, DecodesAsEncoded
  <2>3. Readable(rep) /\ MeantValue(rep) = src
    BY <1>1, <1>3 DEF Readable, MeantValue
  <2> QED  BY <2>2, <2>3
<1>4. CASE rep.form = "mispadded"
  <2>1. PICK p : p = Padding(Bits(src))
    OBVIOUS
  <2>2. text = decode(Octets(Bits(src) \o Times(p, 0)))
    BY <1>1, <1>4, <2>1 DEF Coded, Mispadded, Times
  <2>3. text = [ok  |-> p \in {0, 5},
                buf |-> IF p < 5 THEN src ELSE Append(src, ZERO)]
    BY <2>1, <2>2, DecodesZeros
  <2>4. Readable(rep) <=> p \in {0, 5}
    BY <1>1, <1>4, <2>1 DEF Readable
  <2>5. MeantValue(rep) = IF p = 5 THEN Append(src, ZERO) ELSE src
    BY <1>1, <1>4, <2>1 DEF MeantValue
  <2>6. text.ok = (p \in {0, 5})
    BY <2>3
  <2>7. text.buf = IF p < 5 THEN src ELSE Append(src, ZERO)
    BY <2>3
  <2>8. ASSUME p \in {0, 5} PROVE text.buf = MeantValue(rep)
    <3>1. CASE p = 0
      <4>1. text.buf = src /\ MeantValue(rep) = src
        BY <2>5, <2>7, <3>1
      <4> QED  BY <4>1
    <3>2. CASE p = 5
      <4>1. text.buf = Append(src, ZERO) /\ MeantValue(rep) = Append(src, ZERO)
        BY <2>5, <2>7, <3>2
      <4> QED  BY <4>1
    <3> QED  BY <2>8, <3>1, <3>2
  <2> QED  BY <2>4, <2>6, <2>8, Zenon
<1> QED  BY <1>2, <1>3, <1>4

(* The text the decoder makes of a readable value is what the client meant. *)
LEMMA TextMeant ==
    ASSUME HuffmanReads, NEW rep \in Representations
    PROVE  /\ Text(Out(rep.value, rep.form)).ok <=> Readable(rep)
           /\ Readable(rep) => TextSaid(rep) = MeantValue(rep)
           /\ ~Readable(rep) => TextSaid(rep) = <<>>
<1>1. PICK out : out = Out(rep.value, rep.form)
  OBVIOUS
<1>2. out.huff = (rep.form # "plain") /\ out.msg = Coded(rep.value, rep.form)
  BY <1>1 DEF Out, OutStr
<1>3. PICK text : text = Text(out)
  OBVIOUS
<1>4. CASE rep.form = "plain"
  <2>1. text = [ok |-> TRUE, buf |-> out.msg] /\ out.msg = rep.value
    BY <1>2, <1>3, <1>4 DEF Text, Coded
  <2>2. text.ok /\ text.buf = rep.value
    BY <2>1
  <2>3. Readable(rep) /\ MeantValue(rep) = rep.value
    BY <1>4 DEF Readable, MeantValue
  <2> QED  BY <1>1, <1>3, <2>2, <2>3 DEF TextSaid
<1>5. CASE rep.form # "plain"
  <2>1. text = decode(Coded(rep.value, rep.form))
    BY <1>2, <1>3, <1>5 DEF Text
  <2>2. /\ text.ok <=> Readable(rep)
        /\ Readable(rep) => text.buf = MeantValue(rep)
    BY <1>5, <2>1, Zenon DEF HuffmanReads
  <2> QED  BY <1>1, <1>3, <2>2, Zenon DEF TextSaid
<1> QED  BY <1>4, <1>5

(* The table the decoder has before the n-th representation.                *)
TableMeant(n) ==
    /\ \E T : dynamic_table \in Seq(T)
    /\ Len(dynamic_table) = Entries(sent, n)
    /\ \A j \in Inserted(sent, n) :
         dynamic_table[Entries(sent, j) + 1] = Kept(MeantName(j), sent[j])

(* An index above the static table is an entry that was made, or is of an   *)
(* earlier block.                                                           *)
LEMMA EntryMeant ==
    ASSUME NEW n \in Nat, n >= 1, TableMeant(n), NEW k \in Nat, k >= 1,
           NEW made, made = {j \in Inserted(sent, n) :
                               Entries(sent, n) - Entries(sent, j) = k}
    PROVE  /\ made = {} => Entry(k) = "other"
           /\ \A j \in made : Entry(k) = Kept(MeantName(j), sent[j])
<1>1. Placed(sent, n)
  <2>1. PICK m \in Nat : m + 1 = n
    <3>1. n - 1 \in Nat /\ (n - 1) + 1 = n
      OBVIOUS
    <3> QED  BY <3>1
  <2> QED  BY <2>1, AllPlaced
<1>2. PICK C \in Nat : C = Entries(sent, n) /\ C = Len(dynamic_table)
  BY <1>1 DEF Placed, Counted, TableMeant
<1>3. ASSUME NEW j \in Inserted(sent, n), Entries(sent, n) - Entries(sent, j) = k
      PROVE  Entry(k) = Kept(MeantName(j), sent[j])
  <2>1. PICK e \in Nat : e = Entries(sent, j) /\ e < C
    BY <1>1, <1>2 DEF Placed
  <2>2. k <= C /\ C - k + 1 = e + 1
    BY <1>2, <1>3, <2>1
  <2>3. Entry(k) = dynamic_table[C - k + 1]
    BY <1>2, <2>2 DEF Entry
  <2>4. dynamic_table[e + 1] = Kept(MeantName(j), sent[j])
    BY <2>1 DEF TableMeant
  <2> QED  BY <2>2, <2>3, <2>4
<1>4. ASSUME \A j \in Inserted(sent, n) : Entries(sent, n) - Entries(sent, j) # k
      PROVE  Entry(k) = "other"
  <2>1. CASE k <= C
    <3>1. C - k + 1 \in 1 .. C
      BY <2>1
    <3>2. PICK j \in Inserted(sent, n) : Entries(sent, j) + 1 = C - k + 1
      BY <1>1, <1>2, <3>1 DEF Placed
    <3>3. Entries(sent, j) \in Nat
      BY <1>1 DEF Placed
    <3>4. C - Entries(sent, j) = k
      BY <3>2, <3>3
    <3> QED  BY <1>2, <1>4, <3>4
  <2>2. CASE ~(k <= C)
    BY <1>2, <2>2 DEF Entry
  <2> QED  BY <2>1, <2>2
<1> QED  BY <1>3, <1>4

(* The name it makes of a literal is the one the client meant, if the table *)
(* holds what the client inserted.                                          *)
LEMMA NameMeant ==
    ASSUME sent \in Seq(Representations), NEW n \in 1 .. Len(sent),
           TableMeant(n), NEW rep \in Representations, rep = sent[n],
           rep.kind \notin {"Indexed", "SizeUpdate"}, Named(rep)
    PROVE  NameRead(rep) = MeantName(n)
<1>1. PICK index \in Nat : index = rep.index /\ index = sent[n].index
  BY RepresentationsAssumption DEF Representation
<1>2. n \in Nat /\ n >= 1
  BY LenProperties
<1>3. MeantName(n) = NameBy(sent, NamesMeant(sent), n)
  BY NamesMeantDef DEF MeantName
<1>4. CASE index = 0
  <2>1. MeantName(n) = rep.name
    BY <1>1, <1>3, <1>4 DEF NameBy
  <2>2. PICK name \in {"path", "grpc-encoding", "other"},
             form \in {"plain", "huffman"} :
          name = rep.name /\ form = NameForm(rep)
    <3>1. rep.name \in {"path", "grpc-encoding", "other", "none"} /\ rep.name # "none"
      BY <1>1, <1>4, RepresentationsAssumption DEF Representation
    <3> QED  BY <3>1 DEF NameForm
  <2>3. NameOf(Out(Spelling(name), form)) = name
    BY Spelled
  <2>4. NameRead(rep) = NameOf(Out(Spelling(name), form))
    BY <1>1, <1>4, <2>2 DEF NameRead
  <2> QED  BY <2>1, <2>2, <2>3, <2>4
<1>5. CASE index # 0
  <2>1. PICK c : c = classify_table_index(index) /\ NameRead(rep) = c.value
                 /\ c.err = "none"
    BY <1>1, <1>5 DEF NameRead, Named
  <2>2. CASE index \in {4, 5}
    <3>1. c = Ok("path", 0)
      BY <2>1, <2>2 DEF classify_table_index
    <3>2. c.value = "path"
      BY <3>1, OkIsOk
    <3>3. MeantName(n) = "path"
      BY <1>1, <1>3, <1>5, <2>2 DEF NameBy
    <3> QED  BY <2>1, <3>2, <3>3
  <2>3. CASE index \notin {4, 5} /\ index <= 61
    <3>1. c = Ok("other", 0)
      BY <2>1, <2>3 DEF classify_table_index
    <3>2. c.value = "other"
      BY <3>1, OkIsOk
    <3>3. Meant(sent, n) = {}
      <4>1. Placed(sent, n)
        <5>1. PICK m \in Nat : m + 1 = n
          <6>1. n - 1 \in Nat /\ (n - 1) + 1 = n
            BY <1>2
          <6> QED  BY <6>1
        <5> QED  BY <5>1, AllPlaced
      <4>2. ASSUME NEW j \in Inserted(sent, n)
            PROVE  Entries(sent, n) - Entries(sent, j) # index - 61
        <5>1. PICK C \in Nat, e \in Nat :
                C = Entries(sent, n) /\ e = Entries(sent, j) /\ e < C
          BY <4>1 DEF Placed, Counted
        <5>2. C - e # index - 61
          BY <2>3, <5>1
        <5> QED  BY <5>1, <5>2
      <4> QED  BY <1>1, <4>2 DEF Meant
    <3>4. MeantName(n) = "other"
      BY <1>1, <1>3, <1>5, <2>3, <3>3 DEF NameBy
    <3> QED  BY <2>1, <3>2, <3>4
  <2>4. CASE ~(index <= 61)
    <3>1. c = Ok(Entry(index - 61), 0)
      <4>1. CASE index > 61 + table_len
        <5>1. c = Err("panic")
          BY <2>1, <2>4, <4>1 DEF classify_table_index
        <5>2. c.err # "none"
          BY <5>1, ErrIsError
        <5> QED  BY <2>1, <5>2
      <4>2. CASE ~(index > 61 + table_len)
        BY <2>1, <2>4, <4>2 DEF classify_table_index
      <4> QED  BY <4>1, <4>2
    <3>2. c.value = Entry(index - 61)
      BY <3>1, OkIsOk
    <3>3. PICK k \in Nat : k = index - 61 /\ k >= 1
      <4>1. index - 61 \in Nat /\ index - 61 >= 1
        BY <2>4
      <4> QED  BY <4>1
    <3>4. Meant(sent, n) = {j \in Inserted(sent, n) :
                              Entries(sent, n) - Entries(sent, j) = k}
      BY <1>1, <3>3 DEF Meant
    <3>5. /\ Meant(sent, n) = {} => Entry(k) = "other"
          /\ \A j \in Meant(sent, n) : Entry(k) = Kept(MeantName(j), sent[j])
      <4>1. PICK made : /\ made = Meant(sent, n)
                        /\ made = {j \in Inserted(sent, n) :
                                     Entries(sent, n) - Entries(sent, j) = k}
        BY <3>4
      <4>2. /\ made = {} => Entry(k) = "other"
            /\ \A j \in made : Entry(k) = Kept(MeantName(j), sent[j])
        BY <1>2, <3>3, <4>1, EntryMeant
      <4> QED  BY <4>1, <4>2
    <3>6. index \notin {4, 5}
      BY <2>4
    <3>7. CASE Meant(sent, n) = {}
      <4>1. MeantName(n) = "other"
        BY <1>1, <1>3, <1>5, <3>6, <3>7 DEF NameBy
      <4> QED  BY <2>1, <3>2, <3>3, <3>5, <3>7, <4>1
    <3>8. CASE Meant(sent, n) # {}
      <4>1. PICK made \in Meant(sent, n) : made = CHOOSE j \in Meant(sent, n) : TRUE
        BY <3>8
      <4>2. MeantName(n) = Kept(MeantName(made), sent[made])
        BY <1>1, <1>3, <1>5, <3>6, <3>8, <4>1, Zenon DEF NameBy, MeantName
      <4> QED  BY <2>1, <3>2, <3>3, <3>5, <4>2
    <3> QED  BY <3>7, <3>8
  <2> QED  BY <2>2, <2>3, <2>4
<1> QED  BY <1>4, <1>5

(* The table is what is meant, up to the representation the loop stands at. *)
FInv == /\ BInv
        /\ TableMeant(Len(read) + 1)
        /\ FieldsAsSent

(* It holds at first.                                                       *)
LEMMA FInvInit == BlockInit => FInv
<1> SUFFICES ASSUME BlockInit PROVE FInv
  OBVIOUS
<1>1. read = <<>> /\ dynamic_table = <<>>
  BY DEF BlockInit
<1>2. Len(read) + 1 = 1 /\ DOMAIN read = {}
  BY <1>1
<1>3. TableMeant(1)
  <2>1. Inserted(sent, 1) = {} /\ Entries(sent, 1) = 0
    BY EntriesNone
  <2>2. dynamic_table \in Seq({}) /\ Len(dynamic_table) = 0
    BY <1>1, EmptySeq
  <2> QED  BY <2>1, <2>2 DEF TableMeant
<1>4. FieldsAsSent
  BY <1>2 DEF FieldsAsSent
<1> QED  BY <1>2, <1>3, <1>4, BInvInit DEF FInv

(* The entry a literal makes is the one the client means.                   *)
LEMMA EntryKept ==
    ASSUME HuffmanReads, EmptyUnknown, NEW rep \in Representations,
           NEW name, NameRead(rep) = name
    PROVE  EntrySaid(rep) = Kept(name, rep)
<1>1. TextSaid(rep) \in Known <=> Readable(rep) /\ MeantValue(rep) \in Known
  BY TextMeant DEF EmptyUnknown
<1> QED  BY <1>1, Zenon DEF EntrySaid, Kept

(* The entry of a round is the one the client means by it from then on.     *)
LEMMA TableGrows ==
    ASSUME HuffmanReads, EmptyUnknown, sent \in Seq(Representations),
           NEW n \in 1 .. Len(sent), TableMeant(n),
           NEW rep \in Representations, rep = sent[n],
           NEW enc, Taken(rep, enc), sent' = sent
    PROVE  TableMeant(n + 1)'
<1>1. n \in Nat /\ n >= 1
  BY LenProperties
<1>2. Placed(sent, n)
  <2>1. PICK m \in Nat : m + 1 = n
    <3>1. n - 1 \in Nat /\ (n - 1) + 1 = n
      BY <1>1
    <3> QED  BY <3>1
  <2> QED  BY <2>1, AllPlaced
<1>3. PICK C \in Nat : C = Entries(sent, n) /\ C = Len(dynamic_table)
  BY <1>2 DEF Placed, Counted, TableMeant
<1>4. \A j : MeantName(j)' = MeantName(j)
  BY Zenon DEF MeantName
<1>5. CASE rep.kind = "LiteralWithIndexing"
  <2>1. PICK entry : /\ entry = EntrySaid(rep)
                     /\ dynamic_table' = Append(dynamic_table, entry)
    BY <1>5 DEF Taken
  <2>2. entry = Kept(MeantName(n), sent[n])
    <3>1. NameRead(rep) = MeantName(n)
      <4>1. rep.kind \notin {"Indexed", "SizeUpdate"} /\ Named(rep)
        BY <1>5 DEF Taken, Says
      <4> QED  BY <4>1, NameMeant
    <3> QED  BY <2>1, <3>1, EntryKept
  <2>3. /\ Entries(sent, n + 1) = C + 1
        /\ Inserted(sent, n + 1) = Inserted(sent, n) \cup {n}
    BY <1>1, <1>2, <1>3, <1>5, EntriesNext, InsertedNext DEF Placed
  <2>4. PICK T : dynamic_table \in Seq(T)
    BY DEF TableMeant
  <2>5. PICK U : U = T \cup {entry}
    OBVIOUS
  <2>6. PICK old \in Seq(U) : old = dynamic_table /\ Len(old) = C /\ entry \in U
    <3>1. dynamic_table \in Seq(U)
      BY <2>4, <2>5, SeqMonotonic
    <3> QED  BY <1>3, <2>5, <3>1
  <2>7. /\ dynamic_table' \in Seq(U)
        /\ Len(dynamic_table') = C + 1
        /\ \A i \in 1 .. C : dynamic_table'[i] = dynamic_table[i]
        /\ dynamic_table'[C + 1] = entry
    <3>1. /\ Append(old, entry) \in Seq(U)
          /\ Len(Append(old, entry)) = C + 1
          /\ \A i \in 1 .. C : Append(old, entry)[i] = old[i]
          /\ Append(old, entry)[C + 1] = entry
          /\ DOMAIN Append(old, entry) = 1 .. C + 1
      BY <2>6, Appended
    <3> QED  BY <2>1, <2>6, <3>1
  <2>8. ASSUME NEW j \in Inserted(sent, n + 1)
        PROVE  dynamic_table'[Entries(sent, j) + 1] = Kept(MeantName(j), sent[j])
    <3>1. CASE j \in Inserted(sent, n)
      <4>1. PICK e \in Nat : e = Entries(sent, j) /\ e < C
        BY <1>2, <1>3, <3>1 DEF Placed
      <4>2. e + 1 \in 1 .. C
        BY <4>1
      <4>3. dynamic_table[e + 1] = Kept(MeantName(j), sent[j])
        BY <3>1, <4>1 DEF TableMeant
      <4> QED  BY <2>7, <4>1, <4>2, <4>3
    <3>2. CASE j = n
      BY <1>3, <2>2, <2>7, <3>2
    <3> QED  BY <2>3, <2>8, <3>1, <3>2
  <2>9. ASSUME NEW j \in Inserted(sent, n + 1)
        PROVE  dynamic_table'[Entries(sent', j) + 1] = Kept(MeantName(j)', sent'[j])
    BY <1>4, <2>8
  <2>10. (\E S : dynamic_table' \in Seq(S)) /\ Len(dynamic_table') = Entries(sent', n + 1)
    BY <2>3, <2>7
  <2> QED  BY <2>9, <2>10 DEF TableMeant
<1>6. CASE rep.kind # "LiteralWithIndexing"
  <2>1. dynamic_table' = dynamic_table
    BY <1>6 DEF Taken
  <2>2. /\ Entries(sent, n + 1) = C
        /\ Inserted(sent, n + 1) = Inserted(sent, n)
    BY <1>1, <1>2, <1>3, <1>6, EntriesNext, InsertedNext DEF Placed
  <2>3. ASSUME NEW j \in Inserted(sent, n + 1)
        PROVE  dynamic_table'[Entries(sent', j) + 1] = Kept(MeantName(j)', sent'[j])
    <3>1. dynamic_table[Entries(sent, j) + 1] = Kept(MeantName(j), sent[j])
      BY <2>2 DEF TableMeant
    <3> QED  BY <1>4, <2>1, <3>1
  <2>4. (\E S : dynamic_table' \in Seq(S)) /\ Len(dynamic_table') = Entries(sent', n + 1)
    BY <1>3, <2>1, <2>2 DEF TableMeant
  <2> QED  BY <2>3, <2>4 DEF TableMeant
<1> QED  BY <1>5, <1>6

(* One field.                                                               *)
FieldAsSent(i, field) ==
    /\ field.kind = sent[i].kind
    /\ sent[i].kind = "Indexed" => field.index = sent[i].index
    /\ sent[i].kind \notin {"Indexed", "SizeUpdate"} =>
         /\ field.name = MeantName(i)
         /\ Readable(sent[i]) => field.text = MeantValue(sent[i])
         /\ field.name = "path" => Readable(sent[i])

(* FieldsAsSent speaks of each round by itself.                             *)
LEMMA FieldsByOne == FieldsAsSent <=> \A i \in DOMAIN read : FieldAsSent(i, read[i])
BY DEF FieldsAsSent, FieldAsSent

(* A round that reads what the octets say has read what the client meant.   *)
LEMMA FieldMeant ==
    ASSUME HuffmanReads, sent \in Seq(Representations),
           NEW n \in 1 .. Len(sent), TableMeant(n),
           NEW rep \in Representations, rep = sent[n],
           NEW field, Says(rep, field)
    PROVE  FieldAsSent(n, field)
<1>1. CASE rep.kind \notin {"Indexed", "SizeUpdate"}
  <2>1. /\ field.kind = rep.kind /\ field.name = NameRead(rep)
        /\ field.text = TextSaid(rep) /\ Named(rep)
    BY <1>1 DEF Says
  <2>2. NameRead(rep) = MeantName(n)
    BY <1>1, <2>1, NameMeant
  <2>3. /\ Readable(rep) => TextSaid(rep) = MeantValue(rep)
        /\ Text(Out(rep.value, rep.form)).ok => Readable(rep)
    BY TextMeant
  <2>4. NameRead(rep) = "path" => Readable(rep)
    BY <1>1, <2>3 DEF Says
  <2> QED  BY <1>1, <2>1, <2>2, <2>3, <2>4 DEF FieldAsSent
<1>2. CASE rep.kind \in {"Indexed", "SizeUpdate"}
  BY <1>2 DEF Says, FieldAsSent
<1> QED  BY <1>1, <1>2

(* A round that is taken adds such a field.                                 *)
LEMMA FieldsGrow ==
    ASSUME HuffmanReads, BInv, FieldsAsSent, NEW k \in Nat, k = Len(read),
           k < Len(sent), TableMeant(k + 1), NEW rep \in Representations,
           rep = sent[k + 1], NEW enc, Taken(rep, enc), sent' = sent
    PROVE  FieldsAsSent' /\ Len(read') = k + 1
<1>1. PICK field : read' = Append(read, field) /\ Says(rep, field)
  BY DEF Taken
<1>2. k + 1 \in 1 .. Len(sent) /\ sent \in Seq(Representations)
  BY LenProperties DEF BInv, BTypes
<1>3. FieldAsSent(k + 1, field)
  BY <1>1, <1>2, FieldMeant
<1>4. PICK T : read \in Seq(T)
  BY DEF BInv, BTypes
<1>5. PICK U : U = T \cup {field}
  OBVIOUS
<1>6. PICK old \in Seq(U) : old = read /\ Len(old) = k /\ field \in U
  <2>1. read \in Seq(U)
    BY <1>4, <1>5, SeqMonotonic
  <2> QED  BY <1>5, <2>1
<1>7. /\ Len(read') = k + 1
      /\ DOMAIN read' = 1 .. k + 1
      /\ \A i \in 1 .. k : read'[i] = read[i]
      /\ read'[k + 1] = field
  <2>1. /\ Append(old, field) \in Seq(U)
        /\ Len(Append(old, field)) = k + 1
        /\ \A i \in 1 .. k : Append(old, field)[i] = old[i]
        /\ Append(old, field)[k + 1] = field
        /\ DOMAIN Append(old, field) = 1 .. k + 1
    BY <1>6, Appended
  <2> QED  BY <1>1, <1>6, <2>1
<1>8. ASSUME NEW i \in 1 .. k + 1 PROVE FieldAsSent(i, read'[i])
  <2>1. CASE i = k + 1
    BY <1>3, <1>7, <2>1
  <2>2. CASE i # k + 1
    <3>1. i \in 1 .. k
      BY <2>2, NotLast
    <3>2. i \in DOMAIN read
      BY <1>4, <3>1
    <3>3. FieldAsSent(i, read[i])
      BY <3>2, FieldsByOne
    <3> QED  BY <1>7, <3>1, <3>3
  <2> QED  BY <2>1, <2>2
<1>9. FieldsAsSent'
  <2>1. \A j : MeantName(j)' = MeantName(j)
    BY Zenon DEF MeantName
  <2>2. ASSUME NEW i \in 1 .. k + 1
        PROVE  /\ read'[i].kind = sent'[i].kind
               /\ sent'[i].kind = "Indexed" => read'[i].index = sent'[i].index
               /\ sent'[i].kind \notin {"Indexed", "SizeUpdate"} =>
                    /\ read'[i].name = MeantName(i)'
                    /\ Readable(sent'[i]) => read'[i].text = MeantValue(sent'[i])
                    /\ read'[i].name = "path" => Readable(sent'[i])
    <3>1. FieldAsSent(i, read'[i])
      BY <1>8
    <3> QED  BY <2>1, <3>1 DEF FieldAsSent
  <2> QED  BY <1>7, <2>2 DEF FieldsAsSent
<1> QED  BY <1>7, <1>9

(* Leaving the block alone keeps it ...                                     *)
LEMMA FInvSame ==
    FInv /\ UNCHANGED <<sent, missing, buf, read, dynamic_table>> => FInv'
<1> SUFFICES ASSUME FInv, UNCHANGED <<sent, missing, buf, read, dynamic_table>>
             PROVE  FInv'
  OBVIOUS
<1>1. BInv'
  BY BInvSame DEF FInv
<1>2. \A j : MeantName(j)' = MeantName(j)
  BY Zenon DEF MeantName
<1>3. TableMeant(Len(read) + 1)'
  BY <1>2 DEF FInv, TableMeant
<1>4. FieldsAsSent'
  BY <1>2 DEF FInv, FieldsAsSent
<1> QED  BY <1>1, <1>3, <1>4 DEF FInv

(* ... and so does every step.                                              *)
LEMMA FInvStep ==
    SmallSizes /\ HuffmanReads /\ EmptyUnknown
      => (FInv /\ [BlockNext]_block_vars => FInv')
<1> SUFFICES ASSUME SmallSizes, HuffmanReads, EmptyUnknown,
                    FInv, [BlockNext]_block_vars
             PROVE  FInv'
  OBVIOUS
<1>1. CASE UNCHANGED block_vars
  BY <1>1, FInvSame DEF block_vars
<1>2. CASE BlockNext
  <2>1. PICK k \in Nat : k = Len(read)
    <3>1. PICK T : read \in Seq(T)
      BY DEF FInv, BInv, BTypes
    <3> QED  BY <3>1, LenProperties
  <2>2. EndOfBlock \/ RoundAt(k)
    BY <1>2, <2>1, RoundTaken DEF FInv
  <2>3. CASE EndOfBlock
    <3>1. UNCHANGED <<sent, missing, buf, read, dynamic_table>>
      BY <2>3 DEF EndOfBlock
    <3> QED  BY <3>1, FInvSame
  <2>4. CASE RoundAt(k)
    <3>1. k < Len(sent) /\ UNCHANGED <<sent, missing>>
      BY <2>4 DEF RoundAt, Moved
    <3>2. PICK rep \in Representations : rep = sent[k + 1]
      <4>1. k + 1 \in 1 .. Len(sent) /\ sent \in Seq(Representations)
        BY <3>1, LenProperties DEF FInv, BInv, BTypes
      <4> QED  BY <4>1, ElementOfSeq
    <3>3. PICK enc : enc = RepresentationOctets(rep)
      OBVIOUS
    <3>4. CASE Left
      <4>1. UNCHANGED <<sent, missing, buf, read, dynamic_table>>
        BY <3>1, <3>4 DEF Left
      <4> QED  BY <4>1, FInvSame
    <3>5. CASE Taken(rep, enc)
      <4>1. BInv'
        BY <2>4, <3>2, <3>3, <3>5 DEF RoundAt
      <4>2. TableMeant(k + 1) /\ BInv /\ FieldsAsSent
        BY <2>1 DEF FInv
      <4>3. k + 1 \in 1 .. Len(sent) /\ sent \in Seq(Representations)
        BY <3>1, LenProperties DEF FInv, BInv, BTypes
      <4>4. TableMeant((k + 1) + 1)'
        BY <3>1, <3>2, <3>5, <4>2, <4>3, TableGrows
      <4>5. FieldsAsSent' /\ Len(read') = k + 1
        BY <2>1, <3>1, <3>2, <3>5, <4>2, FieldsGrow
      <4>6. TableMeant(Len(read) + 1)'
        BY <4>4, <4>5
      <4> QED  BY <4>1, <4>5, <4>6 DEF FInv
    <3> QED  BY <2>4, <3>2, <3>3, <3>4, <3>5 DEF RoundAt, Moved
  <2> QED  BY <2>2, <2>3, <2>4
<1> QED  BY <1>1, <1>2

(* FieldsAsSent: every round reads the kind, the index, the name and the    *)
(* text the client sent, the name in either of its forms, by its index in   *)
(* the static table or from an entry made before in the block, however many *)
(* were made since.                                                         *)
THEOREM FieldsAsSentHolds ==
    SmallSizes /\ TablesFit /\ EmptyUnknown
      => (BlockSpec => []FieldsAsSent)
<1>1. BlockInit => FInv
  BY FInvInit
<1>2. SUFFICES ASSUME SmallSizes, TablesFit, EmptyUnknown
               PROVE  BlockSpec => []FieldsAsSent
  OBVIOUS
<1>3. HuffmanReads
  BY <1>2, TextsRead
<1>4. FInv /\ [BlockNext]_block_vars => FInv'
  BY <1>2, <1>3, FInvStep
<1>5. FInv => FieldsAsSent
  BY DEF FInv
<1> QED  BY <1>1, <1>4, <1>5, PTL DEF BlockSpec

(* In a valid block the decoder can refuse no representation.               *)
LEMMA ValidFits ==
    ASSUME Roomy, HuffmanReads, FInv, Valid, NEW k \in Nat, k = Len(read),
           k < Len(sent), NEW rep \in Representations, rep = sent[k + 1]
    PROVE  RoundFits(rep)
<1>1. PICK n \in Nat : n = k + 1 /\ n >= 1 /\ n \in 1 .. Len(sent)
                       /\ n <= MaxLength /\ sent \in Seq(Representations)
  <2>1. sent \in Seq(Representations) /\ Len(sent) <= MaxLength
    BY DEF FInv, BInv, BTypes
  <2>2. PICK L \in Nat : L = Len(sent)
    BY <2>1, LenProperties
  <2>3. k + 1 \in Nat /\ k + 1 >= 1 /\ k + 1 \in 1 .. L /\ k + 1 <= MaxLength
    BY <2>1, <2>2, BoundsAssumption
  <2> QED  BY <2>1, <2>2, <2>3
<1>2. PICK index \in Nat : index = rep.index
  BY RepresentationsAssumption DEF Representation
<1>3. TableMeant(n)
  BY <1>1 DEF FInv
<1>4. PICK C \in Nat : C = Entries(sent, n) /\ C = Len(dynamic_table) /\ C <= n - 1
  <2>1. Placed(sent, n)
    BY <1>1, AllPlaced
  <2> QED  BY <1>3, <2>1 DEF Placed, Counted, TableMeant
<1>5. rep.kind # "SizeUpdate" => index <= 61 + Earlier + C /\ ~(index > 61 + table_len)
  <2>1. n \in DOMAIN sent
    BY <1>1
  <2>2. rep.kind # "SizeUpdate" => index <= 61 + TableLength(n)
    BY <1>1, <1>2, <2>1 DEF Valid
  <2>3. TableLength(n) = Earlier + C /\ table_len = Earlier + C
    BY <1>4 DEF TableLength, table_len
  <2> QED  BY <2>2, <2>3 DEF Roomy
<1>6. rep.kind # "SizeUpdate" => Fits(index)
  <2>1. PICK limit \in Nat : limit = 2^28
    BY SMT
  <2>2. PICK E \in Nat : E = Earlier /\ 61 + E + MaxLength < limit
    BY <2>1 DEF Roomy, Fits
  <2>3. index <= 61 + E + C => index < limit
    BY <1>1, <1>4, <2>2, BoundsAssumption
  <2> QED  BY <1>5, <2>1, <2>2, <2>3 DEF Fits
<1>7. CASE rep.kind = "Indexed"
  BY <1>2, <1>5, <1>6, <1>7 DEF RoundFits
<1>8. CASE rep.kind = "SizeUpdate"
  BY <1>8 DEF RoundFits
<1>9. CASE rep.kind \notin {"Indexed", "SizeUpdate"}
  <2>1. Named(rep)
    <3>1. CASE index <= 61
      BY <1>2, <3>1, OkIsOk DEF Named, classify_table_index
    <3>2. CASE ~(index <= 61)
      <4>1. classify_table_index(index) = Ok(Entry(index - 61), 0)
        BY <1>5, <1>9, <3>2 DEF classify_table_index
      <4> QED  BY <1>2, <4>1, OkIsOk DEF Named
    <3> QED  BY <3>1, <3>2
  <2>2. index = 0 => Fits(Len(Coded(Spelling(rep.name), NameForm(rep))))
    <3>1. SUFFICES ASSUME index = 0
                   PROVE  Fits(Len(Coded(Spelling(rep.name), NameForm(rep))))
      OBVIOUS
    <3>2. PICK name \in {"path", "grpc-encoding", "other"},
               form \in {"plain", "huffman"} :
            name = rep.name /\ form = NameForm(rep)
      <4>1. rep.name \in {"path", "grpc-encoding", "other", "none"} /\ rep.name # "none"
        BY <1>2, <1>9, <3>1, RepresentationsAssumption DEF Representation
      <4> QED  BY <4>1 DEF NameForm
    <3>3. Fits(Len(Coded(Spelling(name), form)))
      BY Spelled
    <3> QED  BY <3>2, <3>3
  <2>3. LiteralFits(rep)
    BY <1>2, <1>6, <1>9, <2>1, <2>2 DEF LiteralFits, Roomy
  <2>4. NameRead(rep) = "path" => Text(Out(rep.value, rep.form)).ok
    <3>1. NameRead(rep) = MeantName(n)
      BY <1>1, <1>3, <1>9, <2>1, NameMeant
    <3>2. ~Readable(rep) => MeantName(n) # "path"
      BY <1>1 DEF Valid
    <3>3. Readable(rep) => Text(Out(rep.value, rep.form)).ok
      BY TextMeant
    <3> QED  BY <3>1, <3>2, <3>3
  <2> QED  BY <1>9, <2>3, <2>4 DEF RoundFits
<1> QED  BY <1>7, <1>8, <1>9

(* The inductive invariant of ValidBlockRead.                               *)
VInv == FInv /\ ValidBlockRead

(* It holds at first.                                                       *)
LEMMA VInvInit == BlockInit => VInv
<1> SUFFICES ASSUME BlockInit PROVE VInv
  OBVIOUS
<1>1. outcome = "reading"
  BY DEF BlockInit
<1> QED  BY <1>1, FInvInit DEF VInv, ValidBlockRead

(* A valid block stays valid, and what is read of it is taken.              *)
LEMMA ValidStep ==
    SmallSizes /\ HuffmanReads /\ EmptyUnknown /\ Roomy
      => (VInv /\ [BlockNext]_block_vars => ValidBlockRead')
<1> SUFFICES ASSUME SmallSizes, HuffmanReads, Roomy,
                    VInv, [BlockNext]_block_vars, missing' = 0, Valid'
             PROVE  /\ outcome' \in {"reading", "done"}
                    /\ outcome' = "done" => Len(read') = Len(sent')
  BY DEF ValidBlockRead
<1>1. UNCHANGED <<sent, missing>>
  BY DEF block_vars, BlockNext, ReadIndexed, ReadLiteralWithIndexing, ReadLiteral,
         ReadSizeUpdate, EndOfBlock, Round
<1>2. missing = 0 /\ Valid
  <2>1. \A i : MeantName(i)' = MeantName(i) /\ TableLength(i)' = TableLength(i)
    BY <1>1, Zenon DEF MeantName, TableLength
  <2> QED  BY <1>1, <2>1 DEF Valid
<1>3. /\ outcome \in {"reading", "done"}
      /\ outcome = "done" => Len(read) = Len(sent)
  BY <1>2 DEF VInv, ValidBlockRead
<1>4. CASE UNCHANGED block_vars
  BY <1>3, <1>4 DEF block_vars
<1>5. CASE BlockNext
  <2>1. PICK k \in Nat, n \in Nat : k = Len(read) /\ n = Len(sent) /\ k <= n
    <3>1. PICK T : read \in Seq(T)
      BY DEF VInv, FInv, BInv, BTypes
    <3> QED  BY <3>1, LenProperties DEF VInv, FInv, BInv, BTypes
  <2>2. EndOfBlock \/ RoundAt(k)
    BY <1>5, <2>1, RoundTaken DEF VInv, FInv
  <2>3. outcome = "reading"
    BY <1>5 DEF BlockNext, ReadIndexed, ReadLiteralWithIndexing, ReadLiteral,
                ReadSizeUpdate, EndOfBlock, Round
  <2>4. CASE EndOfBlock
    <3>1. buf = <<>> /\ outcome' = "done" /\ read' = read
      BY <2>4 DEF EndOfBlock
    <3>2. ~(k < Len(sent))
      BY <1>2, <2>1, <3>1, Unread DEF VInv, FInv
    <3> QED  BY <1>1, <2>1, <3>1, <3>2
  <2>5. CASE RoundAt(k)
    <3>1. PICK rep \in Representations : rep = sent[k + 1]
      <4>1. k + 1 \in 1 .. Len(sent) /\ sent \in Seq(Representations)
        BY <2>1, <2>5 DEF RoundAt, VInv, FInv, BInv, BTypes
      <4> QED  BY <4>1, ElementOfSeq
    <3>2. PICK enc : enc = RepresentationOctets(rep)
      OBVIOUS
    <3>3. RoundFits(rep)
      BY <1>2, <2>1, <2>5, <3>1, ValidFits DEF RoundAt, VInv
    <3>4. Len(enc) <= Len(buf)
      BY <1>2, <2>1, <2>5, <3>1, <3>2, Unread DEF RoundAt, VInv, FInv
    <3>5. Taken(rep, enc)
      BY <2>5, <3>1, <3>2, <3>3, <3>4 DEF RoundAt, Moved
    <3>6. outcome' = "reading"
      BY <2>3, <3>5 DEF Taken
    <3> QED  BY <3>6
  <2> QED  BY <2>2, <2>4, <2>5
<1> QED  BY <1>4, <1>5

(* ValidBlockRead: a block that arrives whole, and holds nothing the        *)
(* decoder may refuse, is read to its end, and all of it, if its strings    *)
(* and the table are not longer than five octets can say.                   *)
THEOREM ValidBlockReadHolds ==
    SmallSizes /\ TablesFit /\ EmptyUnknown /\ Roomy
      => (BlockSpec => []ValidBlockRead)
<1>1. BlockInit => VInv
  BY VInvInit
<1>2. SUFFICES ASSUME SmallSizes, TablesFit, EmptyUnknown, Roomy
               PROVE  BlockSpec => []ValidBlockRead
  OBVIOUS
<1>3. HuffmanReads
  BY <1>2, TextsRead
<1>4. VInv /\ [BlockNext]_block_vars => VInv'
  <2>1. FInv /\ [BlockNext]_block_vars => FInv'
    BY <1>2, <1>3, FInvStep
  <2>2. VInv /\ [BlockNext]_block_vars => ValidBlockRead'
    BY <1>2, <1>3, ValidStep
  <2> QED  BY <2>1, <2>2 DEF VInv
<1>5. VInv => ValidBlockRead
  BY DEF VInv
<1> QED  BY <1>1, <1>4, <1>5, PTL DEF BlockSpec
=============================================================================
