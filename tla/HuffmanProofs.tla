---------------------------- MODULE HuffmanProofs ----------------------------
(***************************************************************************)
(* Proofs about Huffman and HuffmanDecoder: what encode writes, decode     *)
(* reads, for every text, and the state machine keeps to the code for      *)
(* strings of any length.  What is assumed of the two tables is TablesFit, *)
(* a fact without variables that TLC evaluates.                            *)
(*                                                                         *)
(* A text is followed through the decoder half an octet at a time.  Before *)
(* each, some symbols have been read, a part of the next one's code has    *)
(* begun, the decoder is in a state that stands for that part, and the     *)
(* bits that are left complete the text (Stands).  Since no code begins    *)
(* another, the four bits end a code if and only if it is that symbol's.   *)
(***************************************************************************)
EXTENDS HuffmanDecoder, SequenceLemmas, TLAPS

Bit == {0, 1}

-----------------------------------------------------------------------------
(* Sequences put together in two ways                                      *)

(* What lies between the cuts of a sequence that is cut at two places.      *)
Overlap(S, a, b, c, d) ==
    \E e \in Seq(S) : c = a \o e /\ b = e \o d /\ Len(e) = Len(c) - Len(a)

(* If two sequences are cut at two places, what lies between the cuts       *)
(* belongs to the longer beginning and to the longer end.                   *)
LEMMA Between ==
    ASSUME NEW S, NEW a \in Seq(S), NEW b \in Seq(S), NEW c \in Seq(S),
           NEW d \in Seq(S), SameWhole(a, b, c, d), Len(a) <= Len(c)
    PROVE  Overlap(S, a, b, c, d)
<1>1. PICK n \in Nat : n = Len(a)
  BY LenProperties
<1>2. PICK p \in Seq(S), e \in Seq(S) :
        p \o e = c /\ Len(p) = n /\ Len(e) = Len(c) - n
  <2>1. n <= Len(c)
    BY <1>1
  <2>2. PICK p \in Seq(S) : p = SubSeq(c, 1, n)
    BY <2>1, Parts
  <2>3. PICK e \in Seq(S) : e = SubSeq(c, n + 1, Len(c))
    BY <2>1, Parts
  <2>4. p \o e = c /\ Len(p) = n /\ Len(e) = Len(c) - n
    BY <2>1, <2>2, <2>3, Parts
  <2> QED  BY <2>4
<1>3. p \o (e \o d) = a \o b
  <2>1. Regroups(p, e, d)
    BY Regroup
  <2> QED  BY <1>2, <2>1 DEF Regroups, SameWhole
<1>4. PICK w \in Seq(S) : w = e \o d
  BY ConcatProperties
<1>5. SameWhole(p, w, a, b)
  BY <1>3, <1>4 DEF SameWhole
<1>6. p = a /\ w = b
  <2>1. Len(p) = Len(a)
    BY <1>1, <1>2
  <2> QED  BY <1>5, <2>1, SameCut
<1> QED  BY <1>1, <1>2, <1>4, <1>6 DEF Overlap

(* The length of two sequences together.                                    *)
LEMMA Lengths ==
    ASSUME NEW S, NEW a \in Seq(S), NEW b \in Seq(S)
    PROVE  /\ a \o b \in Seq(S)
           /\ Len(a) \in Nat /\ Len(b) \in Nat
           /\ Len(a \o b) = Len(a) + Len(b)
  BY ConcatProperties, LenProperties

(* Two sequences with the same end ...                                      *)
LEMMA SameEnd ==
    ASSUME NEW S, NEW a \in Seq(S), NEW b \in Seq(S), NEW c \in Seq(S),
           a \o b = c \o b
    PROVE  a = c
<1>1. Len(a) = Len(c)
  <2>1. Len(a) + Len(b) = Len(c) + Len(b)
    BY Lengths
  <2> QED  BY <2>1, LenProperties
<1>2. SameWhole(a, b, c, b)
  BY DEF SameWhole
<1> QED  BY <1>1, <1>2, SameCut

(* The length of bits.                                                      *)
LEMMA BitLength ==
    \A s \in Seq(Bit) : Len(s) \in Nat /\ (s = <<>> <=> Len(s) = 0)
  BY LenProperties, EmptySeq

(* Places in a text of M + 1 symbols.                                       *)
LEMMA PlaceIn ==
    \A M \in Nat : \A m \in 0 .. M :
        /\ m \in Nat /\ m + 1 \in Nat /\ m + 1 \in 1 .. M + 1
        /\ m < M => m + 1 \in 0 .. M /\ m + 1 \in 1 .. M /\ (m + 1) + 1 \in Nat
        /\ ~(m < M) => m = M
  OBVIOUS

(* The sequences of bits, by a name of their own.                           *)
BitStrings == Seq(Bit)

(* They can be put together ...                                            *)
LEMMA BitsTogether ==
    /\ \A a, b \in BitStrings : a \o b \in BitStrings
    /\ \A a \in BitStrings : <<>> \o a = a /\ a \o <<>> = a
    /\ <<>> \in BitStrings
<1>1. \A a, b \in Seq(Bit) : a \o b \in Seq(Bit)
  BY ConcatProperties
<1>2. \A a \in Seq(Bit) : <<>> \o a = a /\ a \o <<>> = a
  BY ConcatEmptySeq
<1> QED  BY <1>1, <1>2, EmptySeq DEF BitStrings

(* ... in any order.                                                        *)
LEMMA BitsRegroup ==
    ASSUME NEW a \in BitStrings, NEW b \in BitStrings, NEW c \in BitStrings
    PROVE  Regroups(a, b, c)
  BY Regroup DEF BitStrings

(* Their lengths.                                                           *)
LEMMA BitLengths ==
    /\ \A a \in BitStrings : Len(a) \in Nat
    /\ \A a, b \in BitStrings : Len(a \o b) = Len(a) + Len(b)
    /\ \A a \in BitStrings : a = <<>> <=> Len(a) = 0
<1>1. \A a, b \in Seq(Bit) : Len(a \o b) = Len(a) + Len(b)
  BY ConcatProperties
<1> QED  BY <1>1, BitLength DEF BitStrings

(* What lies between two cuts, n bits from the beginning and k.             *)
Lies(a, b, c, d, l) ==
    \E e \in BitStrings : c = a \o e /\ b = e \o d /\ Len(e) = l

(* There are such bits.                                                     *)
LEMMA BitsBetween ==
    ASSUME NEW a \in BitStrings, NEW b \in BitStrings, NEW c \in BitStrings,
           NEW d \in BitStrings, SameWhole(a, b, c, d),
           NEW n \in Nat, n = Len(a), NEW k \in Nat, k = Len(c), n <= k,
           NEW l, l = k - n
    PROVE  Lies(a, b, c, d, l)
<1>1. Overlap(Bit, a, b, c, d)
  BY Between DEF BitStrings
<1> QED  BY <1>1 DEF Overlap, Lies, BitStrings

-----------------------------------------------------------------------------
(* The code                                                                *)

(* The code of a symbol.                                                    *)
LEMMA CodeIsBits ==
    ASSUME CodeFits, NEW s \in Symbols
    PROVE  Code[s] \in Seq(Bit) /\ Len(Code[s]) \in Nat /\ Len(Code[s]) > 4
<1>1. Code[s] \in Seq(Bit) /\ Len(Code[s]) > 4
  BY DEF CodeFits, Bit
<1> QED  BY <1>1, LenProperties

(* No bits begin with two codes.                                            *)
LEMMA OneCode ==
    ASSUME CodeFits, NEW s \in Symbols, NEW t \in Symbols,
           NEW y \in Seq(Bit), NEW w \in Seq(Bit),
           SameWhole(Code[s], y, Code[t], w)
    PROVE  s = t
<1>1. PICK c \in Seq(Bit) : c = Code[s]
  BY CodeIsBits
<1>2. PICK d \in Seq(Bit) : d = Code[t]
  BY CodeIsBits
<1>3. Len(c) \in Nat /\ Len(d) \in Nat
  BY LenProperties
<1>4. \A u \in Seq(Bit), v \in Seq(Bit), e \in Seq(Bit) :
        v = u \o e /\ Len(u) <= Len(v) => IsPrefix(u, v)
  <2> SUFFICES ASSUME NEW u \in Seq(Bit), NEW v \in Seq(Bit), NEW e \in Seq(Bit),
                      v = u \o e, Len(u) <= Len(v)
               PROVE  IsPrefix(u, v)
    OBVIOUS
  <2>1. PICK n \in Nat : n = Len(u)
    BY LenProperties
  <2>2. PICK p \in Seq(Bit), q \in Seq(Bit) :
          p = SubSeq(v, 1, n) /\ p \o q = v /\ Len(p) = n
    <3>1. PICK p \in Seq(Bit) : p = SubSeq(v, 1, n)
      BY <2>1, Parts
    <3>2. PICK q \in Seq(Bit) : q = SubSeq(v, n + 1, Len(v))
      BY <2>1, Parts
    <3>3. n <= Len(v)
      BY <2>1
    <3>4. /\ SubSeq(v, 1, n) \o SubSeq(v, n + 1, Len(v)) = v
          /\ Len(SubSeq(v, 1, n)) = n
      BY <3>3, Parts
    <3>5. p \o q = v /\ Len(p) = n
      BY <3>1, <3>2, <3>4, Zenon
    <3> QED  BY <3>1, <3>5, Zenon
  <2>3. p = u
    <3>1. SameWhole(p, q, u, e)
      BY <2>2 DEF SameWhole
    <3> QED  BY <2>1, <2>2, <3>1, SameCut
  <2>4. SubSeq(u, 1, n) = u
    BY <2>1, SubSeqFull
  <2> QED  BY <2>1, <2>2, <2>3, <2>4 DEF IsPrefix
<1>5. CASE Len(c) <= Len(d)
  <2>1. PICK e \in Seq(Bit) : d = c \o e
    <3>1. SameWhole(c, y, d, w)
      BY <1>1, <1>2
    <3>2. Overlap(Bit, c, y, d, w)
      BY <1>5, <3>1, Between
    <3> QED  BY <3>2 DEF Overlap
  <2>2. IsPrefix(Code[s], Code[t])
    BY <1>1, <1>2, <1>4, <1>5, <2>1
  <2> QED  BY <2>2 DEF CodeFits
<1>6. CASE Len(d) <= Len(c)
  <2>1. PICK e \in Seq(Bit) : c = d \o e
    <3>1. SameWhole(d, w, c, y)
      BY <1>1, <1>2 DEF SameWhole
    <3>2. Overlap(Bit, d, w, c, y)
      BY <1>6, <3>1, Between
    <3> QED  BY <3>2 DEF Overlap
  <2>2. IsPrefix(Code[t], Code[s])
    BY <1>1, <1>2, <1>4, <1>6, <2>1
  <2> QED  BY <2>2 DEF CodeFits
<1> QED  BY <1>3, <1>5, <1>6

(* A code names its symbol.                                                 *)
LEMMA SymbolOfCode ==
    ASSUME CodeFits, NEW s \in Symbols
    PROVE  SymbolOf(Code[s]) = s
<1>1. ASSUME NEW t \in Symbols, Code[t] = Code[s] PROVE t = s
  <2>1. <<>> \in Seq(Bit) /\ SameWhole(Code[t], <<>>, Code[s], <<>>)
    BY <1>1, EmptySeq DEF SameWhole
  <2> QED  BY <2>1, OneCode
<1> QED  BY <1>1 DEF SymbolOf

(* The codes are the codes of the symbols.                                  *)
LEMMA CodesAre == \A c : c \in Codes <=> \E s \in Symbols : c = Code[s]
  BY DEF Codes, Range, Code

-----------------------------------------------------------------------------
(* Four bits                                                               *)

(* The first bits of four and the others.                                   *)
CutAt(four, k) ==
    \E p, q \in Seq(Bit) : /\ p = SubSeq(four, 1, k) /\ Len(p) = k
                           /\ q = SubSeq(four, k + 1, 4)
                           /\ p \o q = four

LEMMA FourCut ==
    ASSUME NEW four \in Seq(Bit), Len(four) = 4, NEW k \in 1 .. 4
    PROVE  CutAt(four, k)
<1>1. k \in Nat /\ k <= Len(four)
  OBVIOUS
<1>2. PICK p \in Seq(Bit) : p = SubSeq(four, 1, k)
  BY <1>1, Parts
<1>3. PICK q \in Seq(Bit) : q = SubSeq(four, k + 1, 4)
  BY <1>1, Parts
<1>4. Len(p) = k /\ p \o q = four
  BY <1>1, <1>2, <1>3, Parts
<1> QED  BY <1>2, <1>3, <1>4 DEF CutAt

(* If a code that has begun does not end in the four bits, none does.       *)
LEMMA NoneEnds ==
    ASSUME CodeFits, NEW x \in Symbols, NEW b \in BitStrings,
           NEW four \in BitStrings, Len(four) = 4, NEW z \in BitStrings,
           b \o (four \o z) = Code[x], z # <<>>
    PROVE  CodeEnds(b, four) = {}
<1> USE DEF BitStrings
<1> SUFFICES ASSUME NEW k \in 1 .. 4, Upto(b, four, k) \in Codes PROVE FALSE
  BY DEF CodeEnds
<1>1. PICK s \in Symbols : b \o SubSeq(four, 1, k) = Code[s]
  BY CodesAre DEF Upto
<1>2. PICK p, q \in Seq(Bit) :
        p = SubSeq(four, 1, k) /\ Len(p) = k /\ p \o q = four
  <2>1. CutAt(four, k)
    BY FourCut
  <2> QED  BY <2>1 DEF CutAt
<1>3. PICK qz \in Seq(Bit) : qz = q \o z
  BY ConcatProperties
<1>4. Code[s] \o qz = Code[x]
  <2>1. four \o z = p \o qz
    <3>1. Regroups(p, q, z)
      BY Regroup
    <3> QED  BY <1>2, <1>3, <3>1 DEF Regroups
  <2>2. Regroups(b, p, qz)
    BY Regroup
  <2> QED  BY <1>1, <1>2, <2>1, <2>2 DEF Regroups
<1>5. s = x
  <2>1. <<>> \in Seq(Bit) /\ Code[x] \o <<>> = Code[x]
    BY CodeIsBits, EmptySeq, ConcatEmptySeq
  <2>2. SameWhole(Code[s], qz, Code[x], <<>>)
    BY <1>4, <2>1 DEF SameWhole
  <2> QED  BY <2>1, <2>2, OneCode
<1>6. Len(qz) = 0
  <2>1. PICK c \in Seq(Bit) : c = Code[x]
    BY CodeIsBits
  <2>2. Len(c \o qz) = Len(c) + Len(qz) /\ Len(c) \in Nat /\ Len(qz) \in Nat
    BY Lengths
  <2>3. c \o qz = c
    BY <1>4, <1>5, <2>1
  <2> QED  BY <2>2, <2>3
<1>7. Len(qz) > 0
  <2>1. Len(qz) = Len(q) + Len(z) /\ Len(q) \in Nat /\ Len(z) \in Nat
    BY <1>3, Lengths
  <2>2. Len(z) # 0
    BY EmptySeq
  <2> QED  BY <2>1, <2>2
<1> QED  BY <1>6, <1>7

(* The code of x ends in the four bits, and y is what stands after it.      *)
Ended(b, four, x, y) == DueAfter(b, four) = <<x>> /\ BegunAfter(b, four) = y

(* If it does end there, no other does.                                     *)
LEMMA OneEnds ==
    ASSUME CodeFits, NEW x \in Symbols, NEW b \in BitStrings,
           NEW four \in BitStrings, Len(four) = 4,
           NEW z \in BitStrings, NEW y \in BitStrings,
           b \o z = Code[x], four = z \o y, Len(z) \in 1 .. 4
    PROVE  Ended(b, four, x, y)
<1> USE DEF BitStrings
<1>1. PICK n \in 1 .. 4 : n = Len(z)
  OBVIOUS
<1>2. SubSeq(four, 1, n) = z /\ SubSeq(four, n + 1, 4) = y
  <2>1. PICK p, q \in Seq(Bit) :
          p = SubSeq(four, 1, n) /\ q = SubSeq(four, n + 1, 4) /\ Len(p) = n
            /\ p \o q = four
    <3>1. CutAt(four, n)
      BY FourCut
    <3> QED  BY <3>1 DEF CutAt
  <2>2. SameWhole(p, q, z, y)
    BY <2>1 DEF SameWhole
  <2> QED  BY <1>1, <2>1, <2>2, SameCut
<1>3. Upto(b, four, n) = Code[x]
  BY <1>2 DEF Upto
<1>4. ASSUME NEW k \in 1 .. 4, Upto(b, four, k) \in Codes PROVE k = n
  <2>1. PICK s \in Symbols : b \o SubSeq(four, 1, k) = Code[s]
    BY <1>4, CodesAre DEF Upto
  <2>2. PICK p, q \in Seq(Bit) :
          p = SubSeq(four, 1, k) /\ Len(p) = k /\ p \o q = four
    <3>1. CutAt(four, k)
      BY FourCut
    <3> QED  BY <3>1 DEF CutAt
  <2>3. SameWhole(Code[s], q, Code[x], y)
    <3>1. Regroups(b, p, q) /\ Regroups(b, z, y)
      BY Regroup
    <3> QED  BY <2>1, <2>2, <3>1 DEF Regroups, SameWhole
  <2>4. s = x
    BY <2>3, OneCode
  <2>5. b \o p = b \o z
    BY <2>1, <2>2, <2>4
  <2>6. Len(b) + Len(p) = Len(b) + Len(z) /\ Len(b) \in Nat
    <3>1. Len(b \o p) = Len(b) + Len(p) /\ Len(b \o z) = Len(b) + Len(z)
      BY Lengths
    <3> QED  BY <2>5, <3>1, LenProperties
  <2> QED  BY <1>1, <2>2, <2>6
<1>5. CodeEnds(b, four) = {n}
  <2>1. Upto(b, four, n) \in Codes
    BY <1>3, CodesAre
  <2> QED  BY <1>4, <2>1 DEF CodeEnds
<1>6. (CHOOSE k \in CodeEnds(b, four) : TRUE) = n
  BY <1>5
<1> QED  BY <1>2, <1>3, <1>5, <1>6, SymbolOfCode, Zenon DEF DueAfter, BegunAfter, Ended

-----------------------------------------------------------------------------
(* Decoding                                                                *)

(* What decode4 returns by the code, which does not end EOS there.          *)
Answers(pairs, b, four, d) ==
    /\ d.err = FALSE
    /\ d.ret = DueAfter(b, four)
    /\ <<d.decoder, BegunAfter(b, four)>> \in pairs

(* What decode4 returns in a state of the set and on four bits that do not  *)
(* end the code of EOS.                                                     *)
LEMMA NibbleAgrees ==
    ASSUME NEW pairs, Agree(pairs), NEW dec, NEW b, <<dec, b>> \in pairs,
           NEW input \in HalfOctets, NEW four, four = BitsOf(input, 4),
           DueAfter(b, four) # <<EOS>>, NEW d, d = decode4(dec, input)
    PROVE  Answers(pairs, b, four, d)
<1>1. PICK pair \in pairs : pair = <<dec, b>>
  OBVIOUS
<1>2. pair[1] = dec /\ pair[2] = b
  BY <1>1
<1>3. d.err \in BOOLEAN
  BY DEF decode4, Decoded, IsSet
<1>4. IF DueAfter(b, four) = <<EOS>> THEN d.err
      ELSE /\ ~d.err
           /\ d.ret = DueAfter(b, four)
           /\ <<d.decoder, BegunAfter(b, four)>> \in pairs
  <2>1. \A p \in pairs, i \in HalfOctets :
          IF DueAfter(p[2], BitsOf(i, 4)) = <<EOS>> THEN decode4(p[1], i).err
          ELSE /\ ~decode4(p[1], i).err
               /\ decode4(p[1], i).ret = DueAfter(p[2], BitsOf(i, 4))
               /\ <<decode4(p[1], i).decoder, BegunAfter(p[2], BitsOf(i, 4))>> \in pairs
    BY DEF Agree
  <2> QED  BY <1>2, <2>1, Zenon
<1> QED  BY <1>3, <1>4 DEF Answers

(* Four bits of input in front of the others.                               *)
FourOf(input, four, U, V) ==
    four = BitsOf(input, 4) /\ Len(four) = 4 /\ U = four \o V

(* T has the bits from each symbol of the text X on.                        *)
Tails(T, X, M) ==
    /\ \A n \in Nat : T[n] \in BitStrings
    /\ \A n \in 0 .. M : T[n] = Code[X[n + 1]] \o T[n + 1]
    /\ T[M + 1] = <<>>

(* Where the decoder stands before the bits U, which `extra` completes to   *)
(* the code of a text X: m symbols are read, b of the next has begun and z  *)
(* of it is to come.                                                        *)
Place(pairs, X, T, extra, r, U, m, b, z) ==
    /\ r.ok = TRUE
    /\ r.buf = SubSeq(X, 1, m)
    /\ <<r.decoder, b>> \in pairs
    /\ b \o z = Code[X[m + 1]]
    /\ z # <<>>
    /\ U \o extra = z \o T[m + 1]

(* It stands somewhere before the end of the last symbol.                   *)
Stands(pairs, X, M, T, extra, r, U) ==
    \E m \in 0 .. M, b \in BitStrings, z \in BitStrings :
        Place(pairs, X, T, extra, r, U, m, b, z)

(* One more symbol of a text.                                               *)
LEMMA OneSymbol ==
    ASSUME NEW M \in Nat, NEW X \in Seq(Symbols), Len(X) = M + 1,
           NEW m \in 0 .. M
    PROVE  /\ SubSeq(X, 1, m) \in Seq(Symbols)
           /\ X[m + 1] \in Symbols
           /\ SubSeq(X, 1, m) \o <<X[m + 1]>> = SubSeq(X, 1, m + 1)
<1>1. m \in Nat /\ m + 1 <= Len(X) /\ m + 1 \in 1 .. Len(X) /\ m <= Len(X)
  OBVIOUS
<1>2. X[m + 1] \in Symbols
  BY <1>1, ElementOfSeq
<1>3. SubSeq(X, 1, m) \in Seq(Symbols)
  BY <1>1, Parts
<1>4. PICK one \in Seq(Symbols) : one = SubSeq(X, m + 1, m + 1) /\ Len(one) = 1
  <2>1. SubSeq(X, m + 1, m + 1) \in Seq(Symbols)
    BY <1>1, Piece
  <2>2. Len(SubSeq(X, m + 1, m + 1)) = 1
    BY <1>1, Piece
  <2> QED  BY <2>1, <2>2
<1>5. one[1] = X[m + 1]
  BY <1>1, <1>4, SubSeqProperties
<1>6. one = <<X[m + 1]>>
  <2>1. PICK x \in Symbols : x = X[m + 1]
    BY <1>2
  <2>2. one = <<x>>
    <3>1. PICK same \in Seq(Symbols) : same = <<x>> /\ Len(same) = 1 /\ same[1] = x
      <4>1. <<x>> \in Seq(Symbols) /\ Len(<<x>>) = 1 /\ <<x>>[1] = x
        BY OneOf
      <4> QED  BY <4>1
    <3>2. \A i \in 1 .. 1 : one[i] = same[i]
      BY <1>5, <2>1, <3>1
    <3> QED  BY <1>4, <3>1, <3>2, SeqEqual
  <2> QED  BY <2>1, <2>2
<1>7. SubSeq(X, 1, m) \o SubSeq(X, m + 1, m + 1) = SubSeq(X, 1, m + 1)
  BY <1>1, Piece
<1> QED  BY <1>2, <1>3, <1>4, <1>6, <1>7

(* Four bits in which the symbol that has begun does not end.               *)
LEMMA NibbleGoesOn ==
    ASSUME CodeFits, NEW pairs, Agree(pairs),
           NEW M \in Nat, NEW X \in Seq(Symbols), Len(X) = M + 1,
           NEW T, Tails(T, X, M),
           NEW extra \in BitStrings,
           NEW input \in HalfOctets,
           NEW four \in BitStrings, NEW U \in BitStrings, NEW V \in BitStrings,
           FourOf(input, four, U, V),
           NEW r, NEW m \in 0 .. M, NEW b \in BitStrings, NEW z \in BitStrings,
           Place(pairs, X, T, extra, r, U, m, b, z),
           NEW n \in Nat, n = Len(z), n > 4
    PROVE  Stands(pairs, X, M, T, extra, ReadNibble(r, input), V)
<1>1. PICK t \in BitStrings : t = T[m + 1]
  <2>1. m + 1 \in Nat
    BY PlaceIn
  <2> QED  BY <2>1 DEF Tails
<1>2. PICK x \in Symbols : x = X[m + 1]
  BY OneSymbol
<1>3. PICK ve \in BitStrings : ve = V \o extra
  BY BitsTogether
<1>4. SameWhole(four, ve, z, t)
  <2>1. Regroups(four, V, extra)
    BY BitsRegroup
  <2> QED  BY <1>1, <1>3, <2>1 DEF Regroups, SameWhole, Place, FourOf
<1>5. PICK e \in BitStrings : z = four \o e /\ ve = e \o t /\ Len(e) = n - 4
  <2>1. PICK k \in Nat, l \in Nat : k = Len(four) /\ k = 4 /\ l = n - k
    <3>1. 4 = Len(four)
      BY DEF FourOf
    <3>2. PICK k \in Nat : k = 4
      OBVIOUS
    <3>3. n - k \in Nat
      BY <3>2
    <3> QED  BY <3>1, <3>2, <3>3
  <2>2. k <= n
    BY <2>1
  <2>3. Lies(four, ve, z, t, l)
    BY <1>4, <2>1, <2>2, BitsBetween
  <2> QED  BY <2>1, <2>3 DEF Lies
<1>6. e # <<>>
  <2>1. Len(e) # 0
    BY <1>5
  <2> QED  BY <2>1, BitLengths
<1>7. b \o (four \o e) = Code[x]
  BY <1>2, <1>5 DEF Place
<1>8. CodeEnds(b, four) = {}
  <2>1. Len(four) = 4
    BY DEF FourOf
  <2> QED  BY <1>6, <1>7, <2>1, NoneEnds
<1>9. DueAfter(b, four) = <<>> /\ BegunAfter(b, four) = b \o four
  BY <1>8 DEF DueAfter, BegunAfter
<1>10. PICK d : d = decode4(r.decoder, input)
  OBVIOUS
<1>11. d.err = FALSE /\ d.ret = <<>> /\ <<d.decoder, b \o four>> \in pairs
  <2>1. PICK dec : dec = r.decoder /\ <<dec, b>> \in pairs
    BY DEF Place
  <2>2. DueAfter(b, four) # <<EOS>>
    <3>1. <<>> # <<EOS>>
      OBVIOUS
    <3> QED  BY <1>9, <3>1, Zenon
  <2>3. Answers(pairs, b, four, d)
    <3>1. four = BitsOf(input, 4) /\ d = decode4(dec, input)
      BY <1>10, <2>1 DEF FourOf
    <3> QED  BY <2>1, <2>2, <3>1, NibbleAgrees
  <2> QED  BY <1>9, <2>3 DEF Answers
<1>12. PICK rr : rr = ReadNibble(r, input)
  OBVIOUS
<1>13. rr.ok = TRUE /\ rr.decoder = d.decoder /\ rr.buf = r.buf \o <<>>
  BY <1>10, <1>11, <1>12 DEF ReadNibble, Extended, Place
<1>14. rr.buf = SubSeq(X, 1, m)
  <2>1. SubSeq(X, 1, m) \in Seq(Symbols)
    BY OneSymbol
  <2>2. SubSeq(X, 1, m) \o <<>> = SubSeq(X, 1, m)
    BY <2>1, ConcatEmptySeq
  <2> QED  BY <1>13, <2>2 DEF Place
<1>15. PICK bb \in BitStrings : bb = b \o four
  BY BitsTogether
<1>16. bb \o e = Code[X[m + 1]]
  <2>1. Regroups(b, four, e)
    BY BitsRegroup
  <2> QED  BY <1>2, <1>7, <1>15, <2>1 DEF Regroups
<1>17. Place(pairs, X, T, extra, rr, V, m, bb, e)
  BY <1>1, <1>3, <1>5, <1>6, <1>11, <1>13, <1>14, <1>15, <1>16 DEF Place
<1> QED  BY <1>12, <1>17 DEF Stands

(* Numbers of bits: one to four end a code, and fewer than five are none.   *)
LEMMA OneToFour ==
    /\ \A n \in Nat : n # 0 /\ ~(n > 4) => n \in 1 .. 4
    /\ \A n \in 1 .. 4, k \in Nat : \A j :
         k > 4 /\ j = 4 - n => j \in Nat /\ j <= k /\ j # k
  BY SMT

(* Four bits in which it does.                                              *)
LEMMA NibbleEnds ==
    ASSUME CodeFits, NEW pairs, Agree(pairs),
           NEW M \in Nat, NEW X \in Seq(Symbols), Len(X) = M + 1,
           \A i \in 1 .. M : X[i] # EOS,
           NEW T, Tails(T, X, M),
           NEW extra \in BitStrings, extra # <<>>,
           NEW input \in HalfOctets,
           NEW four \in BitStrings, NEW U \in BitStrings, NEW V \in BitStrings,
           FourOf(input, four, U, V),
           NEW r, NEW m \in 0 .. M, NEW b \in BitStrings, NEW z \in BitStrings,
           Place(pairs, X, T, extra, r, U, m, b, z),
           NEW n \in Nat, n = Len(z), ~(n > 4)
    PROVE  Stands(pairs, X, M, T, extra, ReadNibble(r, input), V)
<1>1. PICK t \in BitStrings : t = T[m + 1]
  <2>1. m + 1 \in Nat
    BY PlaceIn
  <2> QED  BY <2>1 DEF Tails
<1>2. PICK x \in Symbols : x = X[m + 1]
  BY OneSymbol
<1>3. PICK ve \in BitStrings : ve = V \o extra
  BY BitsTogether
<1>4. SameWhole(z, t, four, ve)
  <2>1. Regroups(four, V, extra)
    BY BitsRegroup
  <2> QED  BY <1>1, <1>3, <2>1 DEF Regroups, SameWhole, Place, FourOf
<1>5. n \in 1 .. 4
  <2>1. z # <<>>
    BY DEF Place
  <2>2. n # 0
    BY <2>1, BitLengths
  <2> QED  BY <2>2, OneToFour, Zenon
<1>6. PICK y \in BitStrings : four = z \o y /\ t = y \o ve /\ Len(y) = 4 - n
  <2>1. PICK k \in Nat, l \in Nat : k = Len(four) /\ k = 4 /\ l = k - n
    <3>1. 4 = Len(four)
      BY DEF FourOf
    <3>2. PICK k \in Nat : k = 4
      OBVIOUS
    <3>3. k - n \in Nat
      BY <3>2, <1>5
    <3> QED  BY <3>1, <3>2, <3>3
  <2>2. n <= k
    BY <2>1
  <2>3. Lies(z, t, four, ve, l)
    BY <1>4, <2>1, <2>2, BitsBetween
  <2> QED  BY <2>1, <2>3 DEF Lies
<1>7. m < M
  <2> SUFFICES ASSUME m = M PROVE FALSE
    BY PlaceIn
  <2>1. t = <<>>
    BY <1>1 DEF Tails
  <2>2. Len(y) + Len(ve) = 0 /\ Len(y) \in Nat
    <3>1. Len(y \o ve) = Len(y) + Len(ve) /\ Len(t) = 0
      BY <2>1, BitLengths
    <3> QED  BY <1>6, <3>1, BitLengths
  <2>3. Len(ve) = Len(V) + Len(extra) /\ Len(V) \in Nat /\ Len(extra) \in Nat
    BY <1>3, BitLengths
  <2>4. Len(extra) = 0
    BY <2>2, <2>3
  <2> QED  BY <2>4, BitLengths
<1>8. m + 1 \in 0 .. M /\ m + 1 \in 1 .. M /\ (m + 1) + 1 \in Nat
  BY <1>7, PlaceIn
<1>9. x # EOS
  BY <1>2, <1>8
<1>10. b \o z = Code[x]
  BY <1>2 DEF Place
<1>11. DueAfter(b, four) = <<x>> /\ BegunAfter(b, four) = y
  <2>1. Len(four) = 4 /\ Len(z) \in 1 .. 4
    BY <1>5 DEF FourOf
  <2>2. Ended(b, four, x, y)
    BY <1>6, <1>10, <2>1, OneEnds
  <2> QED  BY <2>2 DEF Ended
<1>12. PICK d : d = decode4(r.decoder, input)
  OBVIOUS
<1>13. d.err = FALSE /\ d.ret = <<x>> /\ <<d.decoder, y>> \in pairs
  <2>1. PICK dec : dec = r.decoder /\ <<dec, b>> \in pairs
    BY DEF Place
  <2>2. DueAfter(b, four) # <<EOS>>
    BY <1>9, <1>11
  <2>3. Answers(pairs, b, four, d)
    <3>1. four = BitsOf(input, 4) /\ d = decode4(dec, input)
      BY <1>12, <2>1 DEF FourOf
    <3> QED  BY <2>1, <2>2, <3>1, NibbleAgrees
  <2> QED  BY <1>11, <2>3 DEF Answers
<1>14. PICK rr : rr = ReadNibble(r, input)
  OBVIOUS
<1>15. rr.ok = TRUE /\ rr.decoder = d.decoder /\ rr.buf = r.buf \o <<x>>
  BY <1>12, <1>13, <1>14 DEF ReadNibble, Extended, Place
<1>16. rr.buf = SubSeq(X, 1, m + 1)
  <2>1. SubSeq(X, 1, m) \o <<X[m + 1]>> = SubSeq(X, 1, m + 1)
    BY OneSymbol
  <2>2. r.buf = SubSeq(X, 1, m)
    BY DEF Place
  <2> QED  BY <1>2, <1>15, <2>1, <2>2, Zenon
<1>17. PICK next \in Symbols : next = X[(m + 1) + 1]
  BY <1>8, OneSymbol
<1>18. PICK c \in BitStrings, k \in Nat : c = Code[next] /\ k = Len(c) /\ k > 4
  <2>1. PICK c \in BitStrings : c = Code[next]
    BY CodeIsBits DEF BitStrings
  <2>2. PICK k \in Nat : k = Len(c) /\ k > 4
    BY <2>1, CodeIsBits
  <2> QED  BY <2>1, <2>2
<1>19. PICK u \in BitStrings : u = T[(m + 1) + 1]
  BY <1>8 DEF Tails
<1>20. SameWhole(y, ve, c, u)
  BY <1>1, <1>6, <1>8, <1>17, <1>18, <1>19 DEF Tails, SameWhole
<1>21. PICK e \in BitStrings : c = y \o e /\ ve = e \o u /\ Len(e) # 0
  <2>1. PICK j \in Nat : j = Len(y) /\ j <= k /\ j # k
    <3>1. Len(y) \in Nat /\ Len(y) <= k /\ Len(y) # k
      BY <1>5, <1>6, <1>18, OneToFour, Zenon
    <3> QED  BY <3>1, Zenon
  <2>2. PICK l \in Nat : l = k - j /\ l # 0
    <3>1. k - j \in Nat /\ k - j # 0
      BY <2>1
    <3> QED  BY <3>1
  <2>3. Lies(y, ve, c, u, l)
    BY <1>18, <1>20, <2>1, <2>2, BitsBetween
  <2> QED  BY <2>2, <2>3 DEF Lies
<1>22. e # <<>>
  BY <1>21, BitLengths
<1>23. Place(pairs, X, T, extra, rr, V, m + 1, y, e)
  BY <1>3, <1>13, <1>15, <1>16, <1>17, <1>18, <1>19, <1>21, <1>22 DEF Place
<1> QED  BY <1>8, <1>14, <1>23 DEF Stands

(* Four bits.                                                               *)
LEMMA NibbleRead ==
    ASSUME CodeFits, NEW pairs, Agree(pairs),
           NEW M \in Nat, NEW X \in Seq(Symbols), Len(X) = M + 1,
           \A i \in 1 .. M : X[i] # EOS,
           NEW T, Tails(T, X, M),
           NEW extra \in BitStrings, extra # <<>>,
           NEW input \in HalfOctets,
           NEW four \in BitStrings, NEW U \in BitStrings, NEW V \in BitStrings,
           FourOf(input, four, U, V),
           NEW r, Stands(pairs, X, M, T, extra, r, U)
    PROVE  Stands(pairs, X, M, T, extra, ReadNibble(r, input), V)
<1>1. PICK m \in 0 .. M, b \in BitStrings, z \in BitStrings :
        Place(pairs, X, T, extra, r, U, m, b, z)
  BY DEF Stands
<1>2. PICK n \in Nat : n = Len(z)
  BY BitLengths
<1>3. CASE n > 4
  BY <1>1, <1>2, <1>3, NibbleGoesOn
<1>4. CASE ~(n > 4)
  BY <1>1, <1>2, <1>4, NibbleEnds
<1> QED  BY <1>3, <1>4

-----------------------------------------------------------
(* Octets and their bits                                                   *)

(* The number of the first n bits, by that of the ones before.              *)
NumberBy(f, w, n) == IF n = 0 THEN 0 ELSE 2 * f[n-1] + w[n]

(* Number is what its recursion says.                                       *)
LEMMA NumberSteps ==
    ASSUME NEW w, NEW L \in Nat, L = Len(w), \A i \in 1 .. L : w[i] \in Bit
    PROVE  \E F : /\ Number(w) = F[L]
                  /\ F[0] = 0
                  /\ \A n \in 1 .. L : F[n] = 2 * F[n-1] + w[n]
<1> DEFINE Eq(f) == f = [n \in 0 .. L |-> NumberBy(f, w, n)]
           F == CHOOSE f : Eq(f)
           next(n, x) == IF n + 1 \in 1 .. L THEN 2 * x + w[n + 1] ELSE x
           step == [n \in Nat |-> [x \in Int |-> next(n, x)]]
<1>1. Number(w) = F[L]
  BY DEF Number, NumberBy
<1>2. \A n \in Nat, x \in Int : next(n, x) \in Int
  BY DEF Bit
<1>3. step \in [Nat -> [Int -> Int]]
  <2> HIDE DEF next
  <2> QED  BY <1>2
<1>4. \A n \in Nat, x \in Int : step[n][x] = next(n, x)
  <2> HIDE DEF next
  <2> QED  OBVIOUS
<1> HIDE DEF step, next
<1>5. \E g \in [Nat -> Int] : Recurs(g, 0, step)
  <2>1. PICK base \in Int : base = 0
    OBVIOUS
  <2>2. \E g \in [Nat -> Int] : Recurs(g, base, step)
    BY <1>3, NatRecursion
  <2> QED  BY <2>1, <2>2
<1>6. PICK g \in [Nat -> Int] :
        g[0] = 0 /\ \A n \in Nat : g[n + 1] = step[n][g[n]]
  BY <1>5 DEF Recurs
<1> DEFINE h == [n \in 0 .. L |-> g[n]]
<1>7. \A n \in 0 .. L : h[n] = NumberBy(h, w, n)
  <2>1. TAKE n \in 0 .. L
  <2>2. CASE n = 0
    BY <1>6, <2>2 DEF NumberBy
  <2>3. CASE n # 0
    <3>1. PICK m \in Nat : m + 1 = n /\ m = n - 1 /\ m \in 0 .. L /\ m + 1 \in 1 .. L
      <4>1. n - 1 \in Nat /\ (n - 1) + 1 = n /\ n - 1 \in 0 .. L /\ n \in 1 .. L
        BY <2>3
      <4> QED  BY <4>1
    <3>2. g[m + 1] = next(m, g[m])
      BY <1>4, <1>6
    <3>3. h[n] = g[m + 1] /\ h[m] = g[m]
      BY <3>1
    <3> QED  BY <2>3, <3>1, <3>2, <3>3 DEF NumberBy, next
  <2> QED  BY <2>2, <2>3
<1>8. Eq(h)
  <2>1. h = [n \in 0 .. L |-> h[n]]
    OBVIOUS
  <2> HIDE DEF h
  <2> QED  BY <1>7, <2>1
<1>9. Eq(F)
  <2> HIDE DEF Eq, h
  <2> QED  BY <1>8
<1> HIDE DEF F
<1>10. \A n \in 0 .. L : F[n] = NumberBy(F, w, n)
  BY <1>9
<1>11. F[0] = 0
  BY <1>10 DEF NumberBy
<1>12. \A n \in 1 .. L : F[n] = 2 * F[n-1] + w[n]
  BY <1>10 DEF NumberBy
<1> QED  BY <1>1, <1>11, <1>12

(* The number of eight bits.                                                *)
LEMMA NumberOfEight ==
    ASSUME NEW w, Len(w) = 8,
           NEW b1 \in Bit, NEW b2 \in Bit, NEW b3 \in Bit, NEW b4 \in Bit,
           NEW b5 \in Bit, NEW b6 \in Bit, NEW b7 \in Bit, NEW b8 \in Bit,
           w[1] = b1 /\ w[2] = b2 /\ w[3] = b3 /\ w[4] = b4,
           w[5] = b5 /\ w[6] = b6 /\ w[7] = b7 /\ w[8] = b8
    PROVE  Number(w) = 16 * (8*b1 + 4*b2 + 2*b3 + b4) + (8*b5 + 4*b6 + 2*b7 + b8)
<1>1. \A i \in 1 .. 8 : w[i] \in Bit
  <2>1. TAKE i \in 1 .. 8
  <2>2. i = 1 \/ i = 2 \/ i = 3 \/ i = 4 \/ i = 5 \/ i = 6 \/ i = 7 \/ i = 8
    OBVIOUS
  <2> QED  BY <2>2
<1>2. PICK L \in Nat : L = 8
  OBVIOUS
<1>3. PICK F : /\ Number(w) = F[L]
               /\ F[0] = 0
               /\ \A n \in 1 .. L : F[n] = 2 * F[n-1] + w[n]
  BY <1>1, <1>2, NumberSteps
<1>4. /\ F[1] = 2 * F[0] + b1
      /\ F[2] = 2 * F[1] + b2
      /\ F[3] = 2 * F[2] + b3
      /\ F[4] = 2 * F[3] + b4
      /\ F[5] = 2 * F[4] + b5
      /\ F[6] = 2 * F[5] + b6
      /\ F[7] = 2 * F[6] + b7
      /\ F[8] = 2 * F[7] + b8
  BY <1>2, <1>3
<1>5. \A b \in Bit : b \in Nat
  BY DEF Bit
<1>6. F[1] = b1 /\ F[1] \in Nat
  BY <1>3, <1>4, <1>5
<1>7. F[2] = 2*b1 + b2 /\ F[2] \in Nat
  BY <1>4, <1>5, <1>6
<1>8. F[3] = 4*b1 + 2*b2 + b3 /\ F[3] \in Nat
  BY <1>4, <1>5, <1>7
<1>9. F[4] = 8*b1 + 4*b2 + 2*b3 + b4 /\ F[4] \in Nat
  BY <1>4, <1>5, <1>8
<1>10. PICK h \in Nat : h = F[4]
  BY <1>9
<1>11. F[5] = 2*h + b5 /\ F[5] \in Nat
  BY <1>4, <1>5, <1>10
<1>12. F[6] = 4*h + 2*b5 + b6 /\ F[6] \in Nat
  BY <1>4, <1>5, <1>11
<1>13. F[7] = 8*h + 4*b5 + 2*b6 + b7 /\ F[7] \in Nat
  BY <1>4, <1>5, <1>12
<1>14. F[8] = 16*h + 8*b5 + 4*b6 + 2*b7 + b8
  BY <1>4, <1>5, <1>13
<1> QED  BY <1>2, <1>3, <1>5, <1>9, <1>10, <1>14

(* The half octet of four bits.                                             *)
HasBits(h, b1, b2, b3, b4) ==
    /\ h \in HalfOctets
    /\ BitsOf(h, 4) = [i \in 1 .. 4 |-> IF i = 1 THEN b1 ELSE IF i = 2 THEN b2
                                        ELSE IF i = 3 THEN b3 ELSE b4]

(* Four bits and their number.                                              *)
LEMMA BitsOfFour ==
    ASSUME NEW b1 \in Bit, NEW b2 \in Bit, NEW b3 \in Bit, NEW b4 \in Bit,
           NEW h, h = 8*b1 + 4*b2 + 2*b3 + b4
    PROVE  HasBits(h, b1, b2, b3, b4)
<1>1. h \in 0 .. 15
  BY DEF Bit
<1>2. /\ (h \div 8) % 2 = b1
      /\ (h \div 4) % 2 = b2
      /\ (h \div 2) % 2 = b3
      /\ (h \div 1) % 2 = b4
  BY DEF Bit
<1>3. 2^3 = 8 /\ 2^2 = 4 /\ 2^1 = 2 /\ 2^0 = 1
  BY SMT
<1>4. \A i \in 1 .. 4 : (h \div 2^(4 - i)) % 2
                           = IF i = 1 THEN b1 ELSE IF i = 2 THEN b2
                             ELSE IF i = 3 THEN b3 ELSE b4
  <2>1. TAKE i \in 1 .. 4
  <2>2. i = 1 \/ i = 2 \/ i = 3 \/ i = 4
    OBVIOUS
  <2>3. CASE i = 1
    <3>1. 4 - i = 3
      BY <2>3
    <3> QED  BY <1>2, <1>3, <2>3, <3>1
  <2>4. CASE i = 2
    <3>1. 4 - i = 2
      BY <2>4
    <3> QED  BY <1>2, <1>3, <2>4, <3>1
  <2>5. CASE i = 3
    <3>1. 4 - i = 1
      BY <2>5
    <3> QED  BY <1>2, <1>3, <2>5, <3>1
  <2>6. CASE i = 4
    <3>1. 4 - i = 0
      BY <2>6
    <3> QED  BY <1>2, <1>3, <2>6, <3>1
  <2> QED  BY <2>2, <2>3, <2>4, <2>5, <2>6
<1> QED  BY <1>1, <1>4 DEF HalfOctets, BitsOf, HasBits

(* An octet o and its eight bits w, half by half.                           *)
HasHalves(o, w) ==
    /\ o \in 0 .. 255
    /\ o \div 16 \in HalfOctets
    /\ o % 16 \in HalfOctets
    /\ \A i \in 1 .. 4 : BitsOf(o \div 16, 4)[i] = w[i]
    /\ \A i \in 1 .. 4 : BitsOf(o % 16, 4)[i] = w[4 + i]

(* The halves of the octet that eight bits make.                            *)
LEMMA OctetHalves ==
    ASSUME NEW w, Len(w) = 8, \A i \in 1 .. 8 : w[i] \in Bit,
           NEW o, o = Number(w)
    PROVE  HasHalves(o, w)
<1>1. PICK b1 \in Bit, b2 \in Bit, b3 \in Bit, b4 \in Bit :
        w[1] = b1 /\ w[2] = b2 /\ w[3] = b3 /\ w[4] = b4
  OBVIOUS
<1>2. PICK b5 \in Bit, b6 \in Bit, b7 \in Bit, b8 \in Bit :
        w[5] = b5 /\ w[6] = b6 /\ w[7] = b7 /\ w[8] = b8
  OBVIOUS
<1>3. PICK h : h = 8*b1 + 4*b2 + 2*b3 + b4
  OBVIOUS
<1>4. PICK l : l = 8*b5 + 4*b6 + 2*b7 + b8
  OBVIOUS
<1>5. o = 16 * h + l
  BY <1>1, <1>2, <1>3, <1>4, NumberOfEight
<1>6. HasBits(h, b1, b2, b3, b4)
  BY <1>3, BitsOfFour
<1>7. HasBits(l, b5, b6, b7, b8)
  BY <1>4, BitsOfFour
<1>8. o \in 0 .. 255 /\ o \div 16 = h /\ o % 16 = l
  BY <1>5, <1>6, <1>7 DEF HalfOctets, HasBits
<1>9. ASSUME NEW i \in 1 .. 4
      PROVE  BitsOf(h, 4)[i] = w[i] /\ BitsOf(l, 4)[i] = w[4 + i]
  <2>1. i = 1 \/ i = 2 \/ i = 3 \/ i = 4
    OBVIOUS
  <2>2. 4 + 1 = 5 /\ 4 + 2 = 6 /\ 4 + 3 = 7 /\ 4 + 4 = 8
    OBVIOUS
  <2> QED  BY <1>1, <1>2, <1>6, <1>7, <2>1, <2>2 DEF HasBits
<1> QED  BY <1>6, <1>7, <1>8, <1>9 DEF HasBits, HasHalves

(* Bits within others: the l bits after the first j.                        *)
IsPart(w, s, j, l) ==
    /\ w \in Seq(Bit) /\ Len(w) = l
    /\ \A i \in 1 .. l : w[i] = s[j + i]

(* What SubSeq cuts out of bits.                                            *)
LEMMA BitsCut ==
    ASSUME NEW s, NEW m \in Int, NEW n \in Int, \A i \in m .. n : s[i] \in Bit
    PROVE  /\ SubSeq(s, m, n) \in Seq(Bit)
           /\ Len(SubSeq(s, m, n)) = IF m <= n THEN n - m + 1 ELSE 0
           /\ \A i \in 1 .. n - m + 1 : SubSeq(s, m, n)[i] = s[m + i - 1]
BY SubSeqProperties, SMTT(60)

(* SubSeq cuts them out.                                                    *)
LEMMA PartWithin ==
    ASSUME NEW s, NEW j \in Nat, NEW l \in Nat, NEW L \in Nat, l # 0, j + l <= L,
           \A i \in 1 .. L : s[i] \in Bit,
           NEW a, a = j + 1, NEW b, b = j + l,
           NEW w, w = SubSeq(s, a, b)
    PROVE  IsPart(w, s, j, l)
<1>1. PICK m \in Int : m = a /\ m = j + 1
  OBVIOUS
<1>2. PICK n \in Int : n = b /\ n = j + l
  OBVIOUS
<1>3. \A i \in m .. n : s[i] \in Bit
  BY <1>1, <1>2
<1>4. /\ SubSeq(s, m, n) \in Seq(Bit)
      /\ Len(SubSeq(s, m, n)) = IF m <= n THEN n - m + 1 ELSE 0
      /\ \A i \in 1 .. n - m + 1 : SubSeq(s, m, n)[i] = s[m + i - 1]
  BY <1>3, BitsCut, ZenonT(60)
<1>5. w = SubSeq(s, m, n)
  BY <1>1, <1>2, Zenon
<1>6. n - m + 1 = l /\ m <= n /\ \A i \in 1 .. l : m + i - 1 = j + i
  BY <1>1, <1>2
<1>7. \A i \in 1 .. l : SubSeq(s, m, n)[i] = s[j + i]
  BY <1>4, <1>6
<1> QED  BY <1>4, <1>5, <1>6, <1>7 DEF IsPart

(* The bits of a half octet h, those from them on, and those after them.     *)
HalfOf(h, s, L, a, b, c) ==
    /\ SubSeq(s, a, b) \in BitStrings
    /\ SubSeq(s, a, L) \in BitStrings
    /\ FourOf(h, SubSeq(s, a, b), SubSeq(s, a, L), SubSeq(s, c, L))

(* They lie within the others.                                              *)
LEMMA HalfWithin ==
    ASSUME NEW s \in BitStrings, NEW L \in Nat, L = Len(s),
           NEW j \in Nat, j + 4 <= L, NEW h,
           \A i \in 1 .. 4 : BitsOf(h, 4)[i] = s[j + i],
           NEW a, a = j + 1, NEW b, b = j + 4, NEW c, c = (j + 4) + 1
    PROVE  HalfOf(h, s, L, a, b, c)
<1>1. \A i \in 1 .. L : s[i] \in Bit
  BY ElementOfSeq DEF BitStrings
<1>2. PICK four : four = SubSeq(s, j + 1, j + 4)
  OBVIOUS
<1>3. IsPart(four, s, j, 4)
  <2>1. 4 \in Nat /\ 4 # 0
    OBVIOUS
  <2> QED  BY <1>1, <1>2, <2>1, PartWithin
<1>4. four \in Seq(Bit) /\ Len(four) = 4 /\ \A i \in 1 .. 4 : four[i] = s[j + i]
  BY <1>3, Zenon DEF IsPart
<1>5. four = BitsOf(h, 4)
  <2>1. four = [i \in 1 .. 4 |-> four[i]]
    BY <1>4
  <2>2. BitsOf(h, 4) = [i \in 1 .. 4 |-> BitsOf(h, 4)[i]]
    BY DEF BitsOf
  <2>3. \A i \in 1 .. 4 : four[i] = BitsOf(h, 4)[i]
    BY <1>4
  <2> QED  BY <2>1, <2>2, <2>3
<1>6. four \o SubSeq(s, (j + 4) + 1, L) = SubSeq(s, j + 1, L)
  <2>1. s \in Seq(Bit) /\ j + 4 <= Len(s)
    BY DEF BitStrings
  <2> QED  BY <1>2, <2>1, Piece
<1>7. SubSeq(s, j + 1, L) \in Seq(Bit)
  <2>1. s \in Seq(Bit) /\ j <= Len(s)
    BY DEF BitStrings
  <2> QED  BY <2>1, Parts
<1> QED  BY <1>2, <1>4, <1>5, <1>6, <1>7, Zenon DEF HalfOf, FourOf, BitStrings

(* An octet of a sequence of bits, its halves, and the bits after them.     *)
LEMMA OctetOfBits ==
    ASSUME NEW s \in BitStrings, NEW L \in Nat, L = Len(s),
           NEW k \in Nat, k + 8 <= L,
           NEW o, o = Number(SubSeq(s, k + 1, k + 8))
    PROVE  /\ o \in 0 .. 255
           /\ o \div 16 \in HalfOctets
           /\ o % 16 \in HalfOctets
           /\ SubSeq(s, k + 1, k + 4) \in BitStrings
           /\ SubSeq(s, k + 5, k + 8) \in BitStrings
           /\ SubSeq(s, k + 5, L) \in BitStrings
           /\ FourOf(o \div 16, SubSeq(s, k + 1, k + 4),
                    SubSeq(s, k + 1, L), SubSeq(s, k + 5, L))
           /\ FourOf(o % 16, SubSeq(s, k + 5, k + 8),
                    SubSeq(s, k + 5, L), SubSeq(s, k + 9, L))
<1>1. \A i \in 1 .. L : s[i] \in Bit
  BY ElementOfSeq DEF BitStrings
<1>2. PICK w : w = SubSeq(s, k + 1, k + 8)
  OBVIOUS
<1>3. Len(w) = 8 /\ \A i \in 1 .. 8 : w[i] = s[k + i]
  <2>1. 8 \in Nat /\ 8 # 0
    OBVIOUS
  <2>2. IsPart(w, s, k, 8)
    BY <1>1, <1>2, <2>1, PartWithin
  <2> QED  BY <2>2, Zenon DEF IsPart
<1>4. /\ o \in 0 .. 255
      /\ o \div 16 \in HalfOctets
      /\ o % 16 \in HalfOctets
      /\ \A i \in 1 .. 4 : BitsOf(o \div 16, 4)[i] = w[i]
      /\ \A i \in 1 .. 4 : BitsOf(o % 16, 4)[i] = w[4 + i]
  <2>1. \A i \in 1 .. 8 : w[i] \in Bit
    <3>1. \A i \in 1 .. 8 : k + i \in 1 .. L
      OBVIOUS
    <3> QED  BY <1>1, <1>3, <3>1
  <2>2. HasHalves(o, w)
    BY <1>2, <1>3, <2>1, OctetHalves
  <2> QED  BY <2>2, Zenon DEF HasHalves
<1>5. \A i \in 1 .. 4 : w[i] = s[k + i] /\ w[4 + i] = s[(k + 4) + i]
  <2>1. TAKE i \in 1 .. 4
  <2>2. i \in 1 .. 8 /\ 4 + i \in 1 .. 8 /\ k + (4 + i) = (k + 4) + i
    OBVIOUS
  <2> QED  BY <1>3, <2>2, Zenon
<1>6. HalfOf(o \div 16, s, L, k + 1, k + 4, k + 5)
  <2>1. k + 4 <= L /\ k + 5 = (k + 4) + 1
    OBVIOUS
  <2>2. \A i \in 1 .. 4 : BitsOf(o \div 16, 4)[i] = s[k + i]
    BY <1>4, <1>5, Zenon
  <2> QED  BY <2>1, <2>2, HalfWithin
<1>7. HalfOf(o % 16, s, L, k + 5, k + 8, k + 9)
  <2>1. PICK j \in Nat : j = k + 4
    OBVIOUS
  <2>2. j + 4 <= L /\ k + 5 = j + 1 /\ k + 8 = j + 4 /\ k + 9 = (j + 4) + 1
    BY <2>1
  <2>3. \A i \in 1 .. 4 : BitsOf(o % 16, 4)[i] = s[j + i]
    BY <1>4, <1>5, <2>1, Zenon
  <2> QED  BY <2>2, <2>3, HalfWithin
<1> QED  BY <1>4, <1>6, <1>7, Zenon DEF HalfOf

-----------------------------------------------------------
(* The loop over the octets                                                *)

(* What decode begins with.                                                 *)
Start == [ok |-> TRUE, decoder |-> new, buf |-> <<>>]

(* What decode has after n octets, by what it had before the last.          *)
DecodedBy(f, src, n) == IF n = 0 THEN Start ELSE ReadOctet(f[n-1], src[n])

(* decode is what its loop says.                                            *)
LEMMA DecodeLoop ==
    ASSUME NEW src, NEW N \in Nat, N = Len(src),
           NEW G, \A n \in 0 .. N : G[n] = DecodedBy(G, src, n)
    PROVE  decode(src) = Finished(G[N])
<1> DEFINE Eq(f) == f = [n \in 0 .. N |-> DecodedBy(f, src, n)]
           F == CHOOSE f : Eq(f)
           h == [n \in 0 .. N |-> G[n]]
<1>1. decode(src) = Finished(F[N])
  BY DEF decode, DecodedBy, Start
<1>2. \A n \in 0 .. N : h[n] = DecodedBy(h, src, n)
  <2>1. TAKE n \in 0 .. N
  <2>2. CASE n = 0
    BY <2>2 DEF DecodedBy
  <2>3. CASE n # 0
    <3>1. n - 1 \in 0 .. N
      BY <2>3
    <3>2. h[n - 1] = G[n - 1] /\ h[n] = G[n]
      BY <3>1
    <3> QED  BY <2>3, <3>2 DEF DecodedBy
  <2> QED  BY <2>2, <2>3
<1>3. Eq(h)
  <2>1. h = [n \in 0 .. N |-> h[n]]
    OBVIOUS
  <2> HIDE DEF h
  <2> QED  BY <1>2, <2>1
<1>4. Eq(F)
  <2> HIDE DEF Eq, h
  <2> QED  BY <1>3
<1> HIDE DEF F
<1>5. \A n \in 0 .. N : F[n] = DecodedBy(F, src, n)
  BY <1>4
<1> DEFINE E == {n \in Nat : n <= N => F[n] = G[n]}
<1>6. 0 \in E
  <2>1. 0 \in 0 .. N
    OBVIOUS
  <2>2. F[0] = G[0]
    BY <1>5, <2>1 DEF DecodedBy
  <2> QED  BY <2>2
<1>7. ASSUME NEW n \in Nat, n \in E PROVE n + 1 \in E
  <2> SUFFICES ASSUME n + 1 <= N PROVE F[n + 1] = G[n + 1]
    OBVIOUS
  <2>1. n + 1 \in 0 .. N /\ n + 1 # 0 /\ (n + 1) - 1 = n /\ n <= N
    OBVIOUS
  <2>2. F[n] = G[n]
    BY <1>7, <2>1
  <2> QED  BY <1>5, <2>1, <2>2 DEF DecodedBy
<1> HIDE DEF E
<1>8. Nat \subseteq E
  BY <1>6, <1>7, SetInduction
<1>9. F[N] = G[N]
  <2>1. N \in E
    BY <1>8
  <2> QED  BY <2>1 DEF E
<1> QED  BY <1>1, <1>9

(* Octets of bits.                                                          *)
LEMMA OctetsOf ==
    ASSUME NEW s \in BitStrings, NEW N \in Nat, Len(s) = 8 * N
    PROVE  /\ Len(Octets(s)) = N
           /\ \A n \in Nat : n + 1 <= N =>
                Octets(s)[n + 1] = Number(SubSeq(s, 8 * n + 1, 8 * n + 8))
<1>1. Len(s) \div 8 = N
  <2>1. (8 * N) \div 8 = N
    BY SMT
  <2> QED  BY <2>1
<1>2. Octets(s) = [i \in 1 .. N |-> Number(SubSeq(s, 8*i - 7, 8*i))]
  BY <1>1 DEF Octets
<1>3. Len(Octets(s)) = N
  BY <1>2
<1>4. ASSUME NEW n \in Nat, n + 1 <= N
      PROVE  Octets(s)[n + 1] = Number(SubSeq(s, 8 * n + 1, 8 * n + 8))
  <2>1. /\ n + 1 \in 1 .. N
        /\ 8 * (n + 1) - 7 = 8 * n + 1
        /\ 8 * (n + 1) = 8 * n + 8
    BY <1>4
  <2> QED  BY <1>2, <2>1
<1> QED  BY <1>3, <1>4

(* The codes of a text, one after the other.                                *)
CodesOf(X) == [i \in DOMAIN X |-> Code[X[i]]]

(* Bits of a text that ends in a symbol.                                    *)
LEMMA BitsOfText ==
    ASSUME CodeFits, NEW src \in Seq(Symbols), NEW t \in Symbols
    PROVE  /\ CodesOf(src) \in Seq(Seq(Bit))
           /\ Bits(src) = FlattenSeq(CodesOf(src))
           /\ Bits(src) \in BitStrings
           /\ CodesOf(Append(src, t)) = Append(CodesOf(src), Code[t])
           /\ Bits(Append(src, t)) = Bits(src) \o Code[t]
<1>1. PICK M \in Nat : M = Len(src) /\ DOMAIN src = 1 .. M
  BY LenProperties
<1>2. \A i \in 1 .. M : src[i] \in Symbols
  BY <1>1, ElementOfSeq
<1>3. \A s \in Symbols : Code[s] \in Seq(Bit)
  BY CodeIsBits
<1>4. PICK codes : codes = CodesOf(src)
  OBVIOUS
<1>5. codes = [i \in 1 .. M |-> Code[src[i]]]
  BY <1>1, <1>4 DEF CodesOf
<1>6. codes \in Seq(Seq(Bit)) /\ Len(codes) = M
  <2>1. \A i \in 1 .. M : Code[src[i]] \in Seq(Bit)
    BY <1>2, <1>3
  <2>2. codes \in [1 .. M -> Seq(Bit)]
    BY <1>5, <2>1
  <2> QED  BY <2>2
<1>7. Bits(src) = FlattenSeq(codes)
  BY <1>4 DEF CodesOf, Bits
<1>8. FlattenSeq(codes) \in Seq(Bit)
  BY <1>6, FlattenProperties
<1>9. PICK X \in Seq(Symbols) : X = Append(src, t)
  BY AppendProperties
<1>10. /\ Len(X) = M + 1 /\ DOMAIN X = 1 .. M + 1
       /\ \A i \in 1 .. M : X[i] = src[i]
       /\ X[M + 1] = t
  BY <1>1, <1>9, Appended
<1>11. PICK c \in Seq(Bit) : c = Code[t]
  BY <1>3
<1>12. PICK more \in Seq(Seq(Bit)) : more = Append(codes, c)
  BY <1>6, AppendProperties
<1>13. /\ Len(more) = M + 1 /\ DOMAIN more = 1 .. M + 1
       /\ \A i \in 1 .. M : more[i] = codes[i]
       /\ more[M + 1] = c
  BY <1>6, <1>12, Appended
<1>14. CodesOf(X) = more
  <2>1. CodesOf(X) = [i \in 1 .. M + 1 |-> Code[X[i]]]
    BY <1>10 DEF CodesOf
  <2>2. more = [i \in 1 .. M + 1 |-> more[i]]
    BY <1>13
  <2>3. ASSUME NEW i \in 1 .. M + 1 PROVE Code[X[i]] = more[i]
    <3>1. CASE i = M + 1
      BY <1>10, <1>11, <1>13, <3>1
    <3>2. CASE i # M + 1
      <4>1. i \in 1 .. M
        BY <3>2, NotLast
      <4> QED  BY <1>5, <1>10, <1>13, <4>1
    <3> QED  BY <3>1, <3>2
  <2> QED  BY <2>1, <2>2, <2>3
<1>15. Bits(X) = FlattenSeq(more)
  <2>1. Bits(X) = FlattenSeq(CodesOf(X))
    BY DEF Bits, CodesOf
  <2> QED  BY <1>14, <2>1
<1>16. FlattenSeq(Append(codes, c)) = FlattenSeq(codes) \o c
  BY <1>6, FlattenProperties
<1> QED
  <2>1. CodesOf(Append(src, t)) = Append(CodesOf(src), Code[t])
    BY <1>4, <1>9, <1>11, <1>12, <1>14, Zenon
  <2>2. Bits(Append(src, t)) = Bits(src) \o Code[t]
    BY <1>7, <1>9, <1>11, <1>12, <1>15, <1>16, Zenon
  <2> QED  BY <1>4, <1>6, <1>7, <1>8, <2>1, <2>2 DEF BitStrings

(* The tails of a text.                                                     *)
LEMMA TextTails ==
    ASSUME CodeFits, NEW M \in Nat, NEW X \in Seq(Symbols), Len(X) = M + 1
    PROVE  \E T : Tails(T, X, M) /\ T[0] = Bits(X)
<1>1. DOMAIN X = 1 .. M + 1
  BY LenProperties
<1>2. PICK codes : codes = CodesOf(X)
  OBVIOUS
<1>3. codes \in Seq(Seq(Bit)) /\ Bits(X) = FlattenSeq(codes)
  <2>1. 0 \in Symbols
    BY DEF Symbols, EOS
  <2> QED  BY <1>2, <2>1, BitsOfText
<1>4. codes = [i \in 1 .. M + 1 |-> Code[X[i]]]
  BY <1>1, <1>2 DEF CodesOf
<1>5. Len(codes) = M + 1
  BY <1>4
<1>6. PICK L \in Nat : L = M + 1
  OBVIOUS
<1>7. \E T \in [Nat -> Seq(Bit)] : Unrolls(T, codes, L)
  BY <1>3, <1>5, <1>6, FlattenTails
<1>8. PICK T \in [Nat -> Seq(Bit)] : Unrolls(T, codes, L)
  BY <1>7
<1>9. ASSUME NEW n \in 0 .. M PROVE T[n] = Code[X[n + 1]] \o T[n + 1]
  <2>1. n \in Nat /\ n < L /\ n + 1 \in 1 .. M + 1
    BY <1>6
  <2>2. T[n] = codes[n + 1] \o T[n + 1]
    BY <1>8, <2>1 DEF Unrolls
  <2>3. codes[n + 1] = Code[X[n + 1]]
    BY <1>4, <2>1
  <2> QED  BY <2>2, <2>3
<1>10. T[M + 1] = <<>> /\ T[0] = Bits(X)
  BY <1>3, <1>6, <1>8 DEF Unrolls
<1>11. \A n \in Nat : T[n] \in BitStrings
  BY DEF BitStrings
<1>12. Tails(T, X, M)
  BY <1>9, <1>10, <1>11 DEF Tails
<1> QED  BY <1>10, <1>12

(* Before the last symbol there are at least its bits to come.              *)
LEMMA TailLengths ==
    ASSUME CodeFits, NEW M \in Nat, NEW X \in Seq(Symbols), Len(X) = M + 1,
           NEW T, Tails(T, X, M), NEW K \in Nat, K = Len(T[M])
    PROVE  \A n \in 0 .. M : Len(T[n]) >= K
<1> DEFINE E == {k \in Nat : k <= M => Len(T[M - k]) >= K}
<1>1. 0 \in E
  <2>1. M - 0 = M
    OBVIOUS
  <2> QED  BY <2>1
<1>2. ASSUME NEW k \in Nat, k \in E PROVE k + 1 \in E
  <2> SUFFICES ASSUME k + 1 <= M PROVE Len(T[M - (k + 1)]) >= K
    OBVIOUS
  <2>1. PICK n \in 0 .. M : n = M - (k + 1) /\ n + 1 = M - k /\ k <= M
    <3>1. M - (k + 1) \in 0 .. M /\ (M - (k + 1)) + 1 = M - k /\ k <= M
      OBVIOUS
    <3> QED  BY <3>1
  <2>2. Len(T[n + 1]) >= K
    BY <1>2, <2>1
  <2>3. PICK c \in BitStrings, u \in BitStrings : c = Code[X[n + 1]] /\ u = T[n + 1]
    <3>1. PICK x \in Symbols : x = X[n + 1]
      BY OneSymbol
    <3>2. Code[x] \in BitStrings
      BY CodeIsBits DEF BitStrings
    <3>3. T[n + 1] \in BitStrings
      BY DEF Tails
    <3> QED  BY <3>1, <3>2, <3>3
  <2>4. T[n] = c \o u
    BY <2>3 DEF Tails
  <2>5. PICK i \in Nat, j \in Nat : i = Len(c) /\ j = Len(u)
    BY BitLengths
  <2>6. Len(T[n]) = i + j
    BY <2>4, <2>5, BitLengths
  <2>7. j >= K
    BY <2>2, <2>3, <2>5
  <2>8. i + j >= K
    BY <2>7
  <2> QED  BY <2>1, <2>6, <2>8
<1> HIDE DEF E
<1>3. Nat \subseteq E
  BY <1>1, <1>2, SetInduction
<1>4. ASSUME NEW n \in 0 .. M PROVE Len(T[n]) >= K
  <2>1. M - n \in Nat /\ M - n <= M /\ M - (M - n) = n
    OBVIOUS
  <2>2. M - n \in E
    BY <1>3, <2>1
  <2> QED  BY <2>1, <2>2 DEF E
<1> QED  BY <1>4

(* What is returned after all octets.                                       *)
Gives(r, tail, X, M) ==
    Finished(r) = [ok |-> IsPadding(tail), buf |-> SubSeq(X, 1, M)]

(* At the end of the octets the whole text is read, and what has begun of   *)
(* the last symbol is the rest of the octets.                               *)
LEMMA AtEnd ==
    ASSUME CodeFits, NEW pairs, Agree(pairs),
           NEW M \in Nat, NEW X \in Seq(Symbols), Len(X) = M + 1,
           NEW T, Tails(T, X, M),
           NEW tail \in BitStrings, NEW extra \in BitStrings,
           tail \o extra = Code[X[M + 1]],
           NEW r, Stands(pairs, X, M, T, extra, r, <<>>)
    PROVE  Gives(r, tail, X, M)
<1>1. PICK m \in 0 .. M, b \in BitStrings, z \in BitStrings :
        Place(pairs, X, T, extra, r, <<>>, m, b, z)
  BY DEF Stands
<1>2. PICK t \in BitStrings : t = T[m + 1]
  <2>1. m + 1 \in Nat
    BY PlaceIn
  <2> QED  BY <2>1 DEF Tails
<1>3. extra = z \o t
  BY <1>1, <1>2, BitsTogether DEF Place
<1>4. PICK last \in BitStrings : last = Code[X[M + 1]]
  <2>1. PICK x \in Symbols : x = X[M + 1]
    BY OneSymbol
  <2>2. Code[x] \in BitStrings
    BY CodeIsBits DEF BitStrings
  <2> QED  BY <2>1, <2>2
<1>5. T[M] = last
  <2>1. T[M] = last \o <<>>
    <3>1. M \in 0 .. M
      OBVIOUS
    <3> QED  BY <1>4, <3>1 DEF Tails
  <2> QED  BY <2>1, BitsTogether
<1>6. m = M
  <2> SUFFICES ASSUME m < M PROVE FALSE
    BY PlaceIn
  <2>1. m + 1 \in 0 .. M
    BY PlaceIn
  <2>2. PICK K \in Nat : K = Len(last)
    BY BitLengths
  <2>3. Len(t) >= K
    BY <1>2, <1>5, <2>1, <2>2, TailLengths
  <2>4. K = Len(tail) + Len(extra) /\ Len(tail) \in Nat /\ Len(extra) \in Nat
    <3>1. /\ Len(tail \o extra) = Len(tail) + Len(extra)
          /\ Len(tail) \in Nat /\ Len(extra) \in Nat
      BY BitLengths
    <3> QED  BY <1>4, <2>2, <3>1, Zenon
  <2>5. Len(extra) = Len(z) + Len(t) /\ Len(z) \in Nat /\ Len(t) \in Nat
    BY <1>3, BitLengths
  <2>6. Len(z) # 0
    BY <1>1, BitLengths DEF Place
  <2> QED  BY <2>3, <2>4, <2>5, <2>6
<1>7. z = extra
  <2>1. t = <<>>
    BY <1>2, <1>6 DEF Tails
  <2> QED  BY <1>3, <2>1, BitsTogether
<1>8. b = tail
  <2>1. b \o z = tail \o z
    BY <1>1, <1>6, <1>7 DEF Place
  <2> QED  BY <2>1, SameEnd DEF BitStrings
<1>9. is_final(r.decoder) <=> IsPadding(tail)
  <2>1. PICK pair \in pairs : pair = <<r.decoder, b>>
    BY <1>1 DEF Place
  <2>2. pair[1] = r.decoder /\ pair[2] = b
    BY <2>1
  <2>3. is_final(pair[1]) <=> IsPadding(pair[2])
    BY DEF Agree
  <2> QED  BY <1>8, <2>2, <2>3, Zenon
<1>10. (r.ok /\ is_final(r.decoder)) = IsPadding(tail)
  <2>1. r.ok = TRUE
    BY <1>1 DEF Place
  <2>2. IsPadding(tail) \in BOOLEAN /\ is_final(r.decoder) \in BOOLEAN
    BY DEF IsPadding, is_final
  <2> QED  BY <1>9, <2>1, <2>2
<1>11. r.buf = SubSeq(X, 1, M)
  BY <1>1, <1>6 DEF Place
<1> QED  BY <1>10, <1>11, Zenon DEF Finished, Gives

(* Where the decoder begins.                                                *)
LEMMA AtStart ==
    ASSUME CodeFits, NEW pairs, Agree(pairs),
           NEW M \in Nat, NEW X \in Seq(Symbols), Len(X) = M + 1,
           NEW T, Tails(T, X, M), NEW extra \in BitStrings,
           NEW U \in BitStrings, U \o extra = T[0]
    PROVE  Stands(pairs, X, M, T, extra, Start, U)
<1>1. 0 \in 0 .. M /\ 0 + 1 = 1 /\ 1 \in 1 .. M + 1
  OBVIOUS
<1>2. PICK x \in Symbols : x = X[0 + 1]
  BY <1>1, OneSymbol
<1>3. PICK z \in BitStrings : z = Code[x] /\ z # <<>>
  <2>1. PICK z \in BitStrings : z = Code[x]
    BY CodeIsBits DEF BitStrings
  <2>2. Len(z) # 0
    BY <2>1, CodeIsBits
  <2> QED  BY <2>1, <2>2, BitLengths
<1>4. PICK b \in BitStrings : b = <<>>
  BY BitsTogether
<1>5. U \o extra = z \o T[0 + 1]
  BY <1>1, <1>2, <1>3 DEF Tails
<1>6. SubSeq(X, 1, 0) = <<>>
  <2>1. SubSeq(X, 1, 0) \in Seq(Symbols) /\ Len(SubSeq(X, 1, 0)) = 0
    <3>1. 0 <= Len(X)
      OBVIOUS
    <3> QED  BY <3>1, Parts
  <2> QED  BY <2>1, EmptySeq
<1>7. Start.ok = TRUE /\ Start.decoder = new /\ Start.buf = <<>>
  BY DEF Start
<1>8. <<new, b>> \in pairs
  BY <1>4 DEF Agree
<1>9. b \o z = Code[X[0 + 1]]
  BY <1>2, <1>3, <1>4, BitsTogether
<1>10. Place(pairs, X, T, extra, Start, U, 0, b, z)
  BY <1>3, <1>5, <1>6, <1>7, <1>8, <1>9, Zenon DEF Place
<1> QED  BY <1>1, <1>10 DEF Stands

(* The states in which no octet has been refused.                           *)
LEMMA StateOf ==
    ASSUME NEW pairs, NEW M \in Nat, NEW X \in Seq(Symbols), Len(X) = M + 1,
           NEW T, NEW extra, NEW U, NEW q, NEW i, NEW r, r = ReadNibble(q, i),
           Stands(pairs, X, M, T, extra, r, U)
    PROVE  r \in [ok : {TRUE}, decoder : {pair[1] : pair \in pairs},
                  buf : Seq(Symbols)]
<1>1. PICK m \in 0 .. M, b \in BitStrings, z \in BitStrings :
        Place(pairs, X, T, extra, r, U, m, b, z)
  BY DEF Stands
<1>2. r = [ok |-> r.ok, decoder |-> r.decoder, buf |-> r.buf]
  BY DEF ReadNibble, Extended
<1>3. r.ok \in {TRUE}
  BY <1>1 DEF Place
<1>4. r.decoder \in {pair[1] : pair \in pairs}
  <2>1. PICK pair \in pairs : pair = <<r.decoder, b>>
    BY <1>1 DEF Place
  <2>2. pair[1] = r.decoder
    BY <2>1
  <2> QED  BY <2>2
<1>5. r.buf \in Seq(Symbols)
  <2>1. SubSeq(X, 1, m) \in Seq(Symbols)
    BY OneSymbol
  <2> QED  BY <1>1, <2>1 DEF Place
<1> QED  BY <1>2, <1>3, <1>4, <1>5

(* The bits from the n-th octet on.                                         *)
BitsFrom(s, n) == SubSeq(s, 8 * n + 1, Len(s))

(* They are bits, all of them at first and none at the end.                 *)
LEMMA BitsFromOctet ==
    ASSUME NEW s \in BitStrings, NEW N \in Nat, Len(s) = 8 * N
    PROVE  /\ \A n \in 0 .. N : BitsFrom(s, n) \in BitStrings
           /\ BitsFrom(s, 0) = s
           /\ BitsFrom(s, N) = <<>>
<1>1. PICK L \in Nat : L = Len(s) /\ L = 8 * N
  OBVIOUS
<1>2. ASSUME NEW n \in 0 .. N
      PROVE  /\ BitsFrom(s, n) \in BitStrings
             /\ Len(BitsFrom(s, n)) = L - 8 * n
  <2>1. PICK k \in Nat : k = 8 * n /\ k <= L
    <3>1. 8 * n \in Nat /\ 8 * n <= 8 * N
      OBVIOUS
    <3> QED  BY <1>1, <3>1
  <2>2. s \in Seq(Bit) /\ k <= Len(s)
    BY <1>1, <2>1 DEF BitStrings
  <2>3. /\ SubSeq(s, k + 1, Len(s)) \in Seq(Bit)
        /\ Len(SubSeq(s, k + 1, Len(s))) = Len(s) - k
    BY <2>2, Parts
  <2> QED  BY <1>1, <2>1, <2>3 DEF BitsFrom, BitStrings
<1>3. BitsFrom(s, 0) = s
  <2>1. 8 * 0 + 1 = 1
    OBVIOUS
  <2>2. SubSeq(s, 1, Len(s)) = s
    BY SubSeqFull DEF BitStrings
  <2> QED  BY <2>1, <2>2 DEF BitsFrom
<1>4. BitsFrom(s, N) = <<>>
  <2>1. N \in 0 .. N /\ L - 8 * N = 0
    BY <1>1
  <2>2. BitsFrom(s, N) \in BitStrings /\ Len(BitsFrom(s, N)) = 0
    BY <1>2, <2>1
  <2> QED  BY <2>2, BitLengths
<1> QED  BY <1>2, <1>3, <1>4

(* An octet.                                                                *)
LEMMA OctetRead ==
    ASSUME CodeFits, NEW pairs, Agree(pairs),
           NEW M \in Nat, NEW X \in Seq(Symbols), Len(X) = M + 1,
           \A i \in 1 .. M : X[i] # EOS,
           NEW T, Tails(T, X, M),
           NEW extra \in BitStrings, extra # <<>>,
           NEW s \in BitStrings, NEW N \in Nat, Len(s) = 8 * N,
           NEW n \in Nat, n + 1 <= N, NEW o, o = Octets(s)[n + 1],
           NEW r, Stands(pairs, X, M, T, extra, r, BitsFrom(s, n))
    PROVE  /\ Stands(pairs, X, M, T, extra, ReadOctet(r, o), BitsFrom(s, n + 1))
           /\ ReadOctet(r, o) \in [ok : {TRUE},
                                   decoder : {pair[1] : pair \in pairs},
                                   buf : Seq(Symbols)]
<1>1. PICK k \in Nat, L \in Nat : k = 8 * n /\ L = Len(s) /\ k + 8 <= L /\ k + 9 = 8 * (n + 1) + 1
  <2>1. 8 * n \in Nat /\ 8 * N \in Nat /\ 8 * n + 8 <= 8 * N /\ 8 * n + 9 = 8 * (n + 1) + 1
    OBVIOUS
  <2> QED  BY <2>1
<1>2. o = Number(SubSeq(s, k + 1, k + 8))
  <2>1. o = Number(SubSeq(s, 8 * n + 1, 8 * n + 8))
    BY OctetsOf
  <2> QED  BY <1>1, <2>1
<1>3. /\ o \div 16 \in HalfOctets
      /\ o % 16 \in HalfOctets
      /\ SubSeq(s, k + 1, k + 4) \in BitStrings
      /\ SubSeq(s, k + 5, k + 8) \in BitStrings
      /\ SubSeq(s, k + 5, L) \in BitStrings
      /\ FourOf(o \div 16, SubSeq(s, k + 1, k + 4),
                SubSeq(s, k + 1, L), SubSeq(s, k + 5, L))
      /\ FourOf(o % 16, SubSeq(s, k + 5, k + 8),
                SubSeq(s, k + 5, L), SubSeq(s, k + 9, L))
  BY <1>1, <1>2, OctetOfBits
<1>4. PICK U \in BitStrings : U = BitsFrom(s, n)
  <2>1. n \in 0 .. N
    OBVIOUS
  <2> QED  BY <2>1, BitsFromOctet
<1>5. PICK W \in BitStrings : W = BitsFrom(s, n + 1)
  <2>1. n + 1 \in 0 .. N
    OBVIOUS
  <2> QED  BY <2>1, BitsFromOctet
<1>6. PICK V \in BitStrings : V = SubSeq(s, k + 5, L)
  BY <1>3
<1>7. PICK high \in HalfOctets, low \in HalfOctets : high = o \div 16 /\ low = o % 16
  BY <1>3
<1>8. PICK f \in BitStrings, g \in BitStrings :
        FourOf(high, f, U, V) /\ FourOf(low, g, V, W)
  <2>1. U = SubSeq(s, k + 1, L) /\ W = SubSeq(s, k + 9, L)
    BY <1>1, <1>4, <1>5 DEF BitsFrom
  <2> QED  BY <1>3, <1>6, <1>7, <2>1, Zenon
<1>9. Stands(pairs, X, M, T, extra, r, U)
  BY <1>4
<1>10. PICK q : q = ReadNibble(r, high)
  OBVIOUS
<1>11. Stands(pairs, X, M, T, extra, q, V)
  BY <1>8, <1>9, <1>10, NibbleRead
<1>12. PICK p : p = ReadNibble(q, low)
  OBVIOUS
<1>13. Stands(pairs, X, M, T, extra, p, W)
  BY <1>8, <1>11, <1>12, NibbleRead
<1>14. p \in [ok : {TRUE}, decoder : {pair[1] : pair \in pairs}, buf : Seq(Symbols)]
  BY <1>12, <1>13, StateOf
<1>15. p = ReadOctet(r, o)
  <2>1. r.ok = TRUE
    BY DEF Stands, Place
  <2> QED  BY <1>7, <1>10, <1>12, <2>1, Zenon DEF ReadOctet
<1> QED  BY <1>5, <1>13, <1>14, <1>15

(* All of s is read, up to the end of the last symbol of X but one.         *)
IsRead(pairs, X, M, T, extra, s) ==
    \E r : /\ Stands(pairs, X, M, T, extra, r, <<>>)
           /\ decode(Octets(s)) = Finished(r)

(* All octets.                                                              *)
LEMMA AllRead ==
    ASSUME CodeFits, NEW pairs, Agree(pairs),
           NEW M \in Nat, NEW X \in Seq(Symbols), Len(X) = M + 1,
           \A i \in 1 .. M : X[i] # EOS,
           NEW T, Tails(T, X, M),
           NEW extra \in BitStrings, extra # <<>>,
           NEW s \in BitStrings, NEW N \in Nat, Len(s) = 8 * N,
           s \o extra = T[0]
    PROVE  IsRead(pairs, X, M, T, extra, s)
<1>1. PICK octets : octets = Octets(s)
  OBVIOUS
<1>2. PICK States : States = [ok : {TRUE}, decoder : {pair[1] : pair \in pairs},
                              buf : Seq(Symbols)]
  OBVIOUS
<1> DEFINE next(n, r) == IF ReadOctet(r, octets[n + 1]) \in States
                           THEN ReadOctet(r, octets[n + 1]) ELSE r
           step == [n \in Nat |-> [r \in States |-> next(n, r)]]
<1>3. Start \in States
  <2>1. <<new, <<>>>> \in pairs
    BY DEF Agree
  <2>2. PICK pair \in pairs : pair = <<new, <<>>>>
    BY <2>1
  <2>3. pair[1] = new
    BY <2>2
  <2>4. new \in {p[1] : p \in pairs}
    BY <2>3, Zenon
  <2>5. <<>> \in Seq(Symbols)
    BY EmptySeq
  <2>6. PICK dec : dec = new
    OBVIOUS
  <2>7. Start = [ok |-> TRUE, decoder |-> dec, buf |-> <<>>]
    BY <2>6 DEF Start
  <2> QED  BY <1>2, <2>4, <2>5, <2>6, <2>7
<1>4. step \in [Nat -> [States -> States]]
  <2>1. \A n \in Nat, r \in States : next(n, r) \in States
    OBVIOUS
  <2> HIDE DEF next
  <2> QED  BY <2>1
<1>5. \A n \in Nat, r \in States : step[n][r] = next(n, r)
  <2> HIDE DEF next
  <2> QED  OBVIOUS
<1> HIDE DEF step, next
<1>6. \E g \in [Nat -> States] : Recurs(g, Start, step)
  BY <1>3, <1>4, NatRecursion
<1>7. PICK g \in [Nat -> States] :
        g[0] = Start /\ \A n \in Nat : g[n + 1] = step[n][g[n]]
  BY <1>6 DEF Recurs
<1>8. \A n \in Nat : g[n + 1] = next(n, g[n])
  BY <1>5, <1>7
<1> DEFINE Right(n) == Stands(pairs, X, M, T, extra, g[n], BitsFrom(s, n))
           E == {n \in Nat : n <= N => Right(n)}
<1>9. Right(0)
  <2>1. BitsFrom(s, 0) = s
    BY BitsFromOctet
  <2>2. Stands(pairs, X, M, T, extra, Start, s)
    BY AtStart
  <2> QED  BY <1>7, <2>1, <2>2
<1>10. ASSUME NEW n \in Nat, n + 1 <= N, Right(n)
       PROVE  Right(n + 1) /\ g[n + 1] = ReadOctet(g[n], octets[n + 1])
  <2>1. PICK o : o = octets[n + 1] /\ o = Octets(s)[n + 1]
    BY <1>1
  <2>2. PICK r : r = g[n] /\ Stands(pairs, X, M, T, extra, r, BitsFrom(s, n))
    BY <1>10
  <2>3. /\ Stands(pairs, X, M, T, extra, ReadOctet(r, o), BitsFrom(s, n + 1))
        /\ ReadOctet(r, o) \in States
    BY <1>2, <1>10, <2>1, <2>2, OctetRead
  <2>4. g[n + 1] = ReadOctet(r, o)
    BY <1>8, <2>1, <2>2, <2>3 DEF next
  <2> QED  BY <2>1, <2>2, <2>3, <2>4
<1> HIDE DEF Right
<1>11. 0 \in E
  BY <1>9
<1>12. ASSUME NEW n \in Nat, n \in E PROVE n + 1 \in E
  <2>1. n + 1 <= N => n <= N
    OBVIOUS
  <2> QED  BY <1>10, <1>12, <2>1
<1> HIDE DEF E
<1>13. Nat \subseteq E
  BY <1>11, <1>12, SetInduction
<1>14. \A n \in 0 .. N : Right(n)
  BY <1>13 DEF E
<1>15. \A n \in 0 .. N : g[n] = DecodedBy(g, octets, n)
  <2>1. TAKE n \in 0 .. N
  <2>2. CASE n = 0
    BY <1>7, <2>2 DEF DecodedBy
  <2>3. CASE n # 0
    <3>1. PICK m \in Nat : m + 1 = n /\ m = n - 1 /\ m \in 0 .. N /\ m + 1 <= N
      <4>1. n - 1 \in Nat /\ (n - 1) + 1 = n /\ n - 1 \in 0 .. N
        BY <2>3
      <4> QED  BY <4>1
    <3>2. g[m + 1] = ReadOctet(g[m], octets[m + 1])
      BY <1>10, <1>14, <3>1
    <3> QED  BY <2>3, <3>1, <3>2 DEF DecodedBy
  <2> QED  BY <2>2, <2>3
<1>16. Len(octets) = N
  BY <1>1, OctetsOf
<1>17. decode(octets) = Finished(g[N])
  BY <1>15, <1>16, DecodeLoop
<1>18. Stands(pairs, X, M, T, extra, g[N], <<>>)
  <2>1. N \in 0 .. N /\ BitsFrom(s, N) = <<>>
    BY BitsFromOctet
  <2> QED  BY <1>14, <2>1 DEF Right
<1> QED  BY <1>1, <1>17, <1>18 DEF IsRead

-----------------------------------------------------------------------------
(* Texts                                                                   *)

(* The text but its last symbol.                                            *)
LEMMA AllButLast ==
    ASSUME NEW M \in Nat, NEW src \in Seq(Symbols), Len(src) = M,
           NEW X \in Seq(Symbols), Len(X) = M + 1,
           \A i \in 1 .. M : X[i] = src[i]
    PROVE  SubSeq(X, 1, M) = src
<1>1. PICK p \in Seq(Symbols) : p = SubSeq(X, 1, M) /\ Len(p) = M
  <2>1. M <= Len(X)
    OBVIOUS
  <2>2. SubSeq(X, 1, M) \in Seq(Symbols) /\ Len(SubSeq(X, 1, M)) = M
    BY <2>1, Parts
  <2> QED  BY <2>2
<1>2. \A i \in 1 .. M : p[i] = X[i]
  BY <1>1, SubSeqProperties
<1>3. \A i \in 1 .. M : p[i] = src[i]
  BY <1>2
<1> QED  BY <1>1, <1>3, SeqEqual

(* What decode returns.                                                     *)
Decodes(octets, ok, text) == decode(octets) = [ok |-> ok, buf |-> text]

(* What decode returns for the code of a text and the beginning of that of  *)
(* one more symbol.                                                         *)
LEMMA TextDecoded ==
    ASSUME TablesFit, NEW src \in Seq(Octet), NEW t \in Symbols,
           NEW tail \in BitStrings, NEW extra \in BitStrings,
           tail \o extra = Code[t], extra # <<>>,
           NEW s \in BitStrings, s = Bits(src) \o tail,
           NEW N \in Nat, Len(s) = 8 * N
    PROVE  Decodes(Octets(s), IsPadding(tail), src)
<1>1. PICK pairs : pairs = Reached
  OBVIOUS
<1>2. CodeFits /\ Agree(pairs)
  BY <1>1 DEF TablesFit
<1>3. PICK M \in Nat : M = Len(src)
  BY LenProperties
<1>4. \A i \in 1 .. M : src[i] \in Octet
  BY <1>3, ElementOfSeq
<1>5. \A x \in Octet : x \in Symbols /\ x # EOS
  BY DEF Octet, Symbols, EOS
<1>6. src \in Seq(Symbols)
  BY <1>3, <1>4, <1>5, Retyped
<1>7. PICK X \in Seq(Symbols) : X = Append(src, t)
  BY <1>6, AppendProperties
<1>8. /\ Len(X) = M + 1
      /\ \A i \in 1 .. M : X[i] = src[i]
      /\ X[M + 1] = t
  BY <1>3, <1>6, <1>7, Appended
<1>9. \A i \in 1 .. M : X[i] # EOS
  BY <1>4, <1>5, <1>8
<1>10. PICK T : Tails(T, X, M) /\ T[0] = Bits(X)
  BY <1>2, <1>8, TextTails
<1>11. PICK bits \in BitStrings : bits = Bits(src) /\ Bits(X) = bits \o Code[t]
  BY <1>2, <1>6, <1>7, BitsOfText
<1>12. s \o extra = T[0]
  <2>1. Regroups(bits, tail, extra)
    BY BitsRegroup
  <2> QED  BY <1>10, <1>11, <2>1, Zenon DEF Regroups
<1>13. PICK r : /\ Stands(pairs, X, M, T, extra, r, <<>>)
                /\ decode(Octets(s)) = Finished(r)
  <2>1. IsRead(pairs, X, M, T, extra, s)
    BY <1>2, <1>8, <1>9, <1>10, <1>12, AllRead
  <2> QED  BY <2>1 DEF IsRead
<1>14. Gives(r, tail, X, M)
  <2>1. tail \o extra = Code[X[M + 1]]
    BY <1>8
  <2> QED  BY <1>2, <1>8, <1>10, <1>13, <2>1, AtEnd
<1>15. SubSeq(X, 1, M) = src
  BY <1>3, <1>6, <1>8, AllButLast
<1> QED  BY <1>13, <1>14, <1>15, Zenon DEF Gives, Decodes

(* The same bit a number of times.                                          *)
Times(n, bit) == [i \in 1 .. n |-> bit]

(* Such bits.                                                               *)
LEMMA TimesIsBits ==
    ASSUME NEW n \in Nat, NEW bit \in Bit
    PROVE  /\ Times(n, bit) \in BitStrings /\ Len(Times(n, bit)) = n
           /\ \A i \in 1 .. n : Times(n, bit)[i] = bit
           /\ n # 0 => Times(n, bit) # <<>>
<1>1. Times(n, bit) \in [1 .. n -> Bit]
  BY DEF Times
<1>2. Times(n, bit) \in Seq(Bit) /\ Len(Times(n, bit)) = n
  BY <1>1
<1>3. \A i \in 1 .. n : Times(n, bit)[i] = bit
  BY DEF Times
<1> QED  BY <1>2, <1>3, BitLengths DEF BitStrings

(* Together they are more of them.                                          *)
LEMMA TimesTogether ==
    ASSUME NEW m \in Nat, NEW n \in Nat, NEW bit \in Bit
    PROVE  Times(m, bit) \o Times(n, bit) = Times(m + n, bit)
<1>1. PICK a \in Seq(Bit) : a = Times(m, bit) /\ Len(a) = m /\ \A i \in 1 .. m : a[i] = bit
  BY TimesIsBits DEF BitStrings
<1>2. PICK b \in Seq(Bit) : b = Times(n, bit) /\ Len(b) = n /\ \A i \in 1 .. n : b[i] = bit
  BY TimesIsBits DEF BitStrings
<1>3. PICK k \in Nat : k = m + n
  OBVIOUS
<1>4. PICK c \in Seq(Bit) : c = Times(k, bit) /\ Len(c) = k /\ \A i \in 1 .. k : c[i] = bit
  BY TimesIsBits DEF BitStrings
<1>5. /\ a \o b \in Seq(Bit)
      /\ Len(a \o b) = k
      /\ \A i \in 1 .. k : (a \o b)[i] = IF i <= m THEN a[i] ELSE b[i - m]
  <2>1. /\ a \o b \in Seq(Bit)
        /\ Len(a \o b) = Len(a) + Len(b)
        /\ \A i \in 1 .. Len(a) + Len(b) :
             (a \o b)[i] = IF i <= Len(a) THEN a[i] ELSE b[i - Len(a)]
    BY ConcatProperties
  <2> QED  BY <1>1, <1>2, <1>3, <2>1
<1>6. \A i \in 1 .. k : (a \o b)[i] = c[i]
  <2>1. TAKE i \in 1 .. k
  <2>2. CASE i <= m
    <3>1. i \in 1 .. m
      BY <2>2
    <3> QED  BY <1>1, <1>4, <1>5, <2>2, <3>1
  <2>3. CASE ~(i <= m)
    <3>1. i - m \in 1 .. n
      BY <1>3, <2>3
    <3> QED  BY <1>2, <1>4, <1>5, <2>3, <3>1
  <2> QED  BY <2>2, <2>3
<1>7. a \o b = c
  BY <1>4, <1>5, <1>6, SeqEqual
<1> QED  BY <1>1, <1>2, <1>3, <1>4, <1>7, Zenon

(* The padding makes whole octets of the bits.                              *)
LEMMA Filled ==
    ASSUME NEW bits \in BitStrings, NEW bit \in Bit
    PROVE  /\ Padding(bits) \in 0 .. 7
           /\ \E s \in BitStrings, N \in Nat :
                s = bits \o Times(Padding(bits), bit) /\ Len(s) = 8 * N
<1>1. PICK L \in Nat : L = Len(bits)
  BY BitLengths
<1>2. PICK p \in 0 .. 7 : p = Padding(bits) /\ \E N \in Nat : L + p = 8 * N
  <2>1. \A l \in Nat : /\ (8 - (l % 8)) % 8 \in 0 .. 7
                       /\ (l + ((8 - (l % 8)) % 8)) % 8 = 0
    BY SMT
  <2>2. PICK p \in 0 .. 7 : p = Padding(bits) /\ (L + p) % 8 = 0
    BY <1>1, <2>1 DEF Padding
  <2>3. \A l \in Nat : l % 8 = 0 => l = 8 * (l \div 8) /\ l \div 8 \in Nat
    BY SMT
  <2>4. L + p \in Nat
    OBVIOUS
  <2>5. \E N \in Nat : L + p = 8 * N
    BY <2>2, <2>3, <2>4
  <2> QED  BY <2>2, <2>5, Zenon
<1>3. PICK f \in BitStrings : f = Times(p, bit) /\ Len(f) = p
  BY TimesIsBits
<1>4. PICK s \in BitStrings : s = bits \o f
  BY BitsTogether
<1>5. Len(s) = L + p
  BY <1>1, <1>3, <1>4, BitLengths
<1> QED  BY <1>2, <1>3, <1>4, <1>5

(* Every text decodes to itself from what encode makes of it, whatever its  *)
(* symbols and however many bits of padding it needs: the two tables being  *)
(* right, decode is the inverse of encode (encode and decode in             *)
(* huffman/mod.rs).                                                         *)
THEOREM DecodesAsEncoded ==
    ASSUME TablesFit, NEW src \in Seq(Octet)
    PROVE  decode(encode(src)) = [ok |-> TRUE, buf |-> src]
<1>1. PICK bits \in BitStrings : bits = Bits(src)
  <2>1. src \in Seq(Symbols)
    <3>1. \A x \in Octet : x \in Symbols
      BY DEF Octet, Symbols, EOS
    <3> QED  BY <3>1, SeqMonotonic
  <2>2. EOS \in Symbols
    BY DEF Symbols, EOS
  <2> QED  BY <2>1, <2>2, BitsOfText DEF TablesFit
<1>2. 1 \in Bit
  BY DEF Bit
<1>3. PICK p \in 0 .. 7 : p = Padding(bits)
  BY <1>2, Filled
<1>4. PICK s \in BitStrings, N \in Nat : s = bits \o Times(p, 1) /\ Len(s) = 8 * N
  BY <1>2, <1>3, Filled
<1>5. encode(src) = Octets(s)
  <2>1. Padded(bits) = bits \o Times(p, 1)
    BY <1>3 DEF Padded, Times, Padding
  <2> QED  BY <1>1, <1>4, <2>1 DEF encode
<1>6. PICK q \in Nat : q = 30 - p /\ q # 0 /\ p + q = 30 /\ p \in Nat
  <2>1. 30 - p \in Nat /\ 30 - p # 0 /\ p + (30 - p) = 30
    OBVIOUS
  <2> QED  BY <2>1
<1>7. PICK tail \in BitStrings :
        tail = Times(p, 1) /\ Len(tail) = p /\ \A i \in 1 .. p : tail[i] = 1
  BY <1>2, <1>6, TimesIsBits
<1>8. PICK extra \in BitStrings : extra = Times(q, 1) /\ extra # <<>>
  BY <1>2, <1>6, TimesIsBits
<1>9. tail \o extra = Code[EOS]
  <2>1. Times(p, 1) \o Times(q, 1) = Times(p + q, 1)
    BY <1>2, <1>6, TimesTogether
  <2>2. Code[EOS] = [i \in 1 .. 30 |-> 1]
    BY DEF TablesFit, CodeFits
  <2>3. Times(p + q, 1) = Times(30, 1)
    BY <1>6
  <2> QED  BY <1>7, <1>8, <2>1, <2>2, <2>3 DEF Times
<1>10. IsPadding(tail)
  BY <1>7 DEF IsPadding
<1>11. Decodes(Octets(s), IsPadding(tail), src)
  <2>1. EOS \in Symbols
    BY DEF Symbols, EOS
  <2>2. s = Bits(src) \o tail
    BY <1>1, <1>4, <1>7, Zenon
  <2> QED  BY <1>4, <1>8, <1>9, <2>1, <2>2, TextDecoded
<1>12. IsPadding(tail) = TRUE
  <2>1. IsPadding(tail) \in BOOLEAN
    BY DEF IsPadding
  <2> QED  BY <1>10, <2>1
<1> QED  BY <1>5, <1>11, <1>12, Zenon DEF Decodes

(* Zeros are padding only if there are none.                                *)
LEMMA ZerosEnd ==
    ASSUME NEW n \in 0 .. 4
    PROVE  IsPadding(Times(n, 0)) = (n = 0)
<1>1. n \in Nat /\ n < 8 /\ 0 \in Bit
  BY DEF Bit
<1>2. PICK tail : tail = Times(n, 0) /\ Len(tail) = n /\ \A i \in 1 .. n : tail[i] = 0
  BY <1>1, TimesIsBits
<1>3. CASE n = 0
  BY <1>2, <1>3 DEF IsPadding
<1>4. CASE n # 0
  <2>1. 1 \in 1 .. n
    BY <1>4
  <2>2. ~ IsPadding(tail)
    BY <1>2, <2>1 DEF IsPadding
  <2>3. IsPadding(tail) \in BOOLEAN
    BY DEF IsPadding
  <2> QED  BY <1>2, <1>4, <2>2, <2>3
<1> QED  BY <1>3, <1>4

(* The code of ZERO begins with up to four zeros.                           *)
LEMMA ZeroBegun ==
    ASSUME CodeFits, NEW n \in 0 .. 4
    PROVE  \E extra \in BitStrings :
             Times(n, 0) \o extra = Code[ZERO] /\ extra # <<>>
<1>1. PICK q \in Nat : q # 0 /\ n + q = 5 /\ n \in Nat /\ 0 \in Bit
  <2>1. 5 - n \in Nat /\ 5 - n # 0 /\ n + (5 - n) = 5
    OBVIOUS
  <2> QED  BY <2>1 DEF Bit
<1>2. PICK extra \in BitStrings : extra = Times(q, 0) /\ extra # <<>>
  BY <1>1, TimesIsBits
<1>3. Times(n, 0) \o Times(q, 0) = Times(n + q, 0)
  BY <1>1, TimesTogether
<1>4. Times(n + q, 0) = Times(5, 0)
  BY <1>1
<1>5. Code[ZERO] = [i \in 1 .. 5 |-> 0]
  BY DEF CodeFits
<1> QED  BY <1>2, <1>3, <1>4, <1>5 DEF Times

(* A text that is padded with zeros instead of ones decodes if no padding   *)
(* was needed, and also with five bits of it: five zeros are the code of    *)
(* ZERO, and the text ends with one character more.  Otherwise the zeros    *)
(* left over are no padding.                                                *)
LEMMA DecodesZeros ==
    ASSUME TablesFit, NEW src \in Seq(Octet), NEW p, p = Padding(Bits(src))
    PROVE  decode(Octets(Bits(src) \o Times(p, 0))) =
             [ok  |-> p \in {0, 5},
              buf |-> IF p < 5 THEN src ELSE Append(src, ZERO)]
<1>1. CodeFits
  BY DEF TablesFit
<1>2. src \in Seq(Symbols)
  <2>1. \A x \in Octet : x \in Symbols
    BY DEF Octet, Symbols, EOS
  <2> QED  BY <2>1, SeqMonotonic
<1>3. ZERO \in Symbols /\ ZERO \in Octet
  BY DEF ZERO, Symbols, EOS, Octet
<1>4. PICK bits \in BitStrings : bits = Bits(src)
  BY <1>1, <1>2, <1>3, BitsOfText
<1>5. p \in 0 .. 7 /\ 0 \in Bit
  BY <1>4, Filled DEF Bit
<1>6. PICK s \in BitStrings, N \in Nat : s = bits \o Times(p, 0) /\ Len(s) = 8 * N
  BY <1>4, <1>5, Filled
<1>7. CASE p < 5
  <2>1. p \in 0 .. 4 /\ p \in Nat
    BY <1>5, <1>7
  <2>2. PICK tail \in BitStrings : tail = Times(p, 0)
    BY <1>5, <2>1, TimesIsBits
  <2>3. PICK extra \in BitStrings : tail \o extra = Code[ZERO] /\ extra # <<>>
    BY <1>1, <2>1, <2>2, ZeroBegun
  <2>4. s = Bits(src) \o tail
    BY <1>4, <1>6, <2>2, Zenon
  <2>5. Decodes(Octets(s), IsPadding(tail), src)
    BY <1>3, <1>6, <2>3, <2>4, TextDecoded
  <2>6. IsPadding(tail) = (p \in {0, 5})
    <3>1. IsPadding(Times(p, 0)) = (p = 0)
      BY <2>1, ZerosEnd
    <3>2. (p = 0) = (p \in {0, 5})
      BY <2>1
    <3> QED  BY <2>2, <3>1, <3>2, Zenon
  <2>7. decode(Octets(s)) = [ok |-> p \in {0, 5}, buf |-> src]
    BY <2>5, <2>6, Zenon DEF Decodes
  <2>8. src = IF p < 5 THEN src ELSE Append(src, ZERO)
    BY <1>7
  <2> QED  BY <1>4, <1>6, <2>7, <2>8, Zenon
<1>8. CASE ~(p < 5)
  <2>1. PICK n \in 0 .. 4 : p = 5 + n /\ n \in Nat /\ p \in Nat
    <3>1. p - 5 \in 0 .. 4 /\ p = 5 + (p - 5)
      BY <1>5, <1>8
    <3> QED  BY <3>1
  <2>2. PICK more \in Seq(Octet) : more = Append(src, ZERO)
    BY <1>3, AppendProperties
  <2>3. Bits(more) = bits \o Code[ZERO]
    BY <1>1, <1>2, <1>3, <1>4, <2>2, BitsOfText
  <2>4. PICK tail \in BitStrings : tail = Times(n, 0)
    BY <1>5, <2>1, TimesIsBits
  <2>5. PICK extra \in BitStrings : tail \o extra = Code[ZERO] /\ extra # <<>>
    BY <1>1, <2>1, <2>4, ZeroBegun
  <2>6. s = Bits(more) \o tail
    <3>1. Times(5, 0) \o Times(n, 0) = Times(5 + n, 0)
      BY <1>5, <2>1, TimesTogether
    <3>2. PICK zero \in BitStrings : zero = Times(5, 0)
      BY <1>5, TimesIsBits
    <3>3. Code[ZERO] = zero
      BY <1>1, <3>2 DEF CodeFits, Times
    <3>4. zero \o tail = Times(p, 0)
      BY <2>1, <2>4, <3>1, <3>2, Zenon
    <3>5. Regroups(bits, zero, tail)
      BY BitsRegroup
    <3> QED  BY <1>6, <2>3, <3>3, <3>4, <3>5, Zenon DEF Regroups
  <2>7. Decodes(Octets(s), IsPadding(tail), more)
    BY <1>3, <1>6, <2>5, <2>6, TextDecoded
  <2>8. IsPadding(tail) = (p \in {0, 5})
    <3>1. IsPadding(Times(n, 0)) = (n = 0)
      BY ZerosEnd
    <3>2. (n = 0) = (p \in {0, 5})
      BY <2>1
    <3> QED  BY <2>4, <3>1, <3>2, Zenon
  <2>9. decode(Octets(s)) = [ok |-> p \in {0, 5}, buf |-> more]
    BY <2>7, <2>8, Zenon DEF Decodes
  <2>10. more = IF p < 5 THEN src ELSE Append(src, ZERO)
    BY <1>8, <2>2
  <2> QED  BY <1>4, <1>6, <2>9, <2>10, Zenon
<1> QED  BY <1>7, <1>8, Zenon

-----------------------------------------------------------------------------
(* The state machine of HuffmanDecoder                                     *)

(* The state the decoder is in and the bits begun are a pair of the set.    *)
TablesInv ==
    /\ TablesAgree
    /\ failed \in BOOLEAN
    /\ ~failed => <<decoder, begun>> \in Reached

(* It holds of the first state.                                             *)
LEMMA TablesInvInit ==
    ASSUME TablesFit, HuffmanInit
    PROVE  TablesInv
<1>1. <<decoder, begun>> \in Reached
  BY DEF TablesFit, Agree, HuffmanInit
<1>2. due # <<EOS>>
  BY DEF HuffmanInit
<1> QED  BY <1>1, <1>2 DEF HuffmanInit, TablesInv, TablesAgree

(* Whatever four bits come, the decoder gives what the code says and is in  *)
(* a state of the set again.                                                *)
LEMMA TablesInvStep ==
    ASSUME TablesFit, TablesInv, HuffmanNext
    PROVE  TablesInv'
<1>1. PICK input \in HalfOctets : DecodeNibble(input)
  BY DEF HuffmanNext
<1>2. PICK four : four = BitsOf(input, 4)
  OBVIOUS
<1>3. PICK d : d = decode4(decoder, input)
  OBVIOUS
<1>4. ~ failed /\ begun' = BegunAfter(begun, four) /\ due' = DueAfter(begun, four)
  BY <1>1, <1>2 DEF DecodeNibble, SendNibble
<1>5. \/ d.err /\ failed' = TRUE
      \/ ~d.err /\ decoder' = d.decoder /\ gave' = d.ret /\ failed' = failed
  BY <1>1, <1>3 DEF DecodeNibble
<1>6. PICK pairs : pairs = Reached
  OBVIOUS
<1>7. PICK pair \in pairs : pair = <<decoder, begun>>
  BY <1>4, <1>6 DEF TablesInv
<1>8. IF due' = <<EOS>> THEN d.err
      ELSE ~d.err /\ d.ret = due' /\ <<d.decoder, begun'>> \in pairs
  <2>1. Agree(pairs)
    BY <1>6 DEF TablesFit
  <2>2. IF DueAfter(pair[2], BitsOf(input, 4)) = <<EOS>> THEN decode4(pair[1], input).err
        ELSE /\ ~decode4(pair[1], input).err
             /\ decode4(pair[1], input).ret = DueAfter(pair[2], BitsOf(input, 4))
             /\ <<decode4(pair[1], input).decoder,
                  BegunAfter(pair[2], BitsOf(input, 4))>> \in pairs
    BY <2>1 DEF Agree
  <2>3. pair[1] = decoder /\ pair[2] = begun
    BY <1>7
  <2> QED  BY <1>2, <1>3, <1>4, <2>2, <2>3, Zenon
<1>9. CASE due' = <<EOS>>
  <2>1. failed' = TRUE
    BY <1>5, <1>8, <1>9
  <2> QED  BY <1>9, <2>1 DEF TablesInv, TablesAgree
<1>10. CASE due' # <<EOS>>
  <2>1. failed' = FALSE /\ gave' = due'
    BY <1>4, <1>5, <1>8, <1>10 DEF TablesInv
  <2>2. <<decoder', begun'>> \in Reached
    BY <1>5, <1>6, <1>8, <1>10, Zenon
  <2> QED  BY <1>10, <2>1, <2>2 DEF TablesInv, TablesAgree
<1> QED  BY <1>9, <1>10

(* And of every state.                                                      *)
LEMMA TablesInvHolds ==
    ASSUME TablesFit
    PROVE  HuffmanSpec => []TablesInv
<1>1. HuffmanInit => TablesInv
  BY TablesInvInit
<1>2. TablesInv /\ [HuffmanNext]_huffman_vars => TablesInv'
  <2> SUFFICES ASSUME TablesInv, [HuffmanNext]_huffman_vars
               PROVE  TablesInv'
    OBVIOUS
  <2>1. CASE HuffmanNext
    BY <2>1, TablesInvStep
  <2>2. CASE UNCHANGED huffman_vars
    BY <2>2 DEF huffman_vars, TablesInv, TablesAgree
  <2> QED  BY <2>1, <2>2
<1> QED  BY <1>1, <1>2, PTL DEF HuffmanSpec

(* However long the string and whatever the bits in it: the decoder gives   *)
(* each symbol when its last bit is in, no other, and its only error is the *)
(* end-of-string symbol (decode4 in huffman/mod.rs).                        *)
THEOREM TablesAgreeHolds ==
    ASSUME TablesFit
    PROVE  HuffmanSpec => []TablesAgree
<1>1. TablesInv => TablesAgree
  BY DEF TablesInv
<1> QED  BY <1>1, TablesInvHolds, PTL

(* However long the string: it may end after fewer than eight ones and      *)
(* nowhere else (is_final in huffman/mod.rs).                               *)
THEOREM EndsAtPaddingHolds ==
    ASSUME TablesFit
    PROVE  HuffmanSpec => []EndsAtPadding
<1>1. TablesInv => EndsAtPadding
  <2> SUFFICES ASSUME TablesInv, ~failed
               PROVE  is_final(decoder) <=> IsPadding(begun)
    BY DEF EndsAtPadding
  <2>1. PICK pairs : pairs = Reached
    OBVIOUS
  <2>2. PICK pair \in pairs : pair = <<decoder, begun>>
    BY <2>1 DEF TablesInv
  <2>3. pair[1] = decoder /\ pair[2] = begun
    BY <2>2
  <2>4. is_final(pair[1]) <=> IsPadding(pair[2])
    BY <2>1, <2>2 DEF TablesFit, Agree
  <2> QED  BY <2>3, <2>4, Zenon
<1> QED  BY <1>1, TablesInvHolds, PTL
=============================================================================
