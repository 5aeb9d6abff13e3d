--------------------------- MODULE AnswersProofs ---------------------------
(***************************************************************************)
(* Proofs about Answers: the header compression of the writer task, with   *)
(* every table a client may have; what the client reads of an answer; that *)
(* no request is forgotten; and that the service implements Store.         *)
(*                                                                         *)
(* The first half is about one response: what the encoder makes of it and  *)
(* what a client reads in that.  Encoder and client are in one of three    *)
(* pairs of states (Follows), so what a block says is a matter of its      *)
(* fields one by one, and what was written before does not count.  The     *)
(* second half is about the service, with one invariant (AInv) that says   *)
(* where a request is, that the jobs are the responses, and what has been  *)
(* read of them.                                                           *)
(***************************************************************************)
EXTENDS Answers, SequenceLemmas

-----------------------------------------------------------------------------
(* The client's table                                                      *)

\* Responses has its own instance of FlattenSeq.
LEMMA SameFlatten == ASSUME NEW S PROVE Wire!FlattenSeq(S) = FlattenSeq(S)
  BY DEF Wire!FlattenSeq, FlattenSeq
\* The fields the encoder enters into the table.
ContentType == Wire!Pair("content-type", "application/grpc")
StatusZero  == Wire!Pair("grpc-status", 0)

\* The entries the encoder makes.
Entry == {ContentType, StatusZero}

\* A sequence of representations whose insertions make entries.
Inserts(reps, E) ==
    \A i \in 1 .. Len(reps) :
        reps[i].kind = "insert" =>
            Wire!Pair(reps[i].name, reps[i].value) \in E

\* An insertion keeps a table a sequence of entries.
LEMMA EnteredType ==
    ASSUME NEW E, NEW t \in Seq(E), NEW rep,
           rep.kind = "insert" => Wire!Pair(rep.name, rep.value) \in E
    PROVE  Wire!Entered(t, rep) \in Seq(E)
<1>1. CASE rep.kind = "insert"
  <2>1. PICK pair \in E : pair = Wire!Pair(rep.name, rep.value)
    BY <1>1
  <2>2. PICK full \in Seq(E) : full = <<pair>> \o t
    <3>1. PICK one : one = <<pair>>
      OBVIOUS
    <3>2. one \in Seq(E)
      BY <3>1
    <3> QED  BY <3>1, <3>2, ConcatProperties
  <2>3. Len(full) \in Nat
    BY LenProperties
  <2>4. PICK m \in Int : m = Wire!Min({Len(full), ClientTable}) /\ m <= Len(full)
    BY <2>3, TableAssumption DEF Wire!Min
  <2>5. \A i \in 1 .. m : full[i] \in E
    BY <2>3, <2>4, ElementOfSeq
  <2>6. SubSeq(full, 1, m) \in Seq(E)
    BY <2>5, SubSeqProperties
  <2>7. Wire!Entered(t, rep) = SubSeq(full, 1, m)
    <3>1. full = <<Wire!Pair(rep.name, rep.value)>> \o t
      BY <2>1, <2>2
    <3> HIDE <2>2
    <3>2. Wire!Entered(t, rep) = SubSeq(full, 1, Wire!Min({Len(full), ClientTable}))
      BY <1>1, <3>1, Zenon DEF Wire!Entered
    <3> QED  BY <2>4, <3>2
  <2> QED  BY <2>6, <2>7
<1>2. CASE rep.kind # "insert"
  BY <1>2 DEF Wire!Entered
<1> QED  BY <1>1, <1>2

\* F[n] is the table after n of the representations.
FollowsFrom(F, t, reps, N) ==
    /\ F[0] = t
    /\ \A n \in Nat : n < N => F[n + 1] = Wire!Entered(F[n], reps[n + 1])

\* Tables is what its recursive definition says.
LEMMA TablesProperties ==
    ASSUME NEW E, NEW R, NEW t \in Seq(E), NEW reps \in Seq(R), NEW N \in Nat,
           N = Len(reps), Inserts(reps, E)
    PROVE  /\ Wire!Tables(t, reps) \in [0 .. N -> Seq(E)]
           /\ FollowsFrom(Wire!Tables(t, reps), t, reps, N)
<1> DEFINE value(F, n) ==
              IF n = 0 THEN t ELSE Wire!Entered(F[n - 1], reps[n])
           Eq(F) == F = [n \in 0 .. N |-> value(F, n)]
           F == CHOOSE f : Eq(f)
           next(n, x) == IF n < N THEN Wire!Entered(x, reps[n + 1]) ELSE x
           step == [n \in Nat |-> [x \in Seq(E) |-> next(n, x)]]
<1>1. Wire!Tables(t, reps) = F
  BY DEF Wire!Tables
<1>2. \A n \in Nat, x \in Seq(E) : next(n, x) \in Seq(E)
  <2> SUFFICES ASSUME NEW n \in Nat, NEW x \in Seq(E) PROVE next(n, x) \in Seq(E)
    OBVIOUS
  <2>1. CASE n < N
    <3>1. n + 1 \in 1 .. Len(reps)
      BY <2>1
    <3> QED  BY <2>1, <3>1, EnteredType DEF Inserts
  <2>2. CASE ~(n < N)
    BY <2>2
  <2> QED  BY <2>1, <2>2
<1> HIDE DEF next
<1>3. step \in [Nat -> [Seq(E) -> Seq(E)]]
  BY <1>2
<1>4. \A n \in Nat, x \in Seq(E) : step[n][x] = next(n, x)
  OBVIOUS
<1> HIDE DEF step
<1>5. \E g \in [Nat -> Seq(E)] : Recurs(g, t, step)
  BY <1>3, NatRecursion
<1>6. PICK g \in [Nat -> Seq(E)] :
        g[0] = t /\ \A n \in Nat : g[n + 1] = step[n][g[n]]
  BY <1>5 DEF Recurs
<1>7. \A n \in Nat : n < N => g[n + 1] = Wire!Entered(g[n], reps[n + 1])
  BY <1>4, <1>6 DEF next
<1> DEFINE h == [n \in 0 .. N |-> g[n]]
<1>8. ASSUME NEW n \in 0 .. N PROVE h[n] = value(h, n)
  <2>1. CASE n = 0
    BY <1>6, <2>1
  <2>2. CASE n # 0
    <3>1. n - 1 \in Nat /\ n - 1 < N /\ (n - 1) + 1 = n /\ n - 1 \in 0 .. N
      <4>1. n \in Nat \ {0} /\ n <= N
        BY <2>2
      <4> QED  BY <4>1, Previous
    <3>2. h[n - 1] = g[n - 1] /\ h[n] = g[n]
      BY <3>1
    <3>3. g[n] = Wire!Entered(g[n - 1], reps[n])
      BY <1>7, <3>1
    <3> QED  BY <2>2, <3>2, <3>3
  <2> QED  BY <2>1, <2>2
<1>9. Eq(h)
  <2> HIDE DEF value
  <2> QED  BY <1>8
<1>10. Eq(F)
  <2> HIDE DEF h, Eq
  <2> QED  BY <1>9
<1> HIDE DEF F, h
<1>11. \A n \in 0 .. N : F[n] = value(F, n)
  <2> HIDE DEF value
  <2> QED  BY <1>10
<1>12. F[0] = t
  BY <1>11
<1>13. \A n \in Nat : n < N => F[n + 1] = Wire!Entered(F[n], reps[n + 1])
  <2> SUFFICES ASSUME NEW n \in Nat, n < N
               PROVE  F[n + 1] = Wire!Entered(F[n], reps[n + 1])
    OBVIOUS
  <2>1. n + 1 \in 0 .. N /\ n + 1 # 0 /\ (n + 1) - 1 = n
    OBVIOUS
  <2> QED  BY <1>11, <2>1
<1> DEFINE T == {n \in Nat : n <= N => F[n] \in Seq(E)}
<1>14. 0 \in T
  BY <1>12
<1>15. ASSUME NEW n \in Nat, n \in T PROVE n + 1 \in T
  <2> SUFFICES ASSUME n + 1 <= N PROVE F[n + 1] \in Seq(E)
    OBVIOUS
  <2>1. n < N /\ n <= N /\ n + 1 \in 1 .. N
    BY Below
  <2>3. F[n] \in Seq(E) /\ n + 1 \in 1 .. Len(reps)
    BY <1>15, <2>1
  <2>2. F[n + 1] = Wire!Entered(F[n], reps[n + 1])
    BY <1>13, <2>1
  <2> QED  BY <2>2, <2>3, EnteredType DEF Inserts
<1> HIDE DEF T
<1>16. Nat \subseteq T
  BY <1>14, <1>15, SetInduction
<1>17. \A n \in 0 .. N : F[n] \in Seq(E)
  BY <1>16 DEF T
<1>18. F \in [0 .. N -> Seq(E)]
  <2> HIDE DEF value
  <2> QED  BY <1>10, <1>17
<1> QED  BY <1>1, <1>12, <1>13, <1>18 DEF FollowsFrom

\* What a table with room for it does with an insertion.
LEMMA EnteredWithRoom ==
    ASSUME NEW E, NEW t \in Seq(E), NEW rep, rep.kind = "insert",
           Wire!Pair(rep.name, rep.value) \in E, Len(t) < ClientTable
    PROVE  Wire!Entered(t, rep) = <<Wire!Pair(rep.name, rep.value)>> \o t
<1>1. PICK pair \in E : pair = Wire!Pair(rep.name, rep.value)
  OBVIOUS
<1>2. PICK one : one = <<pair>>
  OBVIOUS
<1>3. one \in Seq(E) /\ Len(one) = 1
  BY <1>2
<1>4. PICK full \in Seq(E) : full = one \o t /\ Len(full) = Len(one) + Len(t)
  <2> HIDE <1>2
  <2> QED  BY <1>3, ConcatProperties
<1>5. full = <<Wire!Pair(rep.name, rep.value)>> \o t
  BY <1>1, <1>2, <1>4
<1>6. Wire!Entered(t, rep)
          = SubSeq(full, 1, Wire!Min({Len(full), ClientTable}))
  BY <1>5, Zenon DEF Wire!Entered
<1>7. PICK n \in Nat : n = Len(full)
  BY LenProperties
<1>8. n <= ClientTable
  <2>1. Len(t) \in Nat
    BY LenProperties
  <2> QED  BY <1>3, <1>4, <1>7, <2>1, TableAssumption
<1>9. Wire!Min({n, ClientTable}) = n
  BY <1>8, TableAssumption DEF Wire!Min
<1> QED  BY <1>5, <1>6, <1>7, <1>9, SubSeqFull

\* One more representation takes the client from the table it has to the next.
LEMMA TablesGrown ==
    ASSUME NEW E, NEW R, NEW t \in Seq(E), NEW reps \in Seq(R), NEW N \in Nat,
           N = Len(reps), Inserts(reps, E), NEW rep \in R,
           rep.kind = "insert" => Wire!Pair(rep.name, rep.value) \in E
    PROVE  /\ Inserts(Append(reps, rep), E)
           /\ \A n \in 0 .. N :
                Wire!Tables(t, Append(reps, rep))[n] = Wire!Tables(t, reps)[n]
           /\ Wire!Tables(t, Append(reps, rep))[N + 1]
                  = Wire!Entered(Wire!Tables(t, reps)[N], rep)
<1>1. PICK longer \in Seq(R) : longer = Append(reps, rep)
  BY AppendProperties
<1>2. /\ Len(longer) = N + 1
      /\ \A i \in 1 .. N : longer[i] = reps[i]
      /\ longer[N + 1] = rep
  BY <1>1, AppendProperties
<1>3. Inserts(longer, E)
  <2> SUFFICES ASSUME NEW i \in 1 .. N + 1, longer[i].kind = "insert"
               PROVE  Wire!Pair(longer[i].name, longer[i].value) \in E
    BY <1>2 DEF Inserts
  <2>1. CASE i = N + 1
    BY <1>2, <2>1
  <2>2. CASE i # N + 1
    <3>1. i \in 1 .. N
      BY <2>2
    <3> QED  BY <1>2, <3>1 DEF Inserts
  <2> QED  BY <2>1, <2>2
<1>4. PICK F : F = Wire!Tables(t, reps)
  OBVIOUS
<1>5. PICK G : G = Wire!Tables(t, longer)
  OBVIOUS
<1>6. /\ F[0] = t
      /\ \A n \in Nat : n < N => F[n + 1] = Wire!Entered(F[n], reps[n + 1])
  <2>1. FollowsFrom(Wire!Tables(t, reps), t, reps, N)
    BY TablesProperties
  <2> QED  BY <1>4, <2>1 DEF FollowsFrom
<1>7. /\ G[0] = t
      /\ \A n \in Nat :
           n < N + 1 => G[n + 1] = Wire!Entered(G[n], longer[n + 1])
  <2>1. N + 1 \in Nat
    OBVIOUS
  <2>2. FollowsFrom(Wire!Tables(t, longer), t, longer, N + 1)
    BY <1>2, <1>3, <2>1, TablesProperties
  <2> QED  BY <1>5, <2>2 DEF FollowsFrom
<1> DEFINE T == {n \in Nat : n <= N => G[n] = F[n]}
<1>8. 0 \in T
  BY <1>6, <1>7
<1>9. ASSUME NEW n \in Nat, n \in T PROVE n + 1 \in T
  <2> SUFFICES ASSUME n + 1 <= N PROVE G[n + 1] = F[n + 1]
    OBVIOUS
  <2>1. n < N /\ n <= N /\ n + 1 \in 1 .. N
    BY Below
  <2>2. n < N + 1
    BY <2>1
  <2>3. G[n] = F[n]
    BY <1>9, <2>1
  <2>4. G[n + 1] = Wire!Entered(G[n], longer[n + 1])
    BY <1>7, <2>2
  <2> QED  BY <1>2, <1>6, <2>1, <2>3, <2>4
<1> HIDE DEF T
<1>10. Nat \subseteq T
  BY <1>8, <1>9, SetInduction
<1>11. \A n \in 0 .. N : G[n] = F[n]
  BY <1>10 DEF T
<1>12. G[N + 1] = Wire!Entered(F[N], rep)
  <2>1. N < N + 1 /\ N \in 0 .. N
    OBVIOUS
  <2> QED  BY <1>2, <1>7, <1>11, <2>1
<1> QED  BY <1>1, <1>3, <1>4, <1>5, <1>11, <1>12

\* The fields of a longer block are those of the shorter one and one more.
LEMMA FieldsGrown ==
    ASSUME NEW E, NEW R, NEW t \in Seq(E), NEW reps \in Seq(R), NEW N \in Nat,
           N = Len(reps), Inserts(reps, E), NEW rep \in R,
           rep.kind = "insert" => Wire!Pair(rep.name, rep.value) \in E
    PROVE  Wire!Fields(t, Append(reps, rep))
               = Append(Wire!Fields(t, reps),
                        Wire!Field(rep, Wire!Tables(t, reps)[N]))
<1>1. PICK longer \in Seq(R) : longer = Append(reps, rep)
  BY AppendProperties
<1>2. /\ Len(longer) = N + 1
      /\ \A i \in 1 .. N : longer[i] = reps[i]
      /\ longer[N + 1] = rep
  BY <1>1, AppendProperties
<1>3. PICK F : F = Wire!Tables(t, reps)
  OBVIOUS
<1>4. PICK G : G = Wire!Tables(t, longer)
  OBVIOUS
<1>5. \A n \in 0 .. N : G[n] = F[n]
  BY <1>1, <1>3, <1>4, TablesGrown
<1>6. DOMAIN reps = 1 .. N /\ DOMAIN longer = 1 .. N + 1
  BY <1>2, LenProperties
<1> DEFINE short == [i \in 1 .. N |-> Wire!Field(reps[i], F[i - 1])]
           long == [i \in 1 .. N + 1 |-> Wire!Field(longer[i], G[i - 1])]
           new == Wire!Field(rep, F[N])
           S == {short[i] : i \in 1 .. N} \cup {new}
<1>7. Wire!Fields(t, reps) = short /\ Wire!Fields(t, longer) = long
  BY <1>3, <1>4, <1>6 DEF Wire!Fields
<1>8. \A i \in 1 .. N : long[i] = short[i]
  <2> SUFFICES ASSUME NEW i \in 1 .. N PROVE long[i] = short[i]
    OBVIOUS
  <2>1. i - 1 \in 0 .. N /\ i \in 1 .. N + 1
    OBVIOUS
  <2>2. longer[i] = reps[i] /\ G[i - 1] = F[i - 1]
    BY <1>2, <1>5, <2>1
  <2> QED  BY <2>1, <2>2
<1>9. long[N + 1] = new
  <2>1. N + 1 \in 1 .. N + 1 /\ (N + 1) - 1 = N /\ N \in 0 .. N
    OBVIOUS
  <2>2. G[N] = F[N] /\ longer[N + 1] = rep
    BY <1>2, <1>5, <2>1
  <2> QED  BY <2>1, <2>2
<1>10. short \in Seq(S) /\ Len(short) = N
  <2>1. short \in [1 .. N -> S]
    OBVIOUS
  <2> QED  BY <2>1
<1>11. long = Append(short, new)
  <2>1. new \in S
    OBVIOUS
  <2>2. PICK a \in Seq(S) : /\ a = Append(short, new)
                            /\ Len(a) = N + 1
                            /\ \A i \in 1 .. N : a[i] = short[i]
                            /\ a[N + 1] = new
    <3> HIDE DEF S, short, new
    <3>1. PICK sh \in Seq(S), e \in S : sh = short /\ e = new /\ Len(sh) = N
      BY <1>10, <2>1
    <3>2. PICK a \in Seq(S) : /\ a = Append(sh, e)
                              /\ Len(a) = Len(sh) + 1
                              /\ \A i \in 1 .. Len(sh) : a[i] = sh[i]
                              /\ a[Len(sh) + 1] = e
      BY AppendProperties
    <3> QED  BY <3>1, <3>2
  <2> HIDE DEF S
  <2>3. a \in [1 .. N + 1 -> S]
    BY <2>2, LenProperties
  <2>4. ASSUME NEW i \in 1 .. N + 1 PROVE long[i] = a[i]
    <3> HIDE DEF long, short, new
    <3>1. CASE i = N + 1
      BY <1>9, <2>2, <3>1
    <3>2. CASE i # N + 1
      <4>1. i \in 1 .. N
        BY <3>2, NotLast
      <4> QED  BY <1>8, <2>2, <4>1
    <3> QED  BY <3>1, <3>2
  <2>5. long = [i \in 1 .. N + 1 |-> long[i]] /\ a = [i \in 1 .. N + 1 |-> a[i]]
    BY <2>3
  <2> HIDE DEF long, short, new
  <2> QED  BY <2>2, <2>4, <2>5
<1> HIDE DEF long, short, new
<1> QED  BY <1>1, <1>3, <1>7, <1>11 DEF new

\* What representations, encoders and blocks are.
HeaderNames == {":status", "content-type", "grpc-accept-encoding",
                "grpc-status", "grpc-message"}
HeaderTexts == {"application/grpc", "gzip,deflate,zstd", ""}

Representation ==
    [kind : {"indexed"}, index : Int]
    \cup [kind : {"insert", "literal"}, name : HeaderNames,
        value : HeaderTexts \cup Nat]
    \cup [kind : {"named"}, index : Int, value : Nat]

Encoder == [dynamic_table_size : Nat, rank_grpc_status_zero : Nat \cup {None},
            rank_content_type : Nat \cup {None}]

Block == [enc : Encoder, out : Seq(Representation)]

\* An encoder, by the number of its entries and their ranks.
Ranks(size, zero, type) ==
    [dynamic_table_size |-> size, rank_grpc_status_zero |-> zero,
     rank_content_type |-> type]

\* The encoder counts the entries of the client's table, and its ranks are
\* those of the entries it takes them for.
Follows(enc, t) ==
    \/ enc = Ranks(0, None, None) /\ t = <<>>
    \/ enc = Ranks(1, None, 1) /\ t = <<ContentType>>
    \/ enc = Ranks(2, 2, 1) /\ t = <<StatusZero, ContentType>>

\* A client with table t reads these fields in a block, and follows the
\* encoder.
Reads(t, block, fields) ==
    /\ block \in Block
    /\ t \in Seq(Entry)
    /\ Inserts(block.out, Entry)
    /\ fields = Wire!Fields(t, block.out)
    /\ Follows(block.enc, Wire!Tables(t, block.out)[Len(block.out)])

\* An encoder and a table that match have their types.
LEMMA FollowsType ==
    ASSUME NEW enc, NEW t, Follows(enc, t)
    PROVE  enc \in Encoder /\ t \in Seq(Entry) /\ Len(t) <= 2
<1>1. CASE enc = Ranks(0, None, None) /\ t = <<>>
  BY <1>1 DEF Ranks, Encoder
<1>2. CASE enc = Ranks(1, None, 1) /\ t = <<ContentType>>
  BY <1>2 DEF Ranks, Encoder, Entry
<1>3. CASE enc = Ranks(2, 2, 1) /\ t = <<StatusZero, ContentType>>
  BY <1>3 DEF Ranks, Encoder, Entry
<1> QED  BY <1>1, <1>2, <1>3 DEF Follows

\* A representation that leaves encoder and client matched adds the field
\* that the client reads in it.
LEMMA ReadsPut ==
    ASSUME NEW t, NEW block, NEW fields, Reads(t, block, fields),
           NEW rep \in Representation, NEW longer \in Block,
           longer.out = Append(block.out, rep),
           rep.kind = "insert" => Wire!Pair(rep.name, rep.value) \in Entry,
           NEW tab, tab = Wire!Tables(t, block.out)[Len(block.out)],
           Follows(longer.enc, Wire!Entered(tab, rep))
    PROVE  Reads(t, longer, Append(fields, Wire!Field(rep, tab)))
<1>1. PICK reps \in Seq(Representation) : reps = block.out
  BY DEF Reads, Block
<1>2. PICK N \in Nat : N = Len(reps)
  BY LenProperties
<1>3. Inserts(reps, Entry) /\ t \in Seq(Entry)
  BY <1>1 DEF Reads
<1>4. /\ Inserts(Append(reps, rep), Entry)
      /\ Wire!Tables(t, Append(reps, rep))[N + 1] = Wire!Entered(tab, rep)
  BY <1>1, <1>2, <1>3, TablesGrown
<1>5. Wire!Fields(t, Append(reps, rep))
          = Append(Wire!Fields(t, reps), Wire!Field(rep, tab))
  BY <1>1, <1>2, <1>3, FieldsGrown
<1>6. Len(Append(reps, rep)) = N + 1
  BY <1>2, AppendProperties
<1> QED  BY <1>1, <1>3, <1>4, <1>5, <1>6 DEF Reads

\* Put adds a representation and nothing else.
LEMMA PutProperties ==
    ASSUME NEW block \in Block, NEW rep \in Representation
    PROVE  LET longer == [block EXCEPT !.out = Append(@, rep)]
           IN  /\ longer \in Block
               /\ longer.out = Append(block.out, rep)
               /\ longer.enc = block.enc
<1>1. PICK out \in Seq(Representation) : out = Append(block.out, rep)
  BY AppendProperties DEF Block
<1>2. [block EXCEPT !.out = Append(@, rep)] = [block EXCEPT !.out = out]
  BY <1>1
<1>3. [block EXCEPT !.out = out] = [enc |-> block.enc, out |-> out]
  BY DEF Block
<1>4. [enc |-> block.enc, out |-> out] \in Block
  BY DEF Block
<1> QED  BY <1>1, <1>2, <1>3, <1>4

-----------------------------------------------------------------------------
(* The encoder, one field after the other                                  *)

\* encode_status_200 is read as status 200.
LEMMA ReadsStatus200 ==
    ASSUME NEW t, NEW block, NEW fields, Reads(t, block, fields)
    PROVE  /\ Reads(t, Wire!encode_status_200(block),
                    Append(fields, Wire!Pair(":status", 200)))
           /\ Wire!encode_status_200(block).enc = block.enc
<1>1. PICK rep \in Representation : rep = [kind |-> "indexed", index |-> 8]
  <2>1. [kind |-> "indexed", index |-> 8] \in Representation
    BY DEF Representation
  <2> QED  BY <2>1
<1>2. PICK longer : longer = Wire!encode_status_200(block)
  OBVIOUS
<1>3. block \in Block
  BY DEF Reads
<1>4. longer = [block EXCEPT !.out = Append(@, rep)]
  BY <1>1, <1>2 DEF Wire!encode_status_200, Wire!Put, Wire!Index
<1>5. /\ longer \in Block
      /\ longer.out = Append(block.out, rep)
      /\ longer.enc = block.enc
  BY <1>3, <1>4, PutProperties
<1>6. PICK tab : tab = Wire!Tables(t, block.out)[Len(block.out)]
  OBVIOUS
<1>7. Wire!Entered(tab, rep) = tab /\ rep.kind # "insert"
  BY <1>1 DEF Wire!Entered
<1>8. Wire!Field(rep, tab) = Wire!Pair(":status", 200)
  <2>1. rep.kind = "indexed" /\ rep.index = 8
    BY <1>1
  <2>2. Wire!Field(rep, tab) = Wire!At(tab, 8)
    BY <2>1 DEF Wire!Field
  <2> QED  BY <2>2 DEF Wire!At
<1>9. Follows(longer.enc, Wire!Entered(tab, rep))
  BY <1>5, <1>6, <1>7 DEF Reads
<1>10. Reads(t, longer, Append(fields, Wire!Field(rep, tab)))
  BY <1>5, <1>6, <1>7, <1>9, ReadsPut
<1> QED  BY <1>2, <1>5, <1>8, <1>10

\* A literal that is not indexed.
LEMMA ReadsPlain ==
    ASSUME NEW t, NEW block, NEW fields, Reads(t, block, fields),
           NEW name \in HeaderNames, NEW val \in HeaderTexts \cup Nat
    PROVE  LET longer == Wire!Put(block, Wire!Plain(name, val))
           IN  /\ Reads(t, longer, Append(fields, Wire!Pair(name, val)))
               /\ longer.enc = block.enc
<1>1. PICK rep \in Representation :
          rep = [kind |-> "literal", name |-> name, value |-> val]
  BY DEF Representation
<1>2. PICK longer : longer = Wire!Put(block, Wire!Plain(name, val))
  OBVIOUS
<1>3. block \in Block
  BY DEF Reads
<1>4. longer = [block EXCEPT !.out = Append(@, rep)]
  BY <1>1, <1>2 DEF Wire!Put, Wire!Plain
<1>5. /\ longer \in Block
      /\ longer.out = Append(block.out, rep)
      /\ longer.enc = block.enc
  BY <1>3, <1>4, PutProperties
<1>6. PICK tab : tab = Wire!Tables(t, block.out)[Len(block.out)]
  OBVIOUS
<1>7. Wire!Entered(tab, rep) = tab /\ rep.kind # "insert"
  BY <1>1 DEF Wire!Entered
<1>8. Wire!Field(rep, tab) = Wire!Pair(name, val)
  <2>1. rep.kind = "literal" /\ rep.name = name /\ rep.value = val
    BY <1>1
  <2> QED  BY <2>1 DEF Wire!Field
<1>9. Follows(longer.enc, Wire!Entered(tab, rep))
  BY <1>5, <1>6, <1>7 DEF Reads
<1>10. Reads(t, longer, Append(fields, Wire!Field(rep, tab)))
  BY <1>5, <1>6, <1>7, <1>9, ReadsPut
<1> QED  BY <1>2, <1>5, <1>8, <1>10

\* An insertion into the table.
LEMMA InsertProperties ==
    ASSUME NEW block \in Block, NEW name \in HeaderNames,
           NEW val \in HeaderTexts \cup Nat
    PROVE  LET inserted == Wire!encode_and_index_header(block, name, val)
           IN  /\ inserted \in Block
               /\ inserted.out = Append(block.out, Wire!Insert(name, val))
               /\ inserted.enc = Ranks(block.enc.dynamic_table_size + 1,
                                       block.enc.rank_grpc_status_zero,
                                       block.enc.rank_content_type)
<1>1. PICK rep \in Representation : rep = Wire!Insert(name, val)
  BY DEF Representation, Wire!Insert
<1>2. PICK put : put = [block EXCEPT !.out = Append(@, rep)]
  OBVIOUS
<1>3. /\ put \in Block
      /\ put.out = Append(block.out, rep)
      /\ put.enc = block.enc
  BY <1>2, PutProperties
<1>4. PICK inserted :
          inserted = [put EXCEPT !.enc.dynamic_table_size = @ + 1]
  OBVIOUS
<1>5. inserted = Wire!encode_and_index_header(block, name, val)
  BY <1>1, <1>2, <1>4 DEF Wire!encode_and_index_header, Wire!Put
<1>6. /\ inserted \in Block
      /\ inserted.out = put.out
      /\ inserted.enc = Ranks(put.enc.dynamic_table_size + 1,
                              put.enc.rank_grpc_status_zero,
                              put.enc.rank_content_type)
  <2>1. put.enc \in Encoder /\ put.out \in Seq(Representation)
    BY <1>3 DEF Block
  <2>2. PICK enc : enc = [put.enc EXCEPT !.dynamic_table_size = @ + 1]
    OBVIOUS
  <2>3. enc \in Encoder /\ enc = Ranks(put.enc.dynamic_table_size + 1,
                              put.enc.rank_grpc_status_zero,
                              put.enc.rank_content_type)
    BY <2>1, <2>2 DEF Encoder, Ranks
  <2>4. inserted = [put EXCEPT !.enc = enc]
    BY <1>4, <2>2
  <2>5. inserted = [enc |-> enc, out |-> put.out]
    BY <1>3, <2>4 DEF Block
  <2> QED  BY <2>1, <2>3, <2>5 DEF Block
<1> QED  BY <1>1, <1>3, <1>5, <1>6

\* encode_content_type is read as the content type, inserted or indexed.
LEMMA ReadsContentType ==
    ASSUME NEW t, NEW block, NEW fields, Reads(t, block, fields)
    PROVE  /\ Reads(t, Wire!encode_content_type(block),
                    Append(fields, ContentType))
           /\ Wire!encode_content_type(block).enc.rank_content_type # None
<1>1. PICK longer : longer = Wire!encode_content_type(block)
  OBVIOUS
<1>2. block \in Block
  BY DEF Reads
<1>3. PICK enc \in Encoder : enc = block.enc
  BY <1>2 DEF Block
<1>4. PICK tab : tab = Wire!Tables(t, block.out)[Len(block.out)]
  OBVIOUS
<1>5. Follows(enc, tab)
  BY <1>3, <1>4 DEF Reads
<1>6. CASE enc.rank_content_type # None
  <2>1. PICK i \in Int : /\ i = Wire!dynamic_index(enc, enc.rank_content_type)
                         /\ i # 8
                         /\ i - 61 \in DOMAIN tab
                         /\ tab[i - 61] = ContentType
    <3>1. CASE enc = Ranks(1, None, 1) /\ tab = <<ContentType>>
      <4>1. Wire!dynamic_index(enc, enc.rank_content_type) = 62
        BY <3>1 DEF Ranks, Wire!dynamic_index
      <4> QED  BY <3>1, <4>1
    <3>2. CASE enc = Ranks(2, 2, 1) /\ tab = <<StatusZero, ContentType>>
      <4>1. Wire!dynamic_index(enc, enc.rank_content_type) = 63
        BY <3>2 DEF Ranks, Wire!dynamic_index
      <4> QED  BY <3>2, <4>1
    <3>3. CASE enc = Ranks(0, None, None)
      BY <1>6, <3>3 DEF Ranks
    <3> QED  BY <1>5, <3>1, <3>2, <3>3 DEF Follows
  <2>2. PICK rep \in Representation : rep = [kind |-> "indexed", index |-> i]
    BY DEF Representation
  <2>3. longer = [block EXCEPT !.out = Append(@, rep)]
    BY <1>1, <1>3, <1>6, <2>1, <2>2
       DEF Wire!encode_content_type, Wire!Put, Wire!Index
  <2>4. /\ longer \in Block
        /\ longer.out = Append(block.out, rep)
        /\ longer.enc = enc
    BY <1>2, <1>3, <2>3, PutProperties
  <2>5. Wire!Entered(tab, rep) = tab /\ rep.kind # "insert"
    BY <2>2 DEF Wire!Entered
  <2>6. Wire!Field(rep, tab) = ContentType
    <3>1. rep.kind = "indexed" /\ rep.index = i
      BY <2>2
    <3>2. Wire!Field(rep, tab) = Wire!At(tab, i)
      BY <3>1 DEF Wire!Field
    <3> QED  BY <2>1, <3>2 DEF Wire!At
  <2>7. Reads(t, longer, Append(fields, Wire!Field(rep, tab)))
    BY <1>4, <1>5, <2>4, <2>5, ReadsPut
  <2> QED  BY <1>1, <1>6, <2>4, <2>6, <2>7
<1>7. CASE enc.rank_content_type = None
  <2>1. enc = Ranks(0, None, None) /\ tab = <<>>
    BY <1>5, <1>7, NoneAssumption DEF Follows, Ranks
  <2>2. PICK rep \in Representation :
            rep = Wire!Insert("content-type", "application/grpc")
    <3>1. Wire!Insert("content-type", "application/grpc") \in Representation
      BY DEF Representation, HeaderNames, HeaderTexts, Wire!Insert
    <3> QED  BY <3>1
  <2>3. PICK inserted \in Block :
            /\ inserted = Wire!encode_and_index_header(block, "content-type",
                                                       "application/grpc")
            /\ inserted.out = Append(block.out, rep)
            /\ inserted.enc = Ranks(enc.dynamic_table_size + 1,
                                    enc.rank_grpc_status_zero,
                                    enc.rank_content_type)
    <3>1. PICK name \in HeaderNames, val \in HeaderTexts \cup Nat :
              name = "content-type" /\ val = "application/grpc"
      BY DEF HeaderNames, HeaderTexts
    <3>2. PICK inserted :
              inserted = Wire!encode_and_index_header(block, name, val)
      OBVIOUS
    <3>3. /\ inserted \in Block
          /\ inserted.out = Append(block.out, Wire!Insert(name, val))
          /\ inserted.enc = Ranks(block.enc.dynamic_table_size + 1,
                                  block.enc.rank_grpc_status_zero,
                                  block.enc.rank_content_type)
      BY <1>2, <3>2, InsertProperties
    <3> QED  BY <1>3, <2>2, <3>1, <3>2, <3>3
  <2>4. inserted.enc = Ranks(1, None, None)
    BY <2>1, <2>3 DEF Ranks
  <2>5. longer = [inserted EXCEPT !.enc.rank_content_type = 1]
    <3>1. longer = [inserted EXCEPT !.enc.rank_content_type
                                        = inserted.enc.dynamic_table_size]
      BY <1>1, <1>3, <1>7, <2>3, Zenon DEF Wire!encode_content_type
    <3>2. inserted.enc.dynamic_table_size = 1
      BY <2>4 DEF Ranks
    <3> QED  BY <3>1, <3>2
  <2>6. /\ longer \in Block
        /\ longer.out = inserted.out
        /\ longer.enc = Ranks(1, None, 1)
    <3>1. PICK e : e = [inserted.enc EXCEPT !.rank_content_type = 1]
      OBVIOUS
    <3>2. e = Ranks(1, None, 1) /\ e \in Encoder
      BY <2>4, <3>1 DEF Ranks, Encoder
    <3>3. longer = [inserted EXCEPT !.enc = e]
      BY <2>5, <3>1
    <3>4. longer = [enc |-> e, out |-> inserted.out]
      BY <3>3 DEF Block
    <3> QED  BY <3>2, <3>4 DEF Block
  <2>7. /\ rep.kind = "insert"
        /\ rep.name = "content-type" /\ rep.value = "application/grpc"
    BY <2>2 DEF Wire!Insert
  <2>8. Wire!Entered(tab, rep) = <<ContentType>>
    <3>1. tab \in Seq(Entry) /\ Len(tab) = 0
      BY <2>1
    <3>2. ContentType \in Entry
      BY DEF Entry
    <3>3. Wire!Entered(tab, rep) = <<ContentType>> \o tab
      <4>1. Wire!Pair(rep.name, rep.value) = ContentType
        BY <2>7 DEF ContentType
      <4>2. Len(tab) < ClientTable
        BY <3>1, TableAssumption
      <4> QED  BY <2>7, <3>1, <3>2, <4>1, <4>2, EnteredWithRoom
    <3> QED  BY <2>1, <3>2, <3>3
  <2>9. Wire!Field(rep, tab) = ContentType
    BY <2>7 DEF Wire!Field, ContentType
  <2>10. Follows(longer.enc, Wire!Entered(tab, rep))
    BY <2>6, <2>8 DEF Follows
  <2>11. Wire!Pair(rep.name, rep.value) \in Entry
    BY <2>7 DEF Entry, ContentType
  <2>12. Reads(t, longer, Append(fields, Wire!Field(rep, tab)))
    BY <1>4, <2>3, <2>6, <2>10, <2>11, ReadsPut
  <2>13. longer.enc.rank_content_type # None
    BY <2>6, NoneAssumption DEF Ranks
  <2> QED  BY <1>1, <2>9, <2>12, <2>13
<1> QED  BY <1>6, <1>7

\* encode_grpc_status_zero is read as status zero, inserted or indexed: the
\* content type has been inserted before it.
LEMMA ReadsStatusZero ==
    ASSUME NEW t, NEW block, NEW fields, Reads(t, block, fields),
           block.enc.rank_content_type # None
    PROVE  Reads(t, Wire!encode_grpc_status_zero(block),
                 Append(fields, StatusZero))
<1>1. PICK longer : longer = Wire!encode_grpc_status_zero(block)
  OBVIOUS
<1>2. block \in Block
  BY DEF Reads
<1>3. PICK enc \in Encoder : enc = block.enc
  BY <1>2 DEF Block
<1>4. PICK tab : tab = Wire!Tables(t, block.out)[Len(block.out)]
  OBVIOUS
<1>5. \/ enc = Ranks(1, None, 1) /\ tab = <<ContentType>>
      \/ enc = Ranks(2, 2, 1) /\ tab = <<StatusZero, ContentType>>
  BY <1>3, <1>4 DEF Reads, Follows, Ranks
<1>6. CASE enc = Ranks(2, 2, 1) /\ tab = <<StatusZero, ContentType>>
  <2>1. PICK rep \in Representation : rep = [kind |-> "indexed", index |-> 62]
    <3>1. [kind |-> "indexed", index |-> 62] \in Representation
      BY DEF Representation
    <3> QED  BY <3>1
  <2>2. /\ enc.rank_grpc_status_zero = 2
        /\ Wire!dynamic_index(enc, 2) = 62
    BY <1>6 DEF Ranks, Wire!dynamic_index
  <2>3. 2 # None
    BY NoneAssumption
  <2>4. longer = [block EXCEPT !.out = Append(@, rep)]
    BY <1>1, <1>3, <2>1, <2>2, <2>3
       DEF Wire!encode_grpc_status_zero, Wire!Put, Wire!Index
  <2>5. /\ longer \in Block
        /\ longer.out = Append(block.out, rep)
        /\ longer.enc = enc
    BY <1>2, <1>3, <2>4, PutProperties
  <2>6. rep.kind = "indexed" /\ rep.index = 62
    BY <2>1
  <2>7. Wire!Entered(tab, rep) = tab
    BY <2>6 DEF Wire!Entered
  <2>8. Wire!Field(rep, tab) = StatusZero
    <3>1. Wire!Field(rep, tab) = Wire!At(tab, 62)
      BY <2>6 DEF Wire!Field
    <3>2. 62 - 61 \in DOMAIN tab /\ tab[62 - 61] = StatusZero
      BY <1>6
    <3> QED  BY <3>1, <3>2 DEF Wire!At
  <2>9. Follows(longer.enc, Wire!Entered(tab, rep))
    BY <1>6, <2>5, <2>7 DEF Follows
  <2>10. Reads(t, longer, Append(fields, Wire!Field(rep, tab)))
    BY <1>4, <2>5, <2>6, <2>9, ReadsPut
  <2> QED  BY <1>1, <2>8, <2>10
<1>7. CASE enc = Ranks(1, None, 1) /\ tab = <<ContentType>>
  <2>1. PICK rep \in Representation : rep = Wire!Insert("grpc-status", 0)
    <3>1. Wire!Insert("grpc-status", 0) \in Representation
      BY DEF Representation, HeaderNames, HeaderTexts, Wire!Insert
    <3> QED  BY <3>1
  <2>2. enc.rank_grpc_status_zero = None
    BY <1>7 DEF Ranks
  <2>3. PICK inserted \in Block :
            /\ inserted = Wire!encode_and_index_header(block, "grpc-status", 0)
            /\ inserted.out = Append(block.out, rep)
            /\ inserted.enc = Ranks(2, None, 1)
    <3>1. PICK name \in HeaderNames, val \in HeaderTexts \cup Nat :
              name = "grpc-status" /\ val = 0
      BY DEF HeaderNames, HeaderTexts
    <3>2. PICK inserted :
              inserted = Wire!encode_and_index_header(block, name, val)
      OBVIOUS
    <3>3. /\ inserted \in Block
          /\ inserted.out = Append(block.out, Wire!Insert(name, val))
          /\ inserted.enc = Ranks(block.enc.dynamic_table_size + 1,
                                  block.enc.rank_grpc_status_zero,
                                  block.enc.rank_content_type)
      BY <1>2, <3>2, InsertProperties
    <3>4. inserted.enc = Ranks(2, None, 1)
      <4>1. /\ enc.dynamic_table_size = 1
            /\ enc.rank_grpc_status_zero = None
            /\ enc.rank_content_type = 1
        BY <1>7 DEF Ranks
      <4>2. 1 + 1 = 2
        OBVIOUS
      <4> QED  BY <1>3, <3>3, <4>1, <4>2
    <3> QED  BY <2>1, <3>1, <3>2, <3>3, <3>4
  <2>4. longer = [inserted EXCEPT !.enc.rank_grpc_status_zero = 2]
    <3>1. longer = [inserted EXCEPT !.enc.rank_grpc_status_zero
                                        = inserted.enc.dynamic_table_size]
      BY <1>1, <1>3, <2>2, <2>3, Zenon DEF Wire!encode_grpc_status_zero
    <3>2. inserted.enc.dynamic_table_size = 2
      BY <2>3 DEF Ranks
    <3> QED  BY <3>1, <3>2
  <2>5. /\ longer \in Block
        /\ longer.out = inserted.out
        /\ longer.enc = Ranks(2, 2, 1)
    <3>1. PICK e : e = [inserted.enc EXCEPT !.rank_grpc_status_zero = 2]
      OBVIOUS
    <3>2. e = Ranks(2, 2, 1) /\ e \in Encoder
      BY <2>3, <3>1 DEF Ranks, Encoder
    <3>3. longer = [inserted EXCEPT !.enc = e]
      BY <2>4, <3>1
    <3>4. longer = [enc |-> e, out |-> inserted.out]
      BY <3>3 DEF Block
    <3> QED  BY <3>2, <3>4 DEF Block
  <2>6. rep.kind = "insert" /\ rep.name = "grpc-status" /\ rep.value = 0
    BY <2>1 DEF Wire!Insert
  <2>7. Wire!Entered(tab, rep) = <<StatusZero, ContentType>>
    <3>1. tab \in Seq(Entry) /\ Len(tab) = 1 /\ StatusZero \in Entry
      BY <1>7 DEF Entry
    <3>2. Wire!Pair(rep.name, rep.value) = StatusZero
      BY <2>6 DEF StatusZero
    <3>3. Len(tab) < ClientTable
      BY <3>1, TableAssumption
    <3>4. Wire!Entered(tab, rep) = <<StatusZero>> \o tab
      BY <2>6, <3>1, <3>2, <3>3, EnteredWithRoom
    <3> QED  BY <1>7, <3>4, TwoEntries
  <2>8. Wire!Field(rep, tab) = StatusZero
    BY <2>6 DEF Wire!Field, StatusZero
  <2>9. Follows(longer.enc, Wire!Entered(tab, rep))
    BY <2>5, <2>7 DEF Follows
  <2>10. Wire!Pair(rep.name, rep.value) \in Entry
    BY <2>6 DEF Entry, StatusZero
  <2>11. Reads(t, longer, Append(fields, Wire!Field(rep, tab)))
    BY <1>4, <2>3, <2>5, <2>9, <2>10, ReadsPut
  <2> QED  BY <1>1, <2>8, <2>11
<1> QED  BY <1>5, <1>6, <1>7

\* encode_grpc_status_nonzero is read as the code, whether or not the name is
\* taken from the table.
LEMMA ReadsStatusNonzero ==
    ASSUME NEW t, NEW block, NEW fields, Reads(t, block, fields),
           NEW code \in Nat
    PROVE  /\ Reads(t, Wire!encode_grpc_status_nonzero(block, code),
                    Append(fields, Wire!Pair("grpc-status", code)))
           /\ Wire!encode_grpc_status_nonzero(block, code).enc = block.enc
<1>1. PICK longer : longer = Wire!encode_grpc_status_nonzero(block, code)
  OBVIOUS
<1>2. block \in Block
  BY DEF Reads
<1>3. PICK enc \in Encoder : enc = block.enc
  BY <1>2 DEF Block
<1>4. PICK tab : tab = Wire!Tables(t, block.out)[Len(block.out)]
  OBVIOUS
<1>5. Follows(enc, tab)
  BY <1>3, <1>4 DEF Reads
<1>6. CASE enc.rank_grpc_status_zero = None
  <2>1. longer = Wire!Put(block, Wire!Plain("grpc-status", code))
    BY <1>1, <1>3, <1>6, Zenon DEF Wire!encode_grpc_status_nonzero
  <2>2. PICK name \in HeaderNames, val \in HeaderTexts \cup Nat :
            name = "grpc-status" /\ val = code
    BY DEF HeaderNames
  <2>3. longer = Wire!Put(block, Wire!Plain(name, val))
    BY <2>1, <2>2
  <2>4. /\ Reads(t, longer, Append(fields, Wire!Pair(name, val)))
        /\ longer.enc = block.enc
    BY <2>3, ReadsPlain
  <2> QED  BY <1>1, <2>2, <2>4
<1>7. CASE enc.rank_grpc_status_zero # None
  <2>1. enc = Ranks(2, 2, 1) /\ tab = <<StatusZero, ContentType>>
    BY <1>5, <1>7 DEF Follows, Ranks
  <2>2. PICK rep \in Representation :
            rep = [kind |-> "named", index |-> 62, value |-> code]
    <3>1. [kind |-> "named", index |-> 62, value |-> code] \in Representation
      BY DEF Representation
    <3> QED  BY <3>1
  <2>3. /\ enc.rank_grpc_status_zero = 2
        /\ Wire!dynamic_index(enc, 2) = 62
    BY <2>1 DEF Ranks, Wire!dynamic_index
  <2>4. longer = [block EXCEPT !.out = Append(@, rep)]
    BY <1>1, <1>3, <1>7, <2>2, <2>3
       DEF Wire!encode_grpc_status_nonzero, Wire!Put, Wire!NameAt
  <2>5. /\ longer \in Block
        /\ longer.out = Append(block.out, rep)
        /\ longer.enc = enc
    BY <1>2, <1>3, <2>4, PutProperties
  <2>6. rep.kind = "named" /\ rep.index = 62 /\ rep.value = code
    BY <2>2
  <2>7. Wire!Entered(tab, rep) = tab
    BY <2>6 DEF Wire!Entered
  <2>8. Wire!Field(rep, tab) = Wire!Pair("grpc-status", code)
    <3>1. Wire!Field(rep, tab) = Wire!Pair(Wire!At(tab, 62).name, code)
      BY <2>6 DEF Wire!Field
    <3>2. 62 - 61 \in DOMAIN tab /\ tab[62 - 61] = StatusZero
      BY <2>1
    <3>3. Wire!At(tab, 62) = StatusZero
      BY <3>2 DEF Wire!At
    <3>4. StatusZero.name = "grpc-status"
      BY DEF StatusZero, Wire!Pair
    <3> QED  BY <3>1, <3>3, <3>4
  <2>9. Follows(longer.enc, Wire!Entered(tab, rep))
    BY <1>5, <2>5, <2>7
  <2>10. Reads(t, longer, Append(fields, Wire!Field(rep, tab)))
    BY <1>4, <2>5, <2>6, <2>9, ReadsPut
  <2> QED  BY <1>1, <1>3, <2>5, <2>8, <2>10
<1> QED  BY <1>6, <1>7

-----------------------------------------------------------------------------
(* Frames                                                                  *)

\* What frames carry.
Bodies == Values \cup {None} \cup SUBSET (Keys \X Values)

Frame == [fields : Seq(Representation), body : Seq(Bodies), end : BOOLEAN]

\* The representations and the messages of a sequence of frames.
FieldsSent(frames) == FlattenSeq([i \in DOMAIN frames |-> frames[i].fields])
BodySent(frames)   == FlattenSeq([i \in DOMAIN frames |-> frames[i].body])

\* The responses that are made.
Made == {Reply(body) : body \in Bodies}
            \cup {Status(code) : code \in {NOT_FOUND, UNAVAILABLE}}

\* What the writer builds for a response.
BuiltFor(enc, response) ==
    IF response.ok THEN Wire!build_response(enc, response.body)
                   ELSE Wire!build_status(enc, response.code)

\* The fields that head every response.
HeadingFields ==
    Append(Append(Append(<<>>, Wire!Pair(":status", 200)), ContentType),
           Wire!Pair("grpc-accept-encoding", "gzip,deflate,zstd"))

\* What the client is to read of a response.
FieldsOf(response) ==
    IF response.ok
      THEN Append(HeadingFields, StatusZero)
      ELSE Append(Append(HeadingFields, Wire!Pair("grpc-status", response.code)),
                  Wire!Pair("grpc-message", ""))
\* The messages of a response.
BodyOf(response) == IF response.ok THEN <<response.body>> ELSE <<>>

\* No frame carries anything.
LEMMA SentNothing ==
    ASSUME NEW frames
    PROVE  /\ FieldsSent(SubSeq(frames, 1, 0)) = <<>>
           /\ BodySent(SubSeq(frames, 1, 0)) = <<>>
<1>1. SubSeq(frames, 1, 0) = <<>>
  BY SubSeqEmpty
<1>2. DOMAIN <<>> = {}
  OBVIOUS
<1>3. FieldsSent(<<>>) = FlattenSeq(<<>>) /\ BodySent(<<>>) = FlattenSeq(<<>>)
  BY <1>2 DEF FieldsSent, BodySent
<1>4. FlattenSeq(<<>>) = <<>>
  BY EmptySeq DEF FlattenSeq
<1> QED  BY <1>1, <1>3, <1>4

\* One more frame carries its own fields and message more.
LEMMA SentGrows ==
    ASSUME NEW frames \in Seq(Frame), NEW n \in Nat, n < Len(frames)
    PROVE  /\ FieldsSent(SubSeq(frames, 1, n + 1))
                  = FieldsSent(SubSeq(frames, 1, n)) \o frames[n + 1].fields
           /\ BodySent(SubSeq(frames, 1, n + 1))
                  = BodySent(SubSeq(frames, 1, n)) \o frames[n + 1].body
<1>1. PICK N \in Nat : N = Len(frames)
  BY LenProperties
<1>2. \A i \in 1 .. N : frames[i] \in Frame
  BY <1>1, ElementOfSeq
<1>3. PICK short \in Seq(Frame) :
          /\ short = SubSeq(frames, 1, n)
          /\ Len(short) = n
          /\ \A i \in 1 .. n : short[i] = frames[i]
  <2>1. \A i \in 1 .. n : frames[i] \in Frame
    BY <1>1, <1>2
  <2>2. n \in Int /\ 1 \in Int
    OBVIOUS
  <2>3. /\ SubSeq(frames, 1, n) \in Seq(Frame)
        /\ Len(SubSeq(frames, 1, n)) = IF 1 <= n THEN n - 1 + 1 ELSE 0
        /\ \A i \in 1 .. n - 1 + 1 :
             SubSeq(frames, 1, n)[i] = frames[1 + i - 1]
    BY <2>1, <2>2, SubSeqProperties
  <2>4. /\ (IF 1 <= n THEN n - 1 + 1 ELSE 0) = n
        /\ n - 1 + 1 = n
        /\ \A i \in 1 .. n : 1 + i - 1 = i
    OBVIOUS
  <2> QED  BY <2>3, <2>4
<1>4. PICK long \in Seq(Frame) :
          /\ long = SubSeq(frames, 1, n + 1)
          /\ Len(long) = n + 1
          /\ \A i \in 1 .. n + 1 : long[i] = frames[i]
  <2>1. \A i \in 1 .. n + 1 : frames[i] \in Frame
    BY <1>1, <1>2
  <2>2. n + 1 \in Int /\ 1 \in Int
    OBVIOUS
  <2>3. /\ SubSeq(frames, 1, n + 1) \in Seq(Frame)
        /\ Len(SubSeq(frames, 1, n + 1))
               = IF 1 <= n + 1 THEN (n + 1) - 1 + 1 ELSE 0
        /\ \A i \in 1 .. (n + 1) - 1 + 1 :
             SubSeq(frames, 1, n + 1)[i] = frames[1 + i - 1]
    BY <2>1, <2>2, SubSeqProperties
  <2>4. /\ (IF 1 <= n + 1 THEN (n + 1) - 1 + 1 ELSE 0) = n + 1
        /\ (n + 1) - 1 + 1 = n + 1
        /\ \A i \in 1 .. n + 1 : 1 + i - 1 = i
    OBVIOUS
  <2> QED  BY <2>3, <2>4
<1>5. DOMAIN short = 1 .. n /\ DOMAIN long = 1 .. n + 1
  BY <1>3, <1>4, LenProperties
<1>6. ASSUME NEW S, NEW f, \A i \in 1 .. N : f[i] \in Seq(S)
      PROVE  FlattenSeq([i \in 1 .. n + 1 |-> f[i]])
                 = FlattenSeq([i \in 1 .. n |-> f[i]]) \o f[n + 1]
  <2> DEFINE P == Seq(S)
             a == [i \in 1 .. n |-> f[i]]
             b == [i \in 1 .. n + 1 |-> f[i]]
  <2>1. /\ n + 1 \in 1 .. N
        /\ \A i \in 1 .. n : i \in 1 .. N
        /\ \A i \in 1 .. n + 1 : i \in 1 .. N
    BY <1>1
  <2>2. a \in [1 .. n -> P] /\ b \in [1 .. n + 1 -> P] /\ f[n + 1] \in P
    BY <1>6, <2>1
  <2>3. /\ a \in Seq(P) /\ Len(a) = n /\ b \in Seq(P) /\ Len(b) = n + 1
        /\ \A i \in 1 .. n : a[i] = f[i]
        /\ \A i \in 1 .. n + 1 : b[i] = f[i]
    <3>1. n + 1 \in Nat
      OBVIOUS
    <3>2. /\ \A i \in 1 .. n : a[i] = f[i]
          /\ \A i \in 1 .. n + 1 : b[i] = f[i]
      OBVIOUS
    <3> HIDE DEF a, b, P
    <3> QED  BY <2>2, <3>1, <3>2
  <2> HIDE DEF a, b, P
  <2>4. PICK c \in Seq(P) : /\ c = Append(a, f[n + 1])
                            /\ Len(c) = n + 1
                            /\ \A i \in 1 .. n : c[i] = a[i]
                            /\ c[n + 1] = f[n + 1]
    BY <2>2, <2>3, AppendProperties
  <2>5. \A i \in 1 .. n + 1 : b[i] = c[i]
    <3> SUFFICES ASSUME NEW i \in 1 .. n + 1 PROVE b[i] = c[i]
      OBVIOUS
    <3>1. CASE i = n + 1
      BY <2>3, <2>4, <3>1
    <3>2. CASE i # n + 1
      <4>1. i \in 1 .. n
        BY <3>2, NotLast
      <4> QED  BY <2>3, <2>4, <4>1
    <3> QED  BY <3>1, <3>2
  <2>6. b = c
    BY <2>3, <2>4, <2>5, SeqEqual
  <2>7. FlattenSeq(Append(a, f[n + 1])) = FlattenSeq(a) \o f[n + 1]
    BY <2>2, <2>3, FlattenProperties DEF P
  <2> QED  BY <2>4, <2>6, <2>7 DEF a, b
<1>7. \A i \in 1 .. N : /\ frames[i].fields \in Seq(Representation)
                        /\ frames[i].body \in Seq(Bodies)
  BY <1>2 DEF Frame
<1> DEFINE F == [i \in 1 .. N |-> frames[i].fields]
           B == [i \in 1 .. N |-> frames[i].body]
<1>8. n + 1 \in 1 .. N /\ \A i \in 1 .. n + 1 : i \in 1 .. N
  BY <1>1
<1>9. /\ FieldsSent(long) = FlattenSeq([i \in 1 .. n + 1 |-> F[i]])
      /\ FieldsSent(short) = FlattenSeq([i \in 1 .. n |-> F[i]])
      /\ BodySent(long) = FlattenSeq([i \in 1 .. n + 1 |-> B[i]])
      /\ BodySent(short) = FlattenSeq([i \in 1 .. n |-> B[i]])
  <2>1. /\ [i \in 1 .. n + 1 |-> long[i].fields] = [i \in 1 .. n + 1 |-> F[i]]
        /\ [i \in 1 .. n |-> short[i].fields] = [i \in 1 .. n |-> F[i]]
        /\ [i \in 1 .. n + 1 |-> long[i].body] = [i \in 1 .. n + 1 |-> B[i]]
        /\ [i \in 1 .. n |-> short[i].body] = [i \in 1 .. n |-> B[i]]
    BY <1>3, <1>4, <1>8
  <2> QED  BY <1>5, <2>1 DEF FieldsSent, BodySent
<1>10. F[n + 1] = frames[n + 1].fields /\ B[n + 1] = frames[n + 1].body
  BY <1>8
<1>11. /\ \A i \in 1 .. N : F[i] \in Seq(Representation)
       /\ \A i \in 1 .. N : B[i] \in Seq(Bodies)
  BY <1>7
<1> HIDE DEF F, B
<1>12. /\ FieldsSent(long) = FieldsSent(short) \o F[n + 1]
       /\ BodySent(long) = BodySent(short) \o B[n + 1]
  BY <1>6, <1>9, <1>11
<1> QED  BY <1>3, <1>4, <1>10, <1>12

\* A block that is begun has no field.
LEMMA ReadsBegin ==
    ASSUME NEW enc, NEW t, Follows(enc, t)
    PROVE  Reads(t, Wire!Begin(enc), <<>>)
<1>1. PICK block : block = Wire!Begin(enc)
  OBVIOUS
<1>2. PICK reps \in Seq(Representation) : reps = <<>> /\ Len(reps) = 0
  BY EmptySeq
<1>3. block.enc = enc /\ block.out = reps
  BY <1>1, <1>2 DEF Wire!Begin
<1>4. enc \in Encoder /\ t \in Seq(Entry)
  BY FollowsType
<1>5. block \in Block
  BY <1>1, <1>2, <1>4 DEF Wire!Begin, Block
<1>6. Inserts(reps, Entry)
  BY <1>2 DEF Inserts
<1>7. Wire!Tables(t, reps)[0] = t
  <2>1. PICK N \in Nat : N = Len(reps) /\ N = 0
    BY <1>2
  <2>2. FollowsFrom(Wire!Tables(t, reps), t, reps, N)
    BY <1>4, <1>6, <2>1, TablesProperties
  <2> QED  BY <2>2 DEF FollowsFrom
<1>8. Wire!Fields(t, reps) = <<>>
  <2>1. DOMAIN reps = {}
    BY <1>2
  <2> QED  BY <2>1 DEF Wire!Fields
<1> QED  BY <1>1, <1>2, <1>3, <1>4, <1>5, <1>6, <1>7, <1>8 DEF Reads

\* The head of a response is read as the heading fields.
LEMMA ReadsHead ==
    ASSUME NEW enc, NEW t, Follows(enc, t)
    PROVE  /\ Reads(t, Wire!ReplyHead(enc), HeadingFields)
           /\ Wire!ReplyHead(enc).enc.rank_content_type # None
<1>1. Reads(t, Wire!Begin(enc), <<>>)
  BY ReadsBegin
<1>2. PICK b1, f1 : /\ b1 = Wire!encode_status_200(Wire!Begin(enc))
                    /\ f1 = Append(<<>>, Wire!Pair(":status", 200))
  OBVIOUS
<1>3. Reads(t, b1, f1)
  BY <1>1, <1>2, ReadsStatus200
<1>4. PICK b2, f2 : /\ b2 = Wire!encode_content_type(b1)
                    /\ f2 = Append(f1, ContentType)
  OBVIOUS
<1>5. Reads(t, b2, f2) /\ b2.enc.rank_content_type # None
  BY <1>3, <1>4, ReadsContentType
<1>6. PICK name \in HeaderNames, val \in HeaderTexts \cup Nat :
          name = "grpc-accept-encoding" /\ val = "gzip,deflate,zstd"
  BY DEF HeaderNames, HeaderTexts
<1>7. PICK b3 : b3 = Wire!Put(b2, Wire!Plain(name, val))
  OBVIOUS
<1>8. /\ Reads(t, b3, Append(f2, Wire!Pair(name, val)))
      /\ b3.enc = b2.enc
  BY <1>5, <1>7, ReadsPlain
<1>9. b3 = Wire!ReplyHead(enc)
  BY <1>2, <1>4, <1>6, <1>7, Zenon
     DEF Wire!ReplyHead, Wire!encode_grpc_accept_encoding
<1>10. Append(f2, Wire!Pair(name, val)) = HeadingFields
  BY <1>2, <1>4, <1>6, Zenon DEF HeadingFields
<1> QED  BY <1>5, <1>8, <1>9, <1>10

\* The trailers of a reply are what they would be at the end of its head.
LEMMA ZeroAlone ==
    ASSUME NEW head \in Block
    PROVE  \E rep \in Representation :
              /\ Wire!encode_grpc_status_zero(head).out = Append(head.out, rep)
              /\ Wire!encode_grpc_status_zero(Wire!Begin(head.enc)).out
                     = <<rep>>
              /\ Wire!encode_grpc_status_zero(Wire!Begin(head.enc)).enc
                     = Wire!encode_grpc_status_zero(head).enc
<1>1. PICK enc \in Encoder : enc = head.enc
  BY DEF Block
<1>2. PICK alone \in Block : /\ alone = Wire!Begin(enc)
                             /\ alone.enc = enc /\ alone.out = <<>>
  <2>1. Wire!Begin(enc) = [enc |-> enc, out |-> <<>>]
    BY DEF Wire!Begin
  <2>2. <<>> \in Seq(Representation)
    BY EmptySeq
  <2>3. [enc |-> enc, out |-> <<>>] \in Block
    BY <2>2 DEF Block
  <2>4. /\ [enc |-> enc, out |-> <<>>].enc = enc
        /\ [enc |-> enc, out |-> <<>>].out = <<>>
    OBVIOUS
  <2> QED  BY <2>1, <2>3, <2>4
<1>3. ASSUME NEW rep PROVE Append(<<>>, rep) = <<rep>>
  OBVIOUS
<1>4. CASE enc.rank_grpc_status_zero # None
  <2>1. PICK i \in Int : i = Wire!dynamic_index(enc, enc.rank_grpc_status_zero)
    BY <1>4 DEF Encoder, Wire!dynamic_index
  <2>2. PICK rep \in Representation : rep = Wire!Index(i)
    BY DEF Representation, Wire!Index
  <2>3. ASSUME NEW block \in Block, block.enc = enc
        PROVE  /\ Wire!encode_grpc_status_zero(block).out
                      = Append(block.out, rep)
               /\ Wire!encode_grpc_status_zero(block).enc = enc
    <3>1. Wire!encode_grpc_status_zero(block)
              = [block EXCEPT !.out = Append(@, rep)]
      BY <1>4, <2>1, <2>2, <2>3
         DEF Wire!encode_grpc_status_zero, Wire!Put
    <3> QED  BY <2>3, <3>1, PutProperties
  <2> QED  BY <1>1, <1>2, <1>3, <2>3
<1>5. CASE enc.rank_grpc_status_zero = None
  <2>1. PICK name \in HeaderNames, val \in HeaderTexts \cup Nat :
            name = "grpc-status" /\ val = 0
    BY DEF HeaderNames, HeaderTexts
  <2>2. PICK rep \in Representation : rep = Wire!Insert(name, val)
    BY DEF Representation, Wire!Insert
  <2>3. PICK e \in Encoder : e = Ranks(enc.dynamic_table_size + 1,
                                       enc.rank_grpc_status_zero,
                                       enc.rank_content_type)
    <3>1. /\ enc.dynamic_table_size + 1 \in Nat
          /\ enc.rank_grpc_status_zero \in Nat \cup {None}
          /\ enc.rank_content_type \in Nat \cup {None}
      BY DEF Encoder
    <3>2. Ranks(enc.dynamic_table_size + 1, enc.rank_grpc_status_zero,
                enc.rank_content_type) \in Encoder
      BY <3>1 DEF Encoder, Ranks
    <3> QED  BY <3>2
  <2>4. ASSUME NEW block \in Block, block.enc = enc
        PROVE  /\ Wire!encode_grpc_status_zero(block).out
                      = Append(block.out, rep)
               /\ Wire!encode_grpc_status_zero(block).enc
                      = [e EXCEPT !.rank_grpc_status_zero
                                      = e.dynamic_table_size]
    <3>1. PICK inserted :
              inserted = Wire!encode_and_index_header(block, name, val)
      OBVIOUS
    <3>2. /\ inserted \in Block
          /\ inserted.out = Append(block.out, rep)
          /\ inserted.enc = e
      BY <2>2, <2>3, <2>4, <3>1, InsertProperties
    <3>3. PICK longer : longer = Wire!encode_grpc_status_zero(block)
      OBVIOUS
    <3>4. longer = [inserted EXCEPT !.enc.rank_grpc_status_zero
                                        = inserted.enc.dynamic_table_size]
      BY <1>5, <2>1, <2>4, <3>1, <3>3, Zenon DEF Wire!encode_grpc_status_zero
    <3>5. longer = [inserted EXCEPT !.enc.rank_grpc_status_zero
                                        = e.dynamic_table_size]
      BY <3>2, <3>4
    <3>6. longer = [enc |-> [inserted.enc EXCEPT !.rank_grpc_status_zero
                                        = e.dynamic_table_size],
                    out |-> inserted.out]
      BY <3>2, <3>5 DEF Block
    <3> QED  BY <3>2, <3>3, <3>6
  <2> QED  BY <1>1, <1>2, <1>3, <2>4
<1> QED  BY <1>4, <1>5

\* Three fields head every response.
LEMMA HeadingFacts ==
    /\ Len(HeadingFields) = 3
    /\ HeadingFields[1] = Wire!Pair(":status", 200)
    /\ HeadingFields[2] = ContentType
    /\ HeadingFields[3] = Wire!Pair("grpc-accept-encoding", "gzip,deflate,zstd")
    /\ DOMAIN HeadingFields = 1 .. 3
    /\ \A S : (\A i \in 1 .. 3 : HeadingFields[i] \in S)
                  => HeadingFields \in Seq(S)
<1>1. PICK a, b, c : /\ a = Wire!Pair(":status", 200)
                     /\ b = ContentType
                     /\ c = Wire!Pair("grpc-accept-encoding",
                                      "gzip,deflate,zstd")
  OBVIOUS
<1>2. PICK T : T = {a, b, c}
  OBVIOUS
<1>3. a \in T /\ b \in T /\ c \in T
  BY <1>2
<1>4. /\ 0 \in Nat /\ 1 \in Nat /\ 2 \in Nat /\ 3 \in Nat
      /\ 0 + 1 = 1 /\ 1 + 1 = 2 /\ 2 + 1 = 3
      /\ 1 \in 1 .. 1 /\ 1 \in 1 .. 2 /\ 2 \in 1 .. 2
  OBVIOUS
<1>5. PICK s0 \in Seq(T) : s0 = <<>> /\ Len(s0) = 0
  BY EmptySeq
<1>6. PICK s1 \in Seq(T) : /\ s1 = Append(s0, a)
                           /\ Len(s1) = 1 /\ s1[1] = a
  <2>1. /\ Append(s0, a) \in Seq(T)
        /\ Len(Append(s0, a)) = 0 + 1
        /\ Append(s0, a)[0 + 1] = a
    BY <1>3, <1>4, <1>5, Appended
  <2> QED  BY <1>4, <2>1
<1>7. PICK s2 \in Seq(T) : /\ s2 = Append(s1, b)
                           /\ Len(s2) = 2 /\ s2[1] = a /\ s2[2] = b
  <2>1. /\ Append(s1, b) \in Seq(T)
        /\ Len(Append(s1, b)) = 1 + 1
        /\ \A i \in 1 .. 1 : Append(s1, b)[i] = s1[i]
        /\ Append(s1, b)[1 + 1] = b
    BY <1>3, <1>4, <1>6, Appended
  <2> QED  BY <1>4, <1>6, <2>1
<1>8. PICK s3 \in Seq(T) : /\ s3 = Append(s2, c) /\ Len(s3) = 3
                           /\ s3[1] = a /\ s3[2] = b /\ s3[3] = c
                           /\ DOMAIN s3 = 1 .. 3
  <2>1. /\ Append(s2, c) \in Seq(T)
        /\ Len(Append(s2, c)) = 2 + 1
        /\ \A i \in 1 .. 2 : Append(s2, c)[i] = s2[i]
        /\ Append(s2, c)[2 + 1] = c
        /\ DOMAIN Append(s2, c) = 1 .. 2 + 1
    BY <1>3, <1>4, <1>7, Appended
  <2> QED  BY <1>4, <1>7, <2>1
<1>9. s3 = HeadingFields
  BY <1>1, <1>5, <1>6, <1>7, <1>8, Zenon DEF HeadingFields
<1>10. ASSUME NEW S, \A i \in 1 .. 3 : s3[i] \in S PROVE s3 \in Seq(S)
  BY <1>4, <1>8, <1>10, Retyped
<1> QED  BY <1>1, <1>8, <1>9, <1>10

\* The fields of a response, one by one.
LEMMA FieldsFacts ==
    ASSUME NEW response \in Made
    PROVE  LET F == FieldsOf(response)
               n == IF response.ok THEN 4 ELSE 5
           IN  /\ Len(F) = n
               /\ DOMAIN F = 1 .. n
               /\ F[1] = Wire!Pair(":status", 200)
               /\ F[2] = ContentType
               /\ F[3] = Wire!Pair("grpc-accept-encoding",
                                   "gzip,deflate,zstd")
               /\ F[4] = Wire!Pair("grpc-status", response.code)
               /\ ~response.ok => F[5] = Wire!Pair("grpc-message", "")
               /\ \A S : (\A i \in 1 .. n : F[i] \in S) => F \in Seq(S)
<1>1. PICK F : F = FieldsOf(response)
  OBVIOUS
<1>2. PICK h : h = HeadingFields
  OBVIOUS
<1>3. PICK p, q : /\ p = Wire!Pair("grpc-status", response.code)
                  /\ q = Wire!Pair("grpc-message", "")
  OBVIOUS
<1>4. PICK S : S = {h[i] : i \in 1 .. 3} \cup {p, q}
  OBVIOUS
<1>5. h \in Seq(S) /\ p \in S /\ q \in S /\ Len(h) = 3
  <2>1. \A i \in 1 .. 3 : h[i] \in S
    BY <1>4
  <2>2. h \in Seq(S)
    BY <1>2, <2>1, HeadingFacts
  <2> QED  BY <1>2, <1>4, <2>2, HeadingFacts
<1>6. /\ 3 \in Nat /\ 4 \in Nat /\ 5 \in Nat /\ 3 + 1 = 4 /\ 4 + 1 = 5
      /\ 1 \in 1 .. 3 /\ 2 \in 1 .. 3 /\ 3 \in 1 .. 3
      /\ 1 \in 1 .. 4 /\ 2 \in 1 .. 4 /\ 3 \in 1 .. 4 /\ 4 \in 1 .. 4
  OBVIOUS
<1>7. PICK g \in Seq(S) : /\ g = Append(h, p) /\ Len(g) = 4
                          /\ g[1] = h[1] /\ g[2] = h[2] /\ g[3] = h[3]
                          /\ g[4] = p
                          /\ DOMAIN g = 1 .. 4
  <2>1. /\ Append(h, p) \in Seq(S)
        /\ Len(Append(h, p)) = 3 + 1
        /\ \A i \in 1 .. 3 : Append(h, p)[i] = h[i]
        /\ Append(h, p)[3 + 1] = p
        /\ DOMAIN Append(h, p) = 1 .. 3 + 1
    <3>1. PICK k \in Seq(S) : k = h /\ Len(k) = 3
      BY <1>5
    <3>2. /\ Append(k, p) \in Seq(S)
          /\ Len(Append(k, p)) = 3 + 1
          /\ \A i \in 1 .. 3 : Append(k, p)[i] = k[i]
          /\ Append(k, p)[3 + 1] = p
          /\ DOMAIN Append(k, p) = 1 .. 3 + 1
      <4>1. 3 \in Nat /\ p \in S
        BY <1>5
      <4> QED  BY <3>1, <4>1, Appended, SMTT(60)
    <3> QED  BY <3>1, <3>2
  <2> QED  BY <1>6, <2>1
<1>8. CASE response.ok
  <2>1. response.code = 0
    BY <1>8 DEF Made, Reply, Status
  <2>2. p = StatusZero
    BY <1>3, <2>1 DEF StatusZero
  <2>3. F = g
    BY <1>1, <1>2, <1>7, <1>8, <2>2 DEF FieldsOf
  <2>4. ASSUME NEW T, \A i \in 1 .. 4 : g[i] \in T PROVE g \in Seq(T)
    BY <1>6, <1>7, <2>4, Retyped
  <2>5. /\ F[1] = Wire!Pair(":status", 200)
        /\ F[2] = ContentType
        /\ F[3] = Wire!Pair("grpc-accept-encoding", "gzip,deflate,zstd")
    BY <1>2, <1>7, <2>3, HeadingFacts
  <2>6. F[4] = Wire!Pair("grpc-status", response.code)
    BY <1>3, <1>7, <2>3
  <2>7. Len(F) = 4 /\ DOMAIN F = 1 .. 4
    BY <1>7, <2>3
  <2>8. \A T : (\A i \in 1 .. 4 : F[i] \in T) => F \in Seq(T)
    BY <2>3, <2>4
  <2> QED  BY <1>1, <1>8, <2>5, <2>6, <2>7, <2>8
<1>9. CASE ~response.ok
  <2>1. F = Append(g, q)
    BY <1>1, <1>2, <1>3, <1>7, <1>9 DEF FieldsOf
  <2>2. PICK f \in Seq(S) : /\ f = Append(g, q) /\ Len(f) = 5
                            /\ f[1] = g[1] /\ f[2] = g[2] /\ f[3] = g[3]
                            /\ f[4] = g[4] /\ f[5] = q
                            /\ DOMAIN f = 1 .. 5
    <3>1. /\ Append(g, q) \in Seq(S)
          /\ Len(Append(g, q)) = 4 + 1
          /\ \A i \in 1 .. 4 : Append(g, q)[i] = g[i]
          /\ Append(g, q)[4 + 1] = q
          /\ DOMAIN Append(g, q) = 1 .. 4 + 1
      BY <1>5, <1>6, <1>7, Appended
    <3> QED  BY <1>6, <3>1
  <2>3. ASSUME NEW T, \A i \in 1 .. 5 : f[i] \in T PROVE f \in Seq(T)
    BY <1>6, <2>2, <2>3, Retyped
  <2>4. F = f
    BY <2>1, <2>2
  <2>5. /\ F[1] = Wire!Pair(":status", 200)
        /\ F[2] = ContentType
        /\ F[3] = Wire!Pair("grpc-accept-encoding", "gzip,deflate,zstd")
    BY <1>2, <1>7, <2>2, <2>4, HeadingFacts
  <2>6. /\ F[4] = Wire!Pair("grpc-status", response.code)
        /\ F[5] = Wire!Pair("grpc-message", "")
    BY <1>3, <1>7, <2>2, <2>4
  <2>7. Len(F) = 5 /\ DOMAIN F = 1 .. 5
    BY <2>2, <2>4
  <2>8. \A T : (\A i \in 1 .. 5 : F[i] \in T) => F \in Seq(T)
    BY <2>3, <2>4
  <2> QED  BY <1>1, <1>9, <2>5, <2>6, <2>7, <2>8
<1> QED  BY <1>8, <1>9

\* Fields the client could read.
Readable(fields) ==
    \A i \in DOMAIN fields : fields[i].name # Wire!Unknown.name

\* The client can read the fields of every response.
LEMMA AllReadable ==
    /\ Readable(<<>>)
    /\ Readable(HeadingFields)
    /\ \A response \in Made : Readable(FieldsOf(response))
<1>1. \A name, val : Wire!Pair(name, val).name = name
  BY DEF Wire!Pair
<1>2. Wire!Unknown.name = "unknown"
  BY <1>1 DEF Wire!Unknown
<1>3. Readable(<<>>)
  BY DEF Readable
<1>4. ContentType.name = "content-type"
  BY <1>1 DEF ContentType
<1>5. Readable(HeadingFields)
  <2>1. PICK h : h = HeadingFields
    OBVIOUS
  <2>2. /\ DOMAIN h = 1 .. 3
        /\ h[1].name = ":status" /\ h[2].name = "content-type"
        /\ h[3].name = "grpc-accept-encoding"
    <3>1. /\ h[1] = Wire!Pair(":status", 200) /\ h[2] = ContentType
          /\ h[3] = Wire!Pair("grpc-accept-encoding", "gzip,deflate,zstd")
      BY <2>1, HeadingFacts
    <3>2. DOMAIN h = 1 .. 3
      BY <2>1, HeadingFacts
    <3> QED  BY <1>1, <1>4, <3>1, <3>2, Zenon
  <2>3. \A i \in 1 .. 3 : i = 1 \/ i = 2 \/ i = 3
    OBVIOUS
  <2> QED  BY <1>2, <2>1, <2>2, <2>3 DEF Readable
<1>6. ASSUME NEW response \in Made PROVE Readable(FieldsOf(response))
  <2>1. PICK F : F = FieldsOf(response)
    OBVIOUS
  <2>2. DOMAIN F = 1 .. (IF response.ok THEN 4 ELSE 5)
    BY <2>1, FieldsFacts
  <2>3. /\ F[1].name = ":status" /\ F[2].name = "content-type"
        /\ F[3].name = "grpc-accept-encoding" /\ F[4].name = "grpc-status"
    <3>1. /\ F[1] = Wire!Pair(":status", 200) /\ F[2] = ContentType
          /\ F[3] = Wire!Pair("grpc-accept-encoding", "gzip,deflate,zstd")
          /\ F[4] = Wire!Pair("grpc-status", response.code)
      BY <2>1, FieldsFacts
    <3>2. /\ Wire!Pair(":status", 200).name = ":status"
          /\ Wire!Pair("grpc-accept-encoding", "gzip,deflate,zstd").name
                 = "grpc-accept-encoding"
          /\ Wire!Pair("grpc-status", response.code).name = "grpc-status"
      BY <1>1, Zenon
    <3> QED  BY <1>4, <3>1, <3>2, Zenon
  <2>5. ASSUME ~response.ok PROVE F[5].name = "grpc-message"
    <3>1. F[5] = Wire!Pair("grpc-message", "")
      BY <2>1, <2>5, FieldsFacts
    <3>2. Wire!Pair("grpc-message", "").name = "grpc-message"
      BY <1>1, Zenon
    <3> QED  BY <3>1, <3>2, Zenon
  <2>4. \A i \in 1 .. (IF response.ok THEN 4 ELSE 5) :
            i = 1 \/ i = 2 \/ i = 3 \/ i = 4 \/ (~response.ok /\ i = 5)
    OBVIOUS
  <2> QED  BY <1>2, <2>1, <2>2, <2>3, <2>4, <2>5 DEF Readable
<1> QED  BY <1>3, <1>5, <1>6

\* What one frame carries is what its beginning of a stream carries.
LEMMA SentOne ==
    ASSUME NEW frames \in Seq(Frame), Len(frames) = 1
    PROVE  /\ FieldsSent(SubSeq(frames, 1, 1)) = frames[1].fields
           /\ BodySent(SubSeq(frames, 1, 1)) = frames[1].body
<1>1. 0 \in Nat /\ 0 < Len(frames) /\ 0 + 1 = 1 /\ 1 \in 1 .. Len(frames)
  OBVIOUS
<1>2. frames[1] \in Frame
  BY <1>1, ElementOfSeq
<1>3. /\ FieldsSent(SubSeq(frames, 1, 0 + 1))
             = FieldsSent(SubSeq(frames, 1, 0)) \o frames[0 + 1].fields
      /\ BodySent(SubSeq(frames, 1, 0 + 1))
             = BodySent(SubSeq(frames, 1, 0)) \o frames[0 + 1].body
  BY <1>1, SentGrows
<1>4. PICK f \in Seq(Representation), b \in Seq(Bodies) :
          f = frames[1].fields /\ b = frames[1].body
  BY <1>2 DEF Frame
<1>5. <<>> \o f = f /\ <<>> \o b = b
  BY ConcatEmptySeq
<1> QED  BY <1>1, <1>3, <1>4, <1>5, SentNothing

\* A head that carries fields, a message, and trailers with one field.
LEMMA SentThree ==
    ASSUME NEW frames \in Seq(Frame), Len(frames) = 3,
           NEW rep \in Representation, NEW message,
           frames[1].body = <<>>,
           frames[2].fields = <<>>, frames[2].body = <<message>>,
           frames[3].fields = <<rep>>, frames[3].body = <<>>
    PROVE  /\ FieldsSent(SubSeq(frames, 1, 1)) = frames[1].fields
           /\ FieldsSent(SubSeq(frames, 1, 2)) = frames[1].fields
           /\ FieldsSent(SubSeq(frames, 1, 3)) = Append(frames[1].fields, rep)
           /\ BodySent(SubSeq(frames, 1, 3)) = <<message>>
<1>1. /\ 0 \in Nat /\ 1 \in Nat /\ 2 \in Nat
      /\ 0 + 1 = 1 /\ 1 + 1 = 2 /\ 2 + 1 = 3
  OBVIOUS
<1>2. 0 < Len(frames) /\ 1 < Len(frames) /\ 2 < Len(frames)
  OBVIOUS
<1>3. frames[1] \in Frame /\ frames[2] \in Frame
  <2>1. 1 \in 1 .. Len(frames) /\ 2 \in 1 .. Len(frames)
    OBVIOUS
  <2> QED  BY <2>1, ElementOfSeq
<1>4. PICK f \in Seq(Representation) : f = frames[1].fields
  BY <1>3 DEF Frame
<1>5. PICK m \in Seq(Bodies) : m = frames[2].body
  BY <1>3 DEF Frame
<1>6. /\ FieldsSent(SubSeq(frames, 1, 1))
             = FieldsSent(SubSeq(frames, 1, 0)) \o frames[1].fields
      /\ BodySent(SubSeq(frames, 1, 1))
             = BodySent(SubSeq(frames, 1, 0)) \o frames[1].body
  <2>1. /\ FieldsSent(SubSeq(frames, 1, 0 + 1))
               = FieldsSent(SubSeq(frames, 1, 0)) \o frames[0 + 1].fields
        /\ BodySent(SubSeq(frames, 1, 0 + 1))
               = BodySent(SubSeq(frames, 1, 0)) \o frames[0 + 1].body
    BY <1>1, <1>2, SentGrows
  <2> QED  BY <1>1, <2>1
<1>7. /\ FieldsSent(SubSeq(frames, 1, 2))
             = FieldsSent(SubSeq(frames, 1, 1)) \o frames[2].fields
      /\ BodySent(SubSeq(frames, 1, 2))
             = BodySent(SubSeq(frames, 1, 1)) \o frames[2].body
  <2>1. /\ FieldsSent(SubSeq(frames, 1, 1 + 1))
               = FieldsSent(SubSeq(frames, 1, 1)) \o frames[1 + 1].fields
        /\ BodySent(SubSeq(frames, 1, 1 + 1))
               = BodySent(SubSeq(frames, 1, 1)) \o frames[1 + 1].body
    BY <1>1, <1>2, SentGrows
  <2> QED  BY <1>1, <2>1
<1>8. /\ FieldsSent(SubSeq(frames, 1, 3))
             = FieldsSent(SubSeq(frames, 1, 2)) \o frames[3].fields
      /\ BodySent(SubSeq(frames, 1, 3))
             = BodySent(SubSeq(frames, 1, 2)) \o frames[3].body
  <2>1. /\ FieldsSent(SubSeq(frames, 1, 2 + 1))
               = FieldsSent(SubSeq(frames, 1, 2)) \o frames[2 + 1].fields
        /\ BodySent(SubSeq(frames, 1, 2 + 1))
               = BodySent(SubSeq(frames, 1, 2)) \o frames[2 + 1].body
    BY <1>1, <1>2, SentGrows
  <2> QED  BY <1>1, <2>1
<1>9. FieldsSent(SubSeq(frames, 1, 1)) = f
  <2>1. <<>> \o f = f
    BY ConcatEmptySeq
  <2> QED  BY <1>4, <1>6, <2>1, SentNothing
<1>10. FieldsSent(SubSeq(frames, 1, 2)) = f
  <2>1. f \o <<>> = f
    BY ConcatEmptySeq
  <2> QED  BY <1>7, <1>9, <2>1
<1>11. FieldsSent(SubSeq(frames, 1, 3)) = Append(f, rep)
  <2>1. f \o <<rep>> = Append(f, rep)
    OBVIOUS
  <2> QED  BY <1>8, <1>10, <2>1
<1>12. BodySent(SubSeq(frames, 1, 1)) = <<>>
  <2>1. <<>> \o <<>> = <<>>
    OBVIOUS
  <2> QED  BY <1>6, <2>1, SentNothing
<1>13. BodySent(SubSeq(frames, 1, 2)) = m
  <2>1. <<>> \o m = m
    BY ConcatEmptySeq
  <2> QED  BY <1>5, <1>7, <1>12, <2>1
<1>14. BodySent(SubSeq(frames, 1, 3)) = m
  <2>1. m \o <<>> = m
    BY ConcatEmptySeq
  <2> QED  BY <1>8, <1>13, <2>1
<1> QED  BY <1>4, <1>5, <1>9, <1>10, <1>11, <1>14

\* A client with table t reads fields in frames.
Hears(t, frames, block, fields) ==
    /\ Reads(t, block, fields)
    /\ block.out = FieldsSent(frames)
    /\ Readable(fields)

\* The frames of a response: only the last ends the stream, a client can read
\* as many of them as it gets, and all of them say what the response says and
\* leave the encoder and the client with tables that match.
Says(t, built, response) ==
    LET frames == built.frames
        N == Len(frames)
    IN  /\ frames \in Seq(Frame)
        /\ N \in {1, 3}
        /\ \A i \in 1 .. N : frames[i].end <=> i = N
        /\ \A n \in 0 .. N : \E block, fields :
               Hears(t, SubSeq(frames, 1, n), block, fields)
        /\ \E block : /\ Hears(t, SubSeq(frames, 1, N), block,
                               FieldsOf(response))
                      /\ block.enc = built.enc
        /\ BodySent(SubSeq(frames, 1, N)) = BodyOf(response)

\* In no frame a client reads no field.
LEMMA HearsNothing ==
    ASSUME NEW enc, NEW t, Follows(enc, t), NEW frames
    PROVE  Hears(t, SubSeq(frames, 1, 0), Wire!Begin(enc), <<>>)
<1>1. PICK block : block = Wire!Begin(enc)
  OBVIOUS
<1>2. Reads(t, block, <<>>)
  BY <1>1, ReadsBegin
<1>3. block.out = <<>>
  BY <1>1 DEF Wire!Begin
<1> QED  BY <1>1, <1>2, <1>3, SentNothing, AllReadable DEF Hears

\* The frame of an error status says what the status says.
LEMMA StatusSays ==
    ASSUME NEW enc, NEW t, Follows(enc, t), NEW response \in Made,
           ~response.ok
    PROVE  Says(t, BuiltFor(enc, response), response)
<1>1. PICK code \in Nat : code = response.code
  BY DEF Made, Reply, Status, NOT_FOUND, UNAVAILABLE
<1>2. PICK b1 : b1 = Wire!ReplyHead(enc)
  OBVIOUS
<1>3. Reads(t, b1, HeadingFields)
  BY <1>2, ReadsHead
<1>4. PICK b2, f2 : /\ b2 = Wire!encode_grpc_status_nonzero(b1, code)
                    /\ f2 = Append(HeadingFields,
                                   Wire!Pair("grpc-status", code))
  OBVIOUS
<1>5. Reads(t, b2, f2)
  BY <1>3, <1>4, ReadsStatusNonzero
<1>6. PICK b3 : b3 = Wire!encode_grpc_message(b2, "")
  OBVIOUS
<1>7. PICK name \in HeaderNames, val \in HeaderTexts \cup Nat :
          name = "grpc-message" /\ val = ""
  BY DEF HeaderNames, HeaderTexts
<1>8. b3 = Wire!Put(b2, Wire!Plain(name, val))
  BY <1>6, <1>7, Zenon DEF Wire!encode_grpc_message
<1>9. Reads(t, b3, Append(f2, Wire!Pair(name, val)))
  BY <1>5, <1>8, ReadsPlain
<1>10. Append(f2, Wire!Pair(name, val)) = FieldsOf(response)
  BY <1>1, <1>4, <1>7, Zenon DEF FieldsOf
<1>11. PICK built : built = BuiltFor(enc, response)
  OBVIOUS
<1>12. PICK frame : frame = Wire!Headers(b3, TRUE)
  OBVIOUS
<1>13. built.frames = <<frame>> /\ built.enc = b3.enc
  <2>1. built = Wire!build_status(enc, code)
    BY <1>1, <1>11, Zenon DEF BuiltFor
  <2>2. built = Wire!Built(<<frame>>, b3.enc)
    BY <1>2, <1>4, <1>6, <1>12, <2>1, Zenon DEF Wire!build_status
  <2> QED  BY <2>2 DEF Wire!Built
<1>14. /\ frame.fields = b3.out /\ frame.body = <<>> /\ frame.end = TRUE
       /\ frame \in Frame
  <2>1. frame = [fields |-> b3.out, body |-> <<>>, end |-> TRUE]
    BY <1>12 DEF Wire!Headers
  <2>2. b3.out \in Seq(Representation)
    BY <1>9 DEF Reads, Block
  <2>3. <<>> \in Seq(Bodies)
    BY EmptySeq
  <2>4. [fields |-> b3.out, body |-> <<>>, end |-> TRUE] \in Frame
    BY <2>2, <2>3 DEF Frame
  <2> QED  BY <2>1, <2>4
<1>15. PICK frames \in Seq(Frame) : /\ frames = <<frame>>
                                    /\ Len(frames) = 1
                                    /\ frames[1] = frame
  <2>1. frame \in Frame
    BY <1>14
  <2> QED  BY <2>1, OneOf
<1>16. /\ FieldsSent(SubSeq(frames, 1, 1)) = b3.out
       /\ BodySent(SubSeq(frames, 1, 1)) = <<>>
  BY <1>14, <1>15, SentOne
<1>17. Hears(t, SubSeq(frames, 1, 1), b3, FieldsOf(response))
  BY <1>9, <1>10, <1>16, AllReadable DEF Hears
<1>18. \A n \in 0 .. 1 : \E block, fields :
           Hears(t, SubSeq(frames, 1, n), block, fields)
  <2> SUFFICES ASSUME NEW n \in 0 .. 1
               PROVE  \E block, fields :
                          Hears(t, SubSeq(frames, 1, n), block, fields)
    OBVIOUS
  <2>1. n = 0 \/ n = 1
    OBVIOUS
  <2>2. CASE n = 0
    BY <2>2, HearsNothing
  <2>3. CASE n = 1
    BY <2>3, <1>17
  <2> QED  BY <2>1, <2>2, <2>3
<1>19. \A i \in 1 .. 1 : frames[i].end <=> i = 1
  BY <1>14, <1>15
<1>20. BodyOf(response) = <<>>
  BY DEF BodyOf
<1>21. built.frames = frames
  BY <1>13, <1>15
<1>22. Says(t, built, response)
  BY <1>13, <1>15, <1>16, <1>17, <1>18, <1>19, <1>20, <1>21, Zenon DEF Says
<1> QED  BY <1>11, <1>22

\* The frames of a reply say what the reply says.
LEMMA ReplySays ==
    ASSUME NEW enc, NEW t, Follows(enc, t), NEW response \in Made,
           response.ok
    PROVE  Says(t, BuiltFor(enc, response), response)
<1>1. PICK body \in Bodies : body = response.body
  BY DEF Made, Reply, Status
<1>2. PICK head : head = Wire!ReplyHead(enc)
  OBVIOUS
<1>3. /\ Reads(t, head, HeadingFields)
      /\ head.enc.rank_content_type # None
  BY <1>2, ReadsHead
<1>4. PICK full : full = Wire!encode_grpc_status_zero(head)
  OBVIOUS
<1>5. Reads(t, full, Append(HeadingFields, StatusZero))
  BY <1>3, <1>4, ReadsStatusZero
<1>6. Append(HeadingFields, StatusZero) = FieldsOf(response)
  BY DEF FieldsOf
<1>7. PICK trailers : trailers = Wire!encode_grpc_status_zero(Wire!Begin(head.enc))
  OBVIOUS
<1>8. head \in Block
  BY <1>3 DEF Reads
<1>9. PICK rep \in Representation : /\ full.out = Append(head.out, rep)
                                    /\ trailers.out = <<rep>>
                                    /\ trailers.enc = full.enc
  BY <1>4, <1>7, <1>8, ZeroAlone
<1>10. PICK a, b, c : /\ a = Wire!Headers(head, FALSE)
                      /\ b = Wire!Data(body)
                      /\ c = Wire!Headers(trailers, TRUE)
  OBVIOUS
<1>11. PICK built : built = BuiltFor(enc, response)
  OBVIOUS
<1>12. built.frames = <<a, b, c>> /\ built.enc = full.enc
  <2>1. built = Wire!build_response(enc, body)
    BY <1>1, <1>11, Zenon DEF BuiltFor
  <2>2. built = Wire!Built(<<a, b, c>>, trailers.enc)
    BY <1>2, <1>7, <1>10, <2>1, Zenon DEF Wire!build_response
  <2> QED  BY <1>9, <2>2 DEF Wire!Built
<1>13. /\ a.fields = head.out /\ a.body = <<>> /\ a.end = FALSE
       /\ a \in Frame
  <2>1. a = [fields |-> head.out, body |-> <<>>, end |-> FALSE]
    BY <1>10 DEF Wire!Headers
  <2>2. head.out \in Seq(Representation)
    BY <1>8 DEF Block
  <2>3. <<>> \in Seq(Bodies)
    BY EmptySeq
  <2>4. [fields |-> head.out, body |-> <<>>, end |-> FALSE] \in Frame
    BY <2>2, <2>3 DEF Frame
  <2> QED  BY <2>1, <2>4
<1>14. /\ b.fields = <<>> /\ b.body = <<body>> /\ b.end = FALSE
       /\ b \in Frame
  <2>1. b = [fields |-> <<>>, body |-> <<body>>, end |-> FALSE]
    BY <1>10 DEF Wire!Data
  <2>2. <<body>> \in Seq(Bodies)
    OBVIOUS
  <2>3. <<>> \in Seq(Representation)
    BY EmptySeq
  <2>4. [fields |-> <<>>, body |-> <<body>>, end |-> FALSE] \in Frame
    BY <2>2, <2>3 DEF Frame
  <2> QED  BY <2>1, <2>4
<1>15. /\ c.fields = <<rep>> /\ c.body = <<>> /\ c.end = TRUE
       /\ c \in Frame
  <2>1. c = [fields |-> <<rep>>, body |-> <<>>, end |-> TRUE]
    BY <1>9, <1>10 DEF Wire!Headers
  <2>2. <<rep>> \in Seq(Representation)
    OBVIOUS
  <2>3. <<>> \in Seq(Bodies)
    BY EmptySeq
  <2>4. [fields |-> <<rep>>, body |-> <<>>, end |-> TRUE] \in Frame
    BY <2>2, <2>3 DEF Frame
  <2> QED  BY <2>1, <2>4
<1>16. PICK frames \in Seq(Frame) :
           /\ frames = <<a, b, c>> /\ Len(frames) = 3
           /\ frames[1] = a /\ frames[2] = b /\ frames[3] = c
  <2>1. a \in Frame /\ b \in Frame /\ c \in Frame
    BY <1>13, <1>14, <1>15
  <2>2. <<a, b, c>> \in Seq(Frame)
    BY <2>1, ThreeOf
  <2>3. /\ Len(<<a, b, c>>) = 3 /\ <<a, b, c>>[1] = a
        /\ <<a, b, c>>[2] = b /\ <<a, b, c>>[3] = c
    BY <2>1, ThreeOf
  <2> QED  BY <2>2, <2>3, Zenon
<1>17. /\ FieldsSent(SubSeq(frames, 1, 1)) = head.out
       /\ FieldsSent(SubSeq(frames, 1, 2)) = head.out
       /\ FieldsSent(SubSeq(frames, 1, 3)) = full.out
       /\ BodySent(SubSeq(frames, 1, 3)) = <<body>>
  <2>1. /\ frames[1].body = <<>>
        /\ frames[2].fields = <<>> /\ frames[2].body = <<body>>
        /\ frames[3].fields = <<rep>> /\ frames[3].body = <<>>
    BY <1>13, <1>14, <1>15, <1>16, Zenon
  <2>2. /\ FieldsSent(SubSeq(frames, 1, 1)) = frames[1].fields
        /\ FieldsSent(SubSeq(frames, 1, 2)) = frames[1].fields
        /\ FieldsSent(SubSeq(frames, 1, 3)) = Append(frames[1].fields, rep)
        /\ BodySent(SubSeq(frames, 1, 3)) = <<body>>
    BY <1>16, <2>1, SentThree
  <2>3. frames[1].fields = head.out
    BY <1>13, <1>16
  <2> QED  BY <1>9, <2>2, <2>3
<1>18. /\ Hears(t, SubSeq(frames, 1, 1), head, HeadingFields)
       /\ Hears(t, SubSeq(frames, 1, 2), head, HeadingFields)
  BY <1>3, <1>17, AllReadable DEF Hears
<1>19. Hears(t, SubSeq(frames, 1, 3), full, FieldsOf(response))
  BY <1>5, <1>6, <1>17, AllReadable DEF Hears
<1>20. \A n \in 0 .. 3 : \E block, fields :
           Hears(t, SubSeq(frames, 1, n), block, fields)
  <2> SUFFICES ASSUME NEW n \in 0 .. 3
               PROVE  \E block, fields :
                          Hears(t, SubSeq(frames, 1, n), block, fields)
    OBVIOUS
  <2>1. n = 0 \/ n = 1 \/ n = 2 \/ n = 3
    OBVIOUS
  <2>2. CASE n = 0
    BY <2>2, HearsNothing
  <2>3. CASE n = 1 \/ n = 2
    BY <2>3, <1>18
  <2>4. CASE n = 3
    BY <2>4, <1>19
  <2> QED  BY <2>1, <2>2, <2>3, <2>4
<1>21. \A i \in 1 .. 3 : frames[i].end <=> i = 3
  <2> SUFFICES ASSUME NEW i \in 1 .. 3 PROVE frames[i].end <=> i = 3
    OBVIOUS
  <2>1. i = 1 \/ i = 2 \/ i = 3
    OBVIOUS
  <2> QED  BY <1>13, <1>14, <1>15, <1>16, <2>1
<1>22. BodyOf(response) = <<body>>
  BY <1>1 DEF BodyOf
<1>23. built.frames = frames
  BY <1>12, <1>16
<1>24. Says(t, built, response)
  BY <1>12, <1>16, <1>17, <1>19, <1>20, <1>21, <1>22, <1>23, Zenon DEF Says
<1> QED  BY <1>11, <1>24

\* The frames of every response say what the response says.
LEMMA BuiltSays ==
    ASSUME NEW enc, NEW t, Follows(enc, t), NEW response \in Made
    PROVE  Says(t, BuiltFor(enc, response), response)
<1>1. CASE response.ok
  BY <1>1, ReplySays
<1>2. CASE ~response.ok
  BY <1>2, StatusSays
<1> QED  BY <1>1, <1>2

-----------------------------------------------------------------------------
(* The inductive invariant                                                 *)

\* A shard's dictionary.
Dictionary == UNION {[some -> Values] : some \in SUBSET Keys}

\* A job of the writer.
Job == [sid : Requests, response : Made]

\* Every variable has its type.
Typed ==
    /\ requests \in [Requests -> Operations \cup {None}]
    /\ handlers \subseteq Requests
    /\ queue \in [Shards -> Seq(Requests)]
    /\ running \in [Shards -> SUBSET Requests]
    /\ dict \in [Shards -> Dictionary]
    /\ alive \subseteq Shards
    /\ results \in [Requests -> Made \cup {None}]
    /\ chan \in Seq(Job)
    /\ taken \in Nat /\ taken <= Len(chan)
    /\ DOMAIN answers = Requests

\* A request that waits for its response at shard s.
Waits(r, s) ==
    /\ requests[r] # None
    /\ dispatch_to(requests[r]) = s
    /\ results[r] = None
    /\ r \notin handlers

\* A request without a response is in one place at most.
Places ==
    /\ \A r \in handlers : requests[r] # None /\ results[r] = None
    /\ \A s \in Shards :
         /\ \A i \in 1 .. Len(queue[s]) : Waits(queue[s][i], s)
         /\ \A i, j \in 1 .. Len(queue[s]) :
                queue[s][i] = queue[s][j] => i = j
         /\ \A r \in running[s] :
                /\ Waits(r, s)
                /\ running[s] = {r}
                /\ \A i \in 1 .. Len(queue[s]) : queue[s][i] # r
         /\ s \notin alive => queue[s] = <<>> /\ running[s] = {}
    /\ \A r \in Requests : requests[r] = None => results[r] = None

\* A shard holds the keys that hash to it.
OwnKeys ==
    \A s \in Shards : \A key \in DOMAIN dict[s] : hash_key[key] % NumShards = s

\* The jobs are the responses, one for each request that has one.
Jobs ==
    /\ \A i \in 1 .. Len(chan) : results[chan[i].sid] = chan[i].response
    /\ \A i, j \in 1 .. Len(chan) : chan[i].sid = chan[j].sid => i = j

\* What the client has read on a stream: nothing before there is a response,
\* and all of the response once the stream has ended.
ReadOf(r) ==
    /\ results[r] = None => answers[r] = Wire!Nothing
    /\ answers[r].ended =>
         /\ results[r] # None
         /\ answers[r].fields = FieldsOf(results[r])
         /\ answers[r].body = BodyOf(results[r])

\* As long as the writer runs, the client's table is the encoder's and the
\* client has read nothing of the jobs that are left.
Writes ==
    writer = "running" =>
        /\ Follows(encoder, table)
        /\ \A i \in 1 .. Len(chan) :
               i > taken => answers[chan[i].sid] = Wire!Nothing

\* The inductive invariant.
AInv ==
    /\ Typed
    /\ Places
    /\ OwnKeys
    /\ Jobs
    /\ \A r \in Requests : ReadOf(r)
    /\ Writes
    /\ ~confused

\* dispatch_to names a shard.
LEMMA PartInShards ==
    ASSUME NEW request \in Operations
    PROVE  dispatch_to(request) \in Shards
<1>1. request \in RequestType
  BY OperationsAssumption
<1>2. NumShards \in Nat \ {0} /\ hash_key \in [Keys -> Nat]
  BY ShardsAssumption
<1>3. \A n \in Nat : n % NumShards \in Shards
  BY <1>2 DEF Shards
<1>4. CASE request \in [op : {"get", "delete"}, key : Keys]
              \cup [op : {"set"}, key : Keys, value : Values]
  <2>1. request.op \in {"get", "set", "delete"} /\ request.key \in Keys
    BY <1>4
  <2>2. dispatch_to(request) = hash_key[request.key] % NumShards
    BY <2>1 DEF dispatch_to
  <2> QED  BY <1>2, <1>3, <2>1, <2>2
<1>5. CASE request \in [op : {"list"}, shard : Nat]
  <2>1. request.op = "list" /\ request.shard \in Nat
    BY <1>5
  <2>2. dispatch_to(request) = request.shard % NumShards
    BY <2>1 DEF dispatch_to
  <2> QED  BY <1>3, <2>1, <2>2
<1> QED  BY <1>1, <1>4, <1>5 DEF RequestType

\* Responses and requests are not None.
LEMMA NotNone ==
    /\ None \notin Made
    /\ None \notin Operations
    /\ None \notin Values
<1>1. None \notin ResponseType /\ None \notin RequestType
  BY NoneAssumption
<1>2. \A body \in Bodies : Reply(body) \in ResponseType
  BY DEF Bodies, Reply, ResponseType
<1>3. \A code \in Nat : Status(code) \in ResponseType
  BY DEF Status, ResponseType
<1>4. Made \subseteq ResponseType
  BY <1>2, <1>3 DEF Made, NOT_FOUND, UNAVAILABLE
<1> QED  BY <1>1, <1>4, OperationsAssumption, ShardsAssumption

\* The keys and values of a dictionary.
LEMMA DictionaryFacts ==
    ASSUME NEW d \in Dictionary
    PROVE  DOMAIN d \subseteq Keys /\ d \in [DOMAIN d -> Values]
  BY DEF Dictionary

\* A function from keys to values is a dictionary.
LEMMA DictionaryIs ==
    ASSUME NEW some \in SUBSET Keys, NEW d \in [some -> Values]
    PROVE  d \in Dictionary
  BY DEF Dictionary

\* What a lookup replies is a response.
LEMMA LookupMade ==
    ASSUME NEW d \in Dictionary, NEW key
    PROVE  Lookup(d, key) \in Made
<1>1. CASE key \in DOMAIN d
  <2>1. d[key] \in Bodies
    BY <1>1, DictionaryFacts DEF Bodies
  <2>2. Reply(d[key]) \in Made
    BY <2>1 DEF Made
  <2> QED  BY <1>1, <2>2 DEF Lookup
<1>2. CASE key \notin DOMAIN d
  <2>1. Status(NOT_FOUND) \in Made
    BY DEF Made
  <2> QED  BY <1>2, <2>1 DEF Lookup
<1> QED  BY <1>1, <1>2

\* What a method makes of a shard's dictionary.
LEMMA Handled ==
    ASSUME NEW d \in Dictionary, NEW request \in Operations
    PROVE  LET done == handle_request(d, request)
           IN  /\ done.reply \in Made
               /\ done.dict \in Dictionary
               /\ \A key \in DOMAIN done.dict :
                      key \in DOMAIN d \/ (request.op = "set" /\ key = request.key)
<1>1. PICK done : done = handle_request(d, request)
  OBVIOUS
<1>2. request \in RequestType
  BY OperationsAssumption
<1>3. CASE request.op = "get"
  <2>1. done = [reply |-> Lookup(d, request.key), dict |-> d]
    BY <1>1, <1>3 DEF handle_request, get
  <2> QED  BY <1>1, <2>1, LookupMade
<1>4. CASE request.op = "set"
  <2>1. request.key \in Keys /\ request.value \in Values
    BY <1>2, <1>4 DEF RequestType
  <2>2. PICK old : old = (IF request.key \in DOMAIN d THEN d[request.key]
                                                     ELSE None)
    OBVIOUS
  <2>3. old \in Bodies
    BY <2>2, DictionaryFacts DEF Bodies
  <2>4. PICK new : new = [k \in DOMAIN d \cup {request.key} |->
                            IF k = request.key THEN request.value ELSE d[k]]
    OBVIOUS
  <2>5. done = [reply |-> Reply(old), dict |-> new]
    BY <1>1, <1>4, <2>2, <2>4 DEF handle_request, set
  <2>6. Reply(old) \in Made
    BY <2>3 DEF Made
  <2>7. /\ DOMAIN d \cup {request.key} \in SUBSET Keys
        /\ new \in [DOMAIN d \cup {request.key} -> Values]
    BY <2>1, <2>4, DictionaryFacts
  <2>8. new \in Dictionary
    BY <2>7, DictionaryIs
  <2> QED  BY <1>1, <1>4, <2>4, <2>5, <2>6, <2>8
<1>5. CASE request.op = "delete"
  <2>1. PICK new : new = [k \in DOMAIN d \ {request.key} |-> d[k]]
    OBVIOUS
  <2>2. done = [reply |-> Lookup(d, request.key), dict |-> new]
    BY <1>1, <1>5, <2>1 DEF handle_request, delete
  <2>3. /\ DOMAIN d \ {request.key} \in SUBSET Keys
        /\ new \in [DOMAIN d \ {request.key} -> Values]
    BY <2>1, DictionaryFacts
  <2>4. new \in Dictionary
    BY <2>3, DictionaryIs
  <2> QED  BY <1>1, <2>1, <2>2, <2>4, LookupMade
<1>6. CASE request.op = "list"
  <2>1. PICK all : all = {<<k, d[k]>> : k \in DOMAIN d}
    OBVIOUS
  <2>2. done = [reply |-> Reply(all), dict |-> d]
    BY <1>1, <1>6, <2>1 DEF handle_request, list_shard
  <2>3. all \in SUBSET (Keys \X Values)
    BY <2>1, DictionaryFacts
  <2>4. Reply(all) \in Made
    BY <2>3 DEF Bodies, Made
  <2> QED  BY <1>1, <2>2, <2>4
<1>7. request.op \in {"get", "set", "delete", "list"}
  BY <1>2 DEF RequestType
<1> QED  BY <1>3, <1>4, <1>5, <1>6, <1>7

\* The invariant holds at first ...
LEMMA AInvInit == Init => AInv
<1> SUFFICES ASSUME Init PROVE AInv
  OBVIOUS
<1> USE DEF Init, DispatchInit, Wire!ResponseInit
<1>1. Typed
  <2>1. queue \in [Shards -> Seq(Requests)]
    <3>1. <<>> \in Seq(Requests)
      BY EmptySeq
    <3> QED  BY <3>1
  <2>2. dict \in [Shards -> Dictionary]
    <3>1. PICK d : d = [k \in {} |-> None]
      OBVIOUS
    <3>2. d \in [{} -> Values] /\ {} \in SUBSET Keys
      BY <3>1
    <3>3. d \in Dictionary
      BY <3>2, DictionaryIs
    <3> QED  BY <3>1, <3>3
  <2>3. chan \in Seq(Job) /\ Len(chan) = 0
    BY EmptySeq
  <2>4. taken \in Nat /\ taken <= Len(chan)
    BY <2>3
  <2>5. /\ requests \in [Requests -> Operations \cup {None}]
        /\ results \in [Requests -> Made \cup {None}]
        /\ running \in [Shards -> SUBSET Requests]
        /\ handlers \subseteq Requests
        /\ alive \subseteq Shards
        /\ DOMAIN answers = Requests
    OBVIOUS
  <2> QED  BY <2>1, <2>2, <2>3, <2>4, <2>5, Zenon DEF Typed
<1>2. Places
  <2>1. \A s \in Shards : /\ queue[s] = <<>> /\ Len(queue[s]) = 0
                          /\ running[s] = {}
    BY EmptySeq
  <2>2. handlers = {} /\ \A r \in Requests : results[r] = None
    OBVIOUS
  <2> QED  BY <2>1, <2>2 DEF Places
<1>3. OwnKeys
  BY DEF OwnKeys
<1>4. Len(chan) = 0
  BY EmptySeq
<1>5. Jobs
  BY <1>4 DEF Jobs
<1>6. \A r \in Requests : ReadOf(r)
  BY DEF ReadOf, Wire!Nothing
<1>7. Writes
  <2>1. Follows(encoder, table)
    BY DEF Follows, Wire!new, Ranks
  <2> QED  BY <1>4, <2>1 DEF Writes
<1> QED  BY <1>1, <1>2, <1>3, <1>5, <1>6, <1>7 DEF AInv

\* A step that makes no response keeps what is on its way to the client.
LEMMA WireSame ==
    ASSUME AInv, chan' = chan, results' = results, UNCHANGED response_vars
    PROVE  /\ Jobs' /\ (\A r \in Requests : ReadOf(r)) ' /\ Writes'
           /\ ~confused'
           /\ chan' \in Seq(Job) /\ taken' \in Nat /\ taken' <= Len(chan')
           /\ results' \in [Requests -> Made \cup {None}]
           /\ DOMAIN answers' = Requests
<1>1. /\ taken' = taken /\ writer' = writer /\ encoder' = encoder
      /\ table' = table /\ answers' = answers /\ confused' = confused
      /\ chan' = chan /\ results' = results
  BY DEF response_vars
<1>2. Jobs'
  BY <1>1, Zenon DEF AInv, Jobs
<1>3. (\A r \in Requests : ReadOf(r))'
  BY <1>1, Zenon DEF AInv, ReadOf
<1>4. Writes'
  BY <1>1, Zenon DEF AInv, Writes
<1> QED  BY <1>1, <1>2, <1>3, <1>4, Zenon DEF AInv, Typed

\* A response that is made is one more job, or is lost with the writer.
LEMMA WireSends ==
    ASSUME AInv, NEW r \in Requests, NEW response \in Made,
           results[r] = None, send_response_box(r, response),
           UNCHANGED response_vars
    PROVE  /\ Jobs' /\ (\A q \in Requests : ReadOf(q)) ' /\ Writes'
           /\ ~confused'
           /\ chan' \in Seq(Job) /\ taken' \in Nat /\ taken' <= Len(chan')
           /\ results' \in [Requests -> Made \cup {None}]
           /\ DOMAIN answers' = Requests
           /\ results'[r] = response
           /\ \A q \in Requests : q # r => results'[q] = results[q]
<1>1. /\ taken' = taken /\ writer' = writer /\ encoder' = encoder
      /\ table' = table /\ answers' = answers /\ confused' = confused
  BY DEF response_vars
<1>2. /\ results \in [Requests -> Made \cup {None}]
      /\ chan \in Seq(Job) /\ taken \in Nat /\ taken <= Len(chan)
      /\ DOMAIN answers = Requests
  BY DEF AInv, Typed
<1>3. response # None
  BY NotNone
<1>4. /\ results' \in [Requests -> Made \cup {None}]
      /\ results'[r] = response
      /\ \A q \in Requests : q # r => results'[q] = results[q]
  BY <1>2 DEF send_response_box
<1>5. (\A q \in Requests : ReadOf(q))'
  <2> SUFFICES ASSUME NEW q \in Requests PROVE ReadOf(q)'
    OBVIOUS
  <2>1. ReadOf(q)
    BY DEF AInv
  <2>2. CASE q # r
    BY <1>1, <1>4, <2>1, <2>2 DEF ReadOf
  <2>3. CASE q = r
    <3>1. answers[q] = Wire!Nothing
      BY <2>1, <2>3 DEF ReadOf
    <3>2. answers'[q].ended = FALSE
      BY <1>1, <3>1 DEF Wire!Nothing
    <3> QED  BY <1>3, <1>4, <2>3, <3>2 DEF ReadOf
  <2> QED  BY <2>2, <2>3
<1>6. PICK N \in Nat : N = Len(chan)
  BY <1>2, LenProperties
<1>7. \A i \in 1 .. N : chan[i] \in Job /\ chan[i].sid \in Requests
                        /\ chan[i].response \in Made
  <2>1. \A i \in 1 .. N : chan[i] \in Job
    BY <1>2, <1>6, ElementOfSeq
  <2> QED  BY <2>1 DEF Job
<1>8. \A i \in 1 .. N : results[chan[i].sid] = chan[i].response
  BY <1>6 DEF AInv, Jobs
<1>9. \A i \in 1 .. N : chan[i].sid # r
  BY <1>7, <1>8, NotNone
<1>10. CASE writer # "running"
  <2>1. chan' = chan
    BY <1>10 DEF send_response_box
  <2>2. Jobs'
    <3>1. \A i \in 1 .. N : results'[chan[i].sid] = chan[i].response
      BY <1>4, <1>7, <1>8, <1>9
    <3>2. \A i, j \in 1 .. N : chan[i].sid = chan[j].sid => i = j
      BY <1>6 DEF AInv, Jobs
    <3> QED  BY <1>6, <2>1, <3>1, <3>2 DEF Jobs
  <2>3. Writes'
    BY <1>1, <1>10 DEF Writes
  <2> QED  BY <1>1, <1>2, <1>4, <1>5, <2>1, <2>2, <2>3 DEF AInv
<1>11. CASE writer = "running"
  <2>1. PICK job \in Job : job = [sid |-> r, response |-> response]
                           /\ job.sid = r /\ job.response = response
    <3>1. [sid |-> r, response |-> response] \in Job
      BY DEF Job
    <3> QED  BY <3>1
  <2>2. chan' = Append(chan, job)
    BY <1>11, <2>1 DEF send_response_box
  <2>3. /\ chan' \in Seq(Job) /\ Len(chan') = N + 1
        /\ \A i \in 1 .. N : chan'[i] = chan[i]
        /\ chan'[N + 1] = job
    <3>1. /\ Append(chan, job) \in Seq(Job) /\ Len(Append(chan, job)) = N + 1
          /\ \A i \in 1 .. N : Append(chan, job)[i] = chan[i]
          /\ Append(chan, job)[N + 1] = job
      BY <1>2, <1>6, Appended
    <3> QED  BY <2>2, <3>1
  <2>4. \A i \in 1 .. N + 1 : i \in 1 .. N \/ i = N + 1
    BY NotLast
  <2>5. Jobs'
    <3>1. ASSUME NEW i \in 1 .. N + 1
          PROVE  results'[chan'[i].sid] = chan'[i].response
      <4>1. CASE i = N + 1
        BY <1>4, <2>1, <2>3, <4>1
      <4>2. CASE i \in 1 .. N
        BY <1>4, <1>7, <1>8, <1>9, <2>3, <4>2
      <4> QED  BY <2>4, <4>1, <4>2
    <3>2. ASSUME NEW i \in 1 .. N + 1, NEW j \in 1 .. N + 1,
                 chan'[i].sid = chan'[j].sid
          PROVE  i = j
      <4>1. CASE i \in 1 .. N /\ j \in 1 .. N
        <5>1. \A k, l \in 1 .. N : chan[k].sid = chan[l].sid => k = l
          BY <1>6 DEF AInv, Jobs
        <5> QED  BY <2>3, <3>2, <4>1, <5>1
      <4>2. CASE i = N + 1 /\ j \in 1 .. N
        BY <1>9, <2>1, <2>3, <3>2, <4>2
      <4>3. CASE j = N + 1 /\ i \in 1 .. N
        BY <1>9, <2>1, <2>3, <3>2, <4>3
      <4> QED  BY <2>4, <4>1, <4>2, <4>3
    <3> QED  BY <2>3, <3>1, <3>2 DEF Jobs
  <2>6. Writes'
    <3>1. Follows(encoder, table)
      BY <1>11 DEF AInv, Writes
    <3>2. ASSUME NEW i \in 1 .. N + 1, i > taken
          PROVE  answers'[chan'[i].sid] = Wire!Nothing
      <4>1. CASE i = N + 1
        <5>1. answers[r] = Wire!Nothing
          BY DEF AInv, ReadOf
        <5> QED  BY <1>1, <2>1, <2>3, <4>1, <5>1
      <4>2. CASE i \in 1 .. N
        <5>1. answers[chan[i].sid] = Wire!Nothing
          BY <1>6, <1>11, <3>2, <4>2 DEF AInv, Writes
        <5> QED  BY <1>1, <2>3, <4>2, <5>1
      <4> QED  BY <2>4, <4>1, <4>2
    <3>3. Follows(encoder, table)'
      BY <1>1, <3>1, Zenon DEF Follows
    <3> QED  BY <1>1, <2>3, <3>2, <3>3 DEF Writes
  <2>7. taken' \in Nat /\ taken' <= Len(chan')
    BY <1>1, <1>2, <1>6, <2>3
  <2>8. ~confused' /\ DOMAIN answers' = Requests
    BY <1>1, <1>2 DEF AInv
  <2> QED  BY <1>4, <1>5, <2>3, <2>5, <2>6, <2>7, <2>8
<1> QED  BY <1>10, <1>11

\* ... a request that arrives keeps it ...
LEMMA ArriveKeeps ==
    ASSUME AInv, NEW r \in Requests, NEW request \in Operations,
           Arrive(r, request), UNCHANGED response_vars
    PROVE  AInv'
<1>1. /\ requests[r] = None
      /\ requests' = [requests EXCEPT ![r] = request]
      /\ handlers' = handlers \cup {r}
      /\ queue' = queue /\ running' = running /\ dict' = dict
      /\ alive' = alive /\ chan' = chan /\ results' = results
  BY DEF Arrive
<1>2. request # None
  BY NotNone
<1>3. /\ requests'[r] = request
      /\ \A q \in Requests : q # r => requests'[q] = requests[q]
  BY <1>1 DEF AInv, Typed
<1>4. results[r] = None
  BY <1>1 DEF AInv, Places
<1>5. ASSUME NEW q \in Requests, NEW s, Waits(q, s) PROVE Waits(q, s)'
  BY <1>1, <1>3, <1>5 DEF Waits
<1>6. /\ \A s \in Shards : \A i \in 1 .. Len(queue[s]) : queue[s][i] \in Requests
      /\ \A s \in Shards : running[s] \subseteq Requests
  <2>1. ASSUME NEW s \in Shards, NEW i \in 1 .. Len(queue[s])
        PROVE  queue[s][i] \in Requests
    <3>1. queue[s] \in Seq(Requests)
      BY DEF AInv, Typed
    <3> QED  BY <3>1, ElementOfSeq
  <2> QED  BY <2>1 DEF AInv, Typed
<1>7. Places'
  <2>1. ASSUME NEW q \in handlers' PROVE requests'[q] # None /\ results'[q] = None
    BY <1>1, <1>2, <1>3, <1>4 DEF AInv, Places, Typed
  <2>2. ASSUME NEW q \in Requests, requests'[q] = None PROVE results'[q] = None
    BY <1>1, <1>2, <1>3, <1>4, <2>2 DEF AInv, Places
  <2>3. ASSUME NEW s \in Shards, NEW i \in 1 .. Len(queue'[s])
        PROVE  Waits(queue[s][i], s)'
    BY <1>1, <1>5, <1>6 DEF AInv, Places
  <2>4. ASSUME NEW s \in Shards, NEW q \in running'[s]
        PROVE  /\ Waits(q, s)'
               /\ running'[s] = {q}
               /\ \A i \in 1 .. Len(queue'[s]) : queue'[s][i] # q
    BY <1>1, <1>5, <1>6 DEF AInv, Places
  <2>5. \A s \in Shards :
          /\ \A i, j \in 1 .. Len(queue'[s]) :
                 queue'[s][i] = queue'[s][j] => i = j
          /\ s \notin alive' => queue'[s] = <<>> /\ running'[s] = {}
    BY <1>1 DEF AInv, Places
  <2> QED  BY <1>1, <2>1, <2>2, <2>3, <2>4, <2>5 DEF Places
<1>8. Typed'
  <2>1. requests' \in [Requests -> Operations \cup {None}]
    BY <1>1 DEF AInv, Typed
  <2> QED  BY <1>1, <2>1, WireSame DEF AInv, Typed
<1>9. OwnKeys'
  BY <1>1 DEF AInv, OwnKeys
<1> QED  BY <1>1, <1>7, <1>8, <1>9, WireSame DEF AInv

\* ... so does a handler task that ends without a request ...
LEMMA HandlerFailsKeeps ==
    ASSUME AInv, NEW r \in Requests, HandlerFails(r), UNCHANGED response_vars
    PROVE  AInv'
<1>1. /\ requests' = requests
      /\ handlers' = handlers \ {r}
      /\ queue' = queue /\ running' = running /\ dict' = dict
      /\ alive' = alive /\ chan' = chan /\ results' = results
  BY DEF HandlerFails
<1>2. ASSUME NEW q, NEW s, Waits(q, s) PROVE Waits(q, s)'
  BY <1>1, <1>2 DEF Waits
<1>3. Places'
  BY <1>1, <1>2 DEF AInv, Places
<1>4. Typed'
  BY <1>1, WireSame DEF AInv, Typed
<1>5. OwnKeys'
  BY <1>1 DEF AInv, OwnKeys
<1> QED  BY <1>1, <1>3, <1>4, <1>5, WireSame DEF AInv

\* ... one that sends its request to a shard, or refuses it ...
LEMMA DispatchKeeps ==
    ASSUME AInv, NEW r \in Requests, Dispatch(r), UNCHANGED response_vars
    PROVE  AInv'
<1>1. PICK s : s = dispatch_to(requests[r])
  OBVIOUS
<1>2. /\ r \in handlers
      /\ requests' = requests /\ running' = running /\ dict' = dict
      /\ alive' = alive
      /\ handlers' = handlers \ {r}
  BY DEF Dispatch
<1>3. /\ requests[r] # None /\ results[r] = None
      /\ requests[r] \in Operations
  BY <1>2 DEF AInv, Places, Typed
<1>4. s \in Shards
  BY <1>1, <1>3, PartInShards
<1>5. OwnKeys'
  BY <1>2 DEF AInv, OwnKeys
<1>6. CASE s \in alive
  <2>1. /\ queue' = [queue EXCEPT ![s] = Append(@, r)]
        /\ chan' = chan /\ results' = results
    BY <1>1, <1>6 DEF Dispatch
  <2>2. PICK old \in Seq(Requests) : old = queue[s]
    BY <1>4 DEF AInv, Typed
  <2>3. PICK N \in Nat : N = Len(old)
    BY LenProperties
  <2>4. PICK new \in Seq(Requests) :
            /\ new = Append(old, r) /\ Len(new) = N + 1
            /\ \A i \in 1 .. N : new[i] = old[i]
            /\ new[N + 1] = r
    <3>1. /\ Append(old, r) \in Seq(Requests) /\ Len(Append(old, r)) = N + 1
          /\ \A i \in 1 .. N : Append(old, r)[i] = old[i]
          /\ Append(old, r)[N + 1] = r
      BY <2>3, Appended
    <3> QED  BY <3>1, Zenon
  <2>5. /\ queue'[s] = new
        /\ \A p \in Shards : p # s => queue'[p] = queue[p]
        /\ queue' \in [Shards -> Seq(Requests)]
    BY <1>4, <2>1, <2>2, <2>4 DEF AInv, Typed
  <2>6. \A i \in 1 .. N + 1 : i \in 1 .. N \/ i = N + 1
    BY NotLast
  <2>7. ASSUME NEW q, NEW p, Waits(q, p) PROVE Waits(q, p)' /\ q # r
    BY <1>2, <2>1, <2>7 DEF Waits
  <2>8. Waits(r, s)'
    BY <1>1, <1>2, <1>3, <2>1 DEF Waits
  <2>9. ASSUME NEW p \in Shards, NEW i \in 1 .. Len(queue'[p])
        PROVE  Waits(queue[p][i], p)'
    <3>1. CASE p # s
      BY <2>5, <2>7, <3>1 DEF AInv, Places
    <3>2. CASE p = s
      <4>1. i \in 1 .. N + 1
        BY <2>4, <2>5, <3>2
      <4>2. CASE i = N + 1
        BY <2>4, <2>5, <2>8, <3>2, <4>2
      <4>3. CASE i \in 1 .. N
        <5>1. Waits(old[i], s)
          BY <1>4, <2>2, <2>3, <4>3 DEF AInv, Places
        <5>2. Waits(old[i], s)'
          BY <2>7, <5>1
        <5> QED  BY <2>4, <2>5, <3>2, <4>3, <5>2
      <4> QED  BY <2>6, <4>1, <4>2, <4>3
    <3> QED  BY <3>1, <3>2
  <2>10. ASSUME NEW p \in Shards, NEW i \in 1 .. Len(queue'[p]),
                NEW j \in 1 .. Len(queue'[p]), queue'[p][i] = queue'[p][j]
         PROVE  i = j
    <3>1. CASE p # s
      BY <2>5, <2>10, <3>1 DEF AInv, Places
    <3>2. CASE p = s
      <4>1. \A k \in 1 .. N : Waits(old[k], s)
        BY <1>4, <2>2, <2>3 DEF AInv, Places
      <4>2. \A k \in 1 .. N : old[k] # r
        BY <2>7, <4>1
      <4>3. \A k, l \in 1 .. N : old[k] = old[l] => k = l
        BY <1>4, <2>2, <2>3 DEF AInv, Places
      <4>4. i \in 1 .. N + 1 /\ j \in 1 .. N + 1 /\ new[i] = new[j]
        BY <2>4, <2>5, <2>10, <3>2
      <4> QED  BY <2>4, <2>6, <4>2, <4>3, <4>4
    <3> QED  BY <3>1, <3>2
  <2>11. ASSUME NEW p \in Shards, NEW q \in running'[p]
         PROVE  /\ Waits(q, p)'
                /\ running'[p] = {q}
                /\ \A i \in 1 .. Len(queue'[p]) : queue'[p][i] # q
    <3>1. Waits(q, p) /\ running[p] = {q}
          /\ \A i \in 1 .. Len(queue[p]) : queue[p][i] # q
      BY <1>2 DEF AInv, Places
    <3>2. Waits(q, p)' /\ q # r
      BY <2>7, <3>1
    <3>3. CASE p # s
      BY <1>2, <2>5, <3>1, <3>2, <3>3
    <3>4. CASE p = s
      BY <1>2, <2>2, <2>3, <2>4, <2>5, <2>6, <3>1, <3>2, <3>4
    <3> QED  BY <3>3, <3>4
  <2>12. \A p \in Shards : p \notin alive'
                 => queue'[p] = <<>> /\ running'[p] = {}
    BY <1>2, <1>6, <2>5 DEF AInv, Places
  <2>13. /\ \A q \in handlers' : requests'[q] # None /\ results'[q] = None
         /\ \A q \in Requests : requests'[q] = None => results'[q] = None
    BY <1>2, <2>1 DEF AInv, Places
  <2>14. Places'
    BY <2>9, <2>10, <2>11, <2>12, <2>13 DEF Places
  <2>15. Typed'
    BY <1>2, <2>1, <2>5, WireSame DEF AInv, Typed
  <2> QED  BY <1>5, <2>1, <2>14, <2>15, WireSame DEF AInv
<1>7. CASE s \notin alive
  <2>1. /\ send_response_box(r, Status(UNAVAILABLE))
        /\ queue' = queue
    BY <1>1, <1>7 DEF Dispatch
  <2>2. Status(UNAVAILABLE) \in Made
    BY DEF Made
  <2>3. /\ Jobs' /\ (\A q \in Requests : ReadOf(q)) ' /\ Writes'
        /\ ~confused'
        /\ chan' \in Seq(Job) /\ taken' \in Nat /\ taken' <= Len(chan')
        /\ results' \in [Requests -> Made \cup {None}]
        /\ DOMAIN answers' = Requests
        /\ \A q \in Requests : q # r => results'[q] = results[q]
    BY <1>3, <2>1, <2>2, WireSends
  <2>4. ASSUME NEW q \in Requests, NEW p, Waits(q, p) PROVE Waits(q, p)'
    BY <1>2, <2>3, <2>4 DEF Waits
  <2>5. /\ \A p \in Shards : \A i \in 1 .. Len(queue[p]) : queue[p][i] \in Requests
        /\ \A p \in Shards : running[p] \subseteq Requests
    <3>1. ASSUME NEW p \in Shards, NEW i \in 1 .. Len(queue[p])
          PROVE  queue[p][i] \in Requests
      <4>1. queue[p] \in Seq(Requests)
        BY DEF AInv, Typed
      <4> QED  BY <4>1, ElementOfSeq
    <3> QED  BY <3>1 DEF AInv, Typed
  <2>6. Places'
    <3>1. /\ \A q \in handlers' : requests'[q] # None /\ results'[q] = None
          /\ \A q \in Requests : requests'[q] = None => results'[q] = None
      BY <1>2, <1>3, <2>3 DEF AInv, Places, Typed
    <3>2. ASSUME NEW p \in Shards, NEW i \in 1 .. Len(queue'[p])
          PROVE  Waits(queue[p][i], p)'
      BY <2>1, <2>4, <2>5 DEF AInv, Places
    <3>3. ASSUME NEW p \in Shards, NEW q \in running'[p]
          PROVE  /\ Waits(q, p)'
                 /\ running'[p] = {q}
                 /\ \A i \in 1 .. Len(queue'[p]) : queue'[p][i] # q
      BY <1>2, <2>1, <2>4, <2>5 DEF AInv, Places
    <3>4. \A p \in Shards :
            /\ \A i, j \in 1 .. Len(queue'[p]) :
                   queue'[p][i] = queue'[p][j] => i = j
            /\ p \notin alive' => queue'[p] = <<>> /\ running'[p] = {}
      BY <1>2, <2>1 DEF AInv, Places
    <3> QED  BY <3>1, <3>2, <3>3, <3>4 DEF Places
  <2>7. Typed'
    BY <1>2, <2>1, <2>3 DEF AInv, Typed
  <2> QED  BY <1>5, <2>3, <2>6, <2>7 DEF AInv
<1> QED  BY <1>6, <1>7

\* What is in a shard's channel or hands is a request.
LEMMA QueuedAreRequests ==
    ASSUME AInv
    PROVE  /\ \A s \in Shards : \A i \in 1 .. Len(queue[s]) :
                  queue[s][i] \in Requests
           /\ \A s \in Shards : running[s] \subseteq Requests
<1>1. ASSUME NEW s \in Shards, NEW i \in 1 .. Len(queue[s])
      PROVE  queue[s][i] \in Requests
  <2>1. queue[s] \in Seq(Requests)
    BY DEF AInv, Typed
  <2> QED  BY <2>1, ElementOfSeq
<1> QED  BY <1>1 DEF AInv, Typed

\* ... a shard task that takes its next request ...
LEMMA ReceiveKeeps ==
    ASSUME AInv, NEW s \in Shards, Receive(s), UNCHANGED response_vars
    PROVE  AInv'
<1>1. /\ s \in alive
      /\ running[s] = {}
      /\ queue[s] # <<>>
      /\ requests' = requests /\ handlers' = handlers /\ dict' = dict
      /\ alive' = alive /\ chan' = chan /\ results' = results
  BY DEF Receive
<1>2. PICK old \in Seq(Requests) : old = queue[s] /\ old # <<>>
  BY <1>1 DEF AInv, Typed
<1>3. PICK N \in Nat : N = Len(old)
  BY LenProperties
<1>4. N > 0 /\ 1 \in 1 .. N /\ N - 1 \in Nat
  BY <1>2, <1>3, EmptySeq
<1>5. PICK r \in Requests : r = Head(old) /\ r = old[1]
  <2>1. Head(old) = old[1]
    OBVIOUS
  <2> QED  BY <1>3, <1>4, <2>1, ElementOfSeq
<1>6. PICK new \in Seq(Requests) :
          /\ new = Tail(old) /\ Len(new) = N - 1
          /\ \A i \in 1 .. N - 1 : new[i] = old[i + 1]
  <2>1. /\ Tail(old) \in Seq(Requests) /\ Len(Tail(old)) = N - 1
        /\ \A i \in 1 .. N - 1 : Tail(old)[i] = old[i + 1]
    BY <1>2, <1>3, HeadTailProperties
  <2> QED  BY <2>1, Zenon
<1>7. /\ queue' = [queue EXCEPT ![s] = Tail(@)]
      /\ running' = [running EXCEPT ![s] = {Head(queue[s])}]
  BY DEF Receive
<1>8. /\ queue'[s] = new
      /\ \A p \in Shards : p # s => queue'[p] = queue[p]
      /\ queue' \in [Shards -> Seq(Requests)]
  BY <1>2, <1>6, <1>7 DEF AInv, Typed
<1>9. /\ running'[s] = {r}
      /\ \A p \in Shards : p # s => running'[p] = running[p]
      /\ running' \in [Shards -> SUBSET Requests]
  BY <1>2, <1>5, <1>7 DEF AInv, Typed
<1>10. ASSUME NEW q, NEW p, Waits(q, p) PROVE Waits(q, p)'
  BY <1>1, <1>10 DEF Waits
<1>11. /\ \A i \in 1 .. N : Waits(old[i], s)
       /\ \A i, j \in 1 .. N : old[i] = old[j] => i = j
  BY <1>2, <1>3 DEF AInv, Places
<1>12. \A i \in 1 .. N - 1 : i + 1 \in 1 .. N /\ i + 1 # 1
  BY <1>3
<1>13. /\ \A i \in 1 .. N - 1 : Waits(new[i], s)
       /\ \A i, j \in 1 .. N - 1 : new[i] = new[j] => i = j
       /\ \A i \in 1 .. N - 1 : new[i] # r
  <2>1. ASSUME NEW i \in 1 .. N - 1, NEW j \in 1 .. N - 1, new[i] = new[j]
        PROVE  i = j
    <3>1. old[i + 1] = old[j + 1]
      BY <1>6, <2>1
    <3>2. i + 1 = j + 1
      BY <1>11, <1>12, <3>1
    <3> QED  BY <3>2
  <2> QED  BY <1>4, <1>5, <1>6, <1>11, <1>12, <2>1
<1>14. Waits(r, s)'
  BY <1>4, <1>5, <1>10, <1>11
<1>15. ASSUME NEW p \in Shards, NEW i \in 1 .. Len(queue'[p])
       PROVE  Waits(queue[p][i], p)'
  <2>1. CASE p # s
    BY <1>8, <1>10, <2>1 DEF AInv, Places
  <2>2. CASE p = s
    <3>1. i \in 1 .. N - 1
      BY <1>6, <1>8, <2>2
    <3>2. Waits(new[i], s)'
      BY <1>10, <1>13, <3>1
    <3> QED  BY <1>8, <2>2, <3>2
  <2> QED  BY <2>1, <2>2
<1>16. ASSUME NEW p \in Shards, NEW i \in 1 .. Len(queue'[p]),
              NEW j \in 1 .. Len(queue'[p]), queue'[p][i] = queue'[p][j]
       PROVE  i = j
  <2>1. CASE p # s
    BY <1>8, <1>16, <2>1 DEF AInv, Places
  <2>2. CASE p = s
    BY <1>6, <1>8, <1>13, <1>16, <2>2
  <2> QED  BY <2>1, <2>2
<1>17. ASSUME NEW p \in Shards, NEW q \in running'[p]
       PROVE  /\ Waits(q, p)'
              /\ running'[p] = {q}
              /\ \A i \in 1 .. Len(queue'[p]) : queue'[p][i] # q
  <2>1. CASE p # s
    BY <1>8, <1>9, <1>10, <1>17, <2>1 DEF AInv, Places
  <2>2. CASE p = s
    BY <1>6, <1>8, <1>9, <1>13, <1>14, <1>17, <2>2
  <2> QED  BY <2>1, <2>2
<1>18. \A p \in Shards : p \notin alive'
               => queue'[p] = <<>> /\ running'[p] = {}
  BY <1>1, <1>8, <1>9 DEF AInv, Places
<1>19. /\ \A q \in handlers' : requests'[q] # None /\ results'[q] = None
       /\ \A q \in Requests : requests'[q] = None => results'[q] = None
  BY <1>1 DEF AInv, Places
<1>20. Places'
  BY <1>15, <1>16, <1>17, <1>18, <1>19 DEF Places
<1>21. Typed'
  BY <1>1, <1>8, <1>9, WireSame DEF AInv, Typed
<1>22. OwnKeys'
  BY <1>1 DEF AInv, OwnKeys
<1> QED  BY <1>1, <1>20, <1>21, <1>22, WireSame DEF AInv

\* ... one that answers it ...
LEMMA RespondKeeps ==
    ASSUME AInv, NEW s \in Shards, Respond(s), UNCHANGED response_vars
    PROVE  AInv'
<1>1. PICK r \in running[s] :
          LET done == handle_request(dict[s], requests[r])
          IN  /\ dict' = [dict EXCEPT ![s] = done.dict]
              /\ running' = [running EXCEPT ![s] = {}]
              /\ send_response_box(r, done.reply)
              /\ UNCHANGED <<requests, handlers, queue, alive, abandoned>>
  BY DEF Respond
<1>2. PICK done : done = handle_request(dict[s], requests[r])
  OBVIOUS
<1>3. /\ dict' = [dict EXCEPT ![s] = done.dict]
      /\ running' = [running EXCEPT ![s] = {}]
      /\ send_response_box(r, done.reply)
      /\ requests' = requests /\ handlers' = handlers /\ queue' = queue
      /\ alive' = alive
  BY <1>1, <1>2, Zenon
<1>4. /\ r \in Requests /\ Waits(r, s) /\ running[s] = {r}
      /\ \A i \in 1 .. Len(queue[s]) : queue[s][i] # r
  BY QueuedAreRequests DEF AInv, Places
<1>5. /\ requests[r] \in Operations /\ dispatch_to(requests[r]) = s
      /\ results[r] = None /\ requests[r] # None
      /\ r \notin handlers
  BY <1>4 DEF AInv, Typed, Waits
<1>6. dict[s] \in Dictionary /\ dict \in [Shards -> Dictionary]
  BY DEF AInv, Typed
<1>7. /\ done.reply \in Made
      /\ done.dict \in Dictionary
      /\ \A key \in DOMAIN done.dict :
             \/ key \in DOMAIN dict[s]
             \/ requests[r].op = "set" /\ key = requests[r].key
  BY <1>2, <1>5, <1>6, Handled
<1>8. /\ Jobs' /\ (\A q \in Requests : ReadOf(q)) ' /\ Writes'
      /\ ~confused'
      /\ chan' \in Seq(Job) /\ taken' \in Nat /\ taken' <= Len(chan')
      /\ results' \in [Requests -> Made \cup {None}]
      /\ DOMAIN answers' = Requests
      /\ \A q \in Requests : q # r => results'[q] = results[q]
  BY <1>3, <1>4, <1>5, <1>7, WireSends
<1>9. /\ dict'[s] = done.dict
      /\ \A p \in Shards : p # s => dict'[p] = dict[p]
      /\ dict' \in [Shards -> Dictionary]
  BY <1>3, <1>6, <1>7
<1>10. /\ running'[s] = {}
       /\ \A p \in Shards : p # s => running'[p] = running[p]
       /\ running' \in [Shards -> SUBSET Requests]
  BY <1>3 DEF AInv, Typed
<1>11. ASSUME NEW q \in Requests, NEW p, Waits(q, p), q # r
       PROVE  Waits(q, p)'
  BY <1>3, <1>8, <1>11 DEF Waits
<1>12. ASSUME NEW p, Waits(r, p) PROVE p = s
  BY <1>5, <1>12 DEF Waits
<1>13. OwnKeys'
  <2> SUFFICES ASSUME NEW p \in Shards, NEW key \in DOMAIN dict'[p]
               PROVE  hash_key[key] % NumShards = p
    BY DEF OwnKeys
  <2>1. CASE p # s
    BY <1>9, <2>1 DEF AInv, OwnKeys
  <2>2. CASE p = s
    <3>1. CASE key \in DOMAIN dict[s]
      BY <2>2, <3>1 DEF AInv, OwnKeys
    <3>2. CASE requests[r].op = "set" /\ key = requests[r].key
      BY <1>5, <2>2, <3>2 DEF dispatch_to
    <3> QED  BY <1>7, <1>9, <2>2, <3>1, <3>2
  <2> QED  BY <2>1, <2>2
<1>14. Places'
  <2>1. ASSUME NEW q \in handlers' PROVE requests'[q] # None /\ results'[q] = None
    BY <1>3, <1>5, <1>8 DEF AInv, Places, Typed
  <2>2. ASSUME NEW q \in Requests, requests'[q] = None PROVE results'[q] = None
    BY <1>3, <1>5, <1>8, <2>2 DEF AInv, Places
  <2>3. ASSUME NEW p \in Shards, NEW i \in 1 .. Len(queue'[p])
        PROVE  Waits(queue[p][i], p)'
    <3>1. Waits(queue[p][i], p) /\ queue[p][i] \in Requests
      BY <1>3, QueuedAreRequests DEF AInv, Places
    <3>2. queue[p][i] # r
      BY <1>3, <1>4, <1>12, <3>1
    <3> QED  BY <1>3, <1>11, <3>1, <3>2
  <2>4. ASSUME NEW p \in Shards, NEW q \in running'[p]
        PROVE  /\ Waits(q, p)'
               /\ running'[p] = {q}
               /\ \A i \in 1 .. Len(queue'[p]) : queue'[p][i] # q
    <3>1. p # s /\ running'[p] = running[p]
      BY <1>10, <2>4
    <3>2. /\ Waits(q, p) /\ running[p] = {q} /\ q \in Requests
          /\ \A i \in 1 .. Len(queue[p]) : queue[p][i] # q
      BY <3>1, QueuedAreRequests DEF AInv, Places
    <3>3. q # r
      BY <1>12, <3>1, <3>2
    <3> QED  BY <1>3, <1>11, <3>1, <3>2, <3>3
  <2>5. \A p \in Shards :
          /\ \A i, j \in 1 .. Len(queue'[p]) :
                 queue'[p][i] = queue'[p][j] => i = j
          /\ p \notin alive' => queue'[p] = <<>> /\ running'[p] = {}
    BY <1>3, <1>10 DEF AInv, Places
  <2> QED  BY <1>3, <2>1, <2>2, <2>3, <2>4, <2>5 DEF Places
<1>15. Typed'
  BY <1>3, <1>8, <1>9, <1>10 DEF AInv, Typed
<1> QED  BY <1>8, <1>13, <1>14, <1>15 DEF AInv

\* ... and one that panics ...
LEMMA ShardPanicsKeeps ==
    ASSUME AInv, NEW s \in Shards, ShardPanics(s), UNCHANGED response_vars
    PROVE  AInv'
<1>1. /\ alive' = alive \ {s}
      /\ running' = [running EXCEPT ![s] = {}]
      /\ queue' = [queue EXCEPT ![s] = <<>>]
      /\ requests' = requests /\ handlers' = handlers /\ dict' = dict
      /\ chan' = chan /\ results' = results
  BY DEF ShardPanics
<1>2. /\ running'[s] = {}
      /\ \A p \in Shards : p # s => running'[p] = running[p]
      /\ running' \in [Shards -> SUBSET Requests]
  BY <1>1 DEF AInv, Typed
<1>3. /\ queue'[s] = <<>>
      /\ \A p \in Shards : p # s => queue'[p] = queue[p]
      /\ queue' \in [Shards -> Seq(Requests)]
  <2>1. <<>> \in Seq(Requests)
    BY EmptySeq
  <2> QED  BY <1>1, <2>1 DEF AInv, Typed
<1>4. ASSUME NEW q, NEW p, Waits(q, p) PROVE Waits(q, p)'
  BY <1>1, <1>4 DEF Waits
<1>5. ASSUME NEW i \in 1 .. Len(queue'[s]) PROVE FALSE
  <2>1. Len(<<>>) = 0
    OBVIOUS
  <2> QED  BY <1>3, <1>5, <2>1
<1>6. Places'
  <2>1. ASSUME NEW p \in Shards, NEW i \in 1 .. Len(queue'[p])
        PROVE  Waits(queue[p][i], p)'
    BY <1>3, <1>4, <1>5 DEF AInv, Places
  <2>2. ASSUME NEW p \in Shards, NEW q \in running'[p]
        PROVE  /\ Waits(q, p)'
               /\ running'[p] = {q}
               /\ \A i \in 1 .. Len(queue'[p]) : queue'[p][i] # q
    BY <1>2, <1>3, <1>4 DEF AInv, Places
  <2>3. ASSUME NEW p \in Shards, NEW i \in 1 .. Len(queue'[p]),
               NEW j \in 1 .. Len(queue'[p]), queue'[p][i] = queue'[p][j]
        PROVE  i = j
    BY <1>3, <1>5, <2>3 DEF AInv, Places
  <2>4. ASSUME NEW p \in Shards, p \notin alive'
        PROVE  queue'[p] = <<>> /\ running'[p] = {}
    BY <1>1, <1>2, <1>3, <2>4 DEF AInv, Places
  <2>5. /\ \A q \in handlers' : requests'[q] # None /\ results'[q] = None
        /\ \A q \in Requests : requests'[q] = None => results'[q] = None
    BY <1>1 DEF AInv, Places
  <2> QED  BY <2>1, <2>2, <2>3, <2>4, <2>5 DEF Places
<1>7. Typed'
  BY <1>1, <1>2, <1>3, WireSame DEF AInv, Typed
<1>8. OwnKeys'
  BY <1>1 DEF AInv, OwnKeys
<1> QED  BY <1>1, <1>6, <1>7, <1>8, WireSame DEF AInv

-----------------------------------------------------------------------------
(* The writer                                                              *)

\* What a sequence of frames carries has its type.
LEMMA SentTypes ==
    ASSUME NEW frames \in Seq(Frame)
    PROVE  /\ FieldsSent(frames) \in Seq(Representation)
           /\ BodySent(frames) \in Seq(Bodies)
<1>1. PICK N \in Nat : N = Len(frames) /\ DOMAIN frames = 1 .. N
  BY LenProperties
<1>2. \A i \in 1 .. N : /\ frames[i].fields \in Seq(Representation)
                        /\ frames[i].body \in Seq(Bodies)
  <2>1. \A i \in 1 .. N : frames[i] \in Frame
    BY <1>1, ElementOfSeq
  <2> QED  BY <2>1 DEF Frame
<1> DEFINE P == Seq(Representation)
           Q == Seq(Bodies)
           F == [i \in 1 .. N |-> frames[i].fields]
           B == [i \in 1 .. N |-> frames[i].body]
<1>3. F \in [1 .. N -> P] /\ B \in [1 .. N -> Q]
  BY <1>2
<1>4. FieldsSent(frames) = FlattenSeq(F) /\ BodySent(frames) = FlattenSeq(B)
  BY <1>1 DEF FieldsSent, BodySent
<1> HIDE DEF P, Q, F, B
<1>5. F \in Seq(P) /\ B \in Seq(Q)
  BY <1>3
<1>6. FlattenSeq(F) \in Seq(Representation)
  BY <1>5, FlattenProperties DEF P
<1>7. FlattenSeq(B) \in Seq(Bodies)
  BY <1>5, FlattenProperties DEF Q
<1> QED  BY <1>4, <1>6, <1>7

\* The client reads these frames on a stream, and these fields in them.
ReadsAll(sid, frames, N, block, fields) ==
    /\ Follows(block.enc, table')
    /\ DOMAIN answers' = Requests
    /\ \A r \in Requests : r # sid => answers'[r] = answers[r]
    /\ answers'[sid].fields = fields
    /\ answers'[sid].body = BodySent(frames)
    /\ answers'[sid].ended \in BOOLEAN
    /\ answers'[sid].ended <=> \E i \in 1 .. N : frames[i].end
    /\ ~confused'

\* What is read on a stream that nothing has been read on.
LEMMA ReadFirst ==
    ASSUME NEW sid \in Requests, DOMAIN answers = Requests,
           answers[sid] = Wire!Nothing, ~confused,
           NEW frames \in Seq(Frame), NEW N \in Nat, N = Len(frames),
           \A i \in 1 .. N - 1 : ~frames[i].end,
           NEW block, NEW fields, Hears(table, frames, block, fields),
           Wire!Read(sid, frames)
    PROVE  ReadsAll(sid, frames, N, block, fields)
<1>1. PICK reps \in Seq(Representation) : reps = FieldsSent(frames)
  BY SentTypes
<1>2. PICK body \in Seq(Bodies) : body = BodySent(frames)
  BY SentTypes
<1>3. /\ fields = Wire!Fields(table, reps)
      /\ Follows(block.enc, Wire!Tables(table, reps)[Len(reps)])
      /\ Readable(fields)
  BY <1>1, Zenon DEF Hears, Reads
<1>4. DOMAIN frames = 1 .. N
  BY LenProperties
<1>5. PICK ended \in BOOLEAN : ended <=> \E i \in 1 .. N : frames[i].end
  <2>1. (\E i \in 1 .. N : frames[i].end) \in BOOLEAN
    OBVIOUS
  <2> QED  BY <2>1
<1>6. /\ Wire!FlattenSeq([i \in DOMAIN frames |-> frames[i].fields]) = reps
      /\ Wire!FlattenSeq([i \in DOMAIN frames |-> frames[i].body]) = body
  BY <1>1, <1>2, SameFlatten DEF FieldsSent, BodySent
<1>7. /\ table' = Wire!Tables(table, reps)[Len(reps)]
      /\ answers' = [answers EXCEPT
              ![sid].fields = @ \o fields,
              ![sid].body = @ \o body,
              ![sid].ended = @ \/ \E i \in DOMAIN frames : frames[i].end]
      /\ confused' = (\/ confused
                      \/ frames # <<>> /\ answers[sid].ended
                      \/ \E i \in 1 .. Len(frames) - 1 : frames[i].end
                      \/ \E i \in DOMAIN fields :
                             fields[i].name = Wire!Unknown.name)
  BY <1>3, <1>6, Zenon DEF Wire!Read
<1>8. /\ answers[sid].fields = <<>> /\ answers[sid].body = <<>>
      /\ answers[sid].ended = FALSE
      /\ answers[sid] = [fields |-> <<>>, body |-> <<>>, ended |-> FALSE]
  BY DEF Wire!Nothing
<1>9. <<>> \o fields = fields /\ <<>> \o body = body
  <2>1. PICK n \in Nat : n = Len(reps) /\ DOMAIN reps = 1 .. n
    BY LenProperties
  <2>2. PICK S : S = {fields[i] : i \in 1 .. n}
    OBVIOUS
  <2>3. fields \in [1 .. n -> S]
    BY <1>3, <2>1, <2>2 DEF Wire!Fields
  <2>4. fields \in Seq(S)
    BY <2>3
  <2> QED  BY <2>4, ConcatEmptySeq
<1>10. ~confused'
  BY <1>3, <1>7, <1>8 DEF Readable
<1>11. /\ DOMAIN answers' = Requests
       /\ \A r \in Requests : r # sid => answers'[r] = answers[r]
  BY <1>7
<1>12. answers'[sid] = [fields |-> fields, body |-> body, ended |-> ended]
  BY <1>4, <1>5, <1>7, <1>8, <1>9
<1>13. Follows(block.enc, table')
  BY <1>3, <1>7, Zenon
<1>14. /\ answers'[sid].fields = fields /\ answers'[sid].body = BodySent(frames)
       /\ answers'[sid].ended \in BOOLEAN
       /\ answers'[sid].ended <=> \E i \in 1 .. N : frames[i].end
  <2>1. /\ answers'[sid].fields = fields /\ answers'[sid].body = body
        /\ answers'[sid].ended = ended
    BY <1>12
  <2> QED  BY <1>2, <1>5, <2>1, Zenon
<1> QED  BY <1>10, <1>11, <1>13, <1>14, Zenon DEF ReadsAll

\* The writer takes the job of a request whose response the client has not
\* begun to read, and the client reads all of the response, or a part of it
\* that does not end the stream.
WritesTo(r) ==
    /\ results[r] # None
    /\ answers[r] = Wire!Nothing
    /\ DOMAIN answers' = Requests
    /\ \A q \in Requests : q # r => answers'[q] = answers[q]
    /\ answers'[r].ended \in BOOLEAN
    /\ answers'[r].ended =>
         /\ answers'[r].fields = FieldsOf(results[r])
         /\ answers'[r].body = BodyOf(results[r])

\* The job the writer takes.
LEMMA NextJob ==
    ASSUME AInv, writer = "running", taken < Len(chan)
    PROVE  LET job == chan[taken + 1]
           IN  /\ job.sid \in Requests /\ job.response \in Made
               /\ results[job.sid] = job.response
               /\ answers[job.sid] = Wire!Nothing
               /\ Wire!Build(job) = BuiltFor(encoder, job.response)
               /\ Says(table, Wire!Build(job), job.response)
<1>1. chan \in Seq(Job) /\ taken \in Nat
  BY DEF AInv, Typed
<1>2. PICK N \in Nat : N = Len(chan)
  BY <1>1, LenProperties
<1>3. taken + 1 \in 1 .. N /\ taken + 1 > taken
  BY <1>1, <1>2
<1>4. PICK job \in Job : job = chan[taken + 1]
  BY <1>1, <1>2, <1>3, ElementOfSeq
<1>5. job.sid \in Requests /\ job.response \in Made
  BY DEF Job
<1>6. results[job.sid] = job.response
  BY <1>2, <1>3, <1>4 DEF AInv, Jobs
<1>7. answers[job.sid] = Wire!Nothing /\ Follows(encoder, table)
  BY <1>2, <1>3, <1>4 DEF AInv, Writes
<1>8. Wire!Build(job) = BuiltFor(encoder, job.response)
  BY Zenon DEF Wire!Build, BuiltFor
<1>9. Says(table, BuiltFor(encoder, job.response), job.response)
  BY <1>5, <1>7, BuiltSays
<1> QED  BY <1>4, <1>5, <1>6, <1>7, <1>8, <1>9

\* WriteJob writes all of the next response, and leaves tables that match.
LEMMA WriteJobReads ==
    ASSUME AInv, Wire!WriteJob
    PROVE  LET r == chan[taken + 1].sid
           IN  /\ r \in Requests
               /\ WritesTo(r)
               /\ answers'[r].ended
               /\ Follows(encoder', table')
               /\ ~confused'
               /\ writer' = writer /\ taken' = taken + 1
               /\ writer = "running" /\ taken < Len(chan)
<1>1. /\ writer = "running" /\ taken < Len(chan) /\ taken' = taken + 1
      /\ writer' = writer
  BY DEF Wire!WriteJob
<1>2. PICK job : job = chan[taken + 1]
  OBVIOUS
<1>3. PICK built : built = Wire!Build(job)
  OBVIOUS
<1>4. /\ job.sid \in Requests /\ job.response \in Made
      /\ results[job.sid] = job.response
      /\ answers[job.sid] = Wire!Nothing
      /\ Says(table, built, job.response)
  BY <1>1, <1>2, <1>3, NextJob
<1>5. encoder' = built.enc /\ Wire!Read(job.sid, built.frames)
  BY <1>2, <1>3, Zenon DEF Wire!WriteJob
<1>6. PICK frames \in Seq(Frame) : frames = built.frames
  BY <1>4 DEF Says
<1>7. PICK N \in {1, 3} : N = Len(frames)
  BY <1>4, <1>6 DEF Says
<1>8. SubSeq(frames, 1, N) = frames
  BY <1>7, SubSeqFull
<1>9. \A i \in 1 .. N : frames[i].end <=> i = N
  BY <1>4, <1>6, <1>7, Zenon DEF Says
<1>10. PICK block : /\ Hears(table, frames, block, FieldsOf(job.response))
                    /\ block.enc = built.enc
  BY <1>4, <1>6, <1>7, <1>8, Zenon DEF Says
<1>11. BodySent(frames) = BodyOf(job.response)
  BY <1>4, <1>6, <1>7, <1>8, Zenon DEF Says
<1>12. DOMAIN answers = Requests /\ ~confused
  BY DEF AInv, Typed
<1>13. /\ N \in Nat
       /\ \A i \in 1 .. N - 1 : i \in 1 .. N /\ i # N
       /\ N \in 1 .. N
  OBVIOUS
<1>14. \A i \in 1 .. N - 1 : ~frames[i].end
  BY <1>9, <1>13, Zenon
<1>15. /\ Follows(block.enc, table')
       /\ DOMAIN answers' = Requests
       /\ \A r \in Requests : r # job.sid => answers'[r] = answers[r]
       /\ answers'[job.sid].fields = FieldsOf(job.response)
       /\ answers'[job.sid].body = BodySent(frames)
       /\ answers'[job.sid].ended \in BOOLEAN
       /\ answers'[job.sid].ended <=> \E i \in 1 .. N : frames[i].end
       /\ ~confused'
  <2>1. PICK fields : fields = FieldsOf(job.response)
    OBVIOUS
  <2>2. Hears(table, frames, block, fields)
    BY <1>10, <2>1
  <2>3. Wire!Read(job.sid, frames)
    BY <1>5, <1>6
  <2>4. ReadsAll(job.sid, frames, N, block, fields)
    BY <1>4, <1>7, <1>12, <1>13, <1>14, <2>2, <2>3, ReadFirst
  <2> QED  BY <2>1, <2>4, Zenon DEF ReadsAll
<1>16. answers'[job.sid].ended = TRUE
  <2>1. frames[N].end
    BY <1>9, <1>13, Zenon
  <2> QED  BY <1>13, <1>15, <2>1
<1>17. job.response # None
  BY <1>4, NotNone
<1>18. WritesTo(job.sid)
  BY <1>4, <1>11, <1>15, <1>16, <1>17 DEF WritesTo
<1>19. Follows(encoder', table')
  BY <1>5, <1>10, <1>15, Zenon
<1> QED  BY <1>1, <1>2, <1>4, <1>15, <1>16, <1>18, <1>19

\* WriteFails writes some of it, and nothing is written after it.
LEMMA WriteFailsReads ==
    ASSUME AInv, Wire!WriteFails
    PROVE  LET r == chan[taken + 1].sid
           IN  /\ r \in Requests
               /\ WritesTo(r)
               /\ ~confused'
               /\ writer' = "failed" /\ taken' = taken /\ encoder' = encoder
<1>1. /\ writer = "running" /\ taken < Len(chan) /\ taken' = taken
      /\ writer' = "failed" /\ encoder' = encoder
  BY DEF Wire!WriteFails
<1>2. PICK job : job = chan[taken + 1]
  OBVIOUS
<1>3. PICK built : built = Wire!Build(job)
  OBVIOUS
<1>4. /\ job.sid \in Requests /\ job.response \in Made
      /\ results[job.sid] = job.response
      /\ answers[job.sid] = Wire!Nothing
      /\ Says(table, built, job.response)
  BY <1>1, <1>2, <1>3, NextJob
<1>5. PICK frames \in Seq(Frame) : frames = built.frames
  BY <1>4 DEF Says
<1>6. PICK N \in {1, 3} : N = Len(frames)
  BY <1>4, <1>5 DEF Says
<1>7. PICK n \in 0 .. N : Wire!Read(job.sid, SubSeq(frames, 1, n))
  BY <1>2, <1>3, <1>5, <1>6, Zenon DEF Wire!WriteFails
<1>8. \A i \in 1 .. N : frames[i].end <=> i = N
  BY <1>4, <1>5, <1>6, Zenon DEF Says
<1>9. PICK sent \in Seq(Frame) :
          /\ sent = SubSeq(frames, 1, n) /\ Len(sent) = n
          /\ \A i \in 1 .. n : sent[i] = frames[i]
  <2>1. \A i \in 1 .. n : frames[i] \in Frame
    <3>1. \A i \in 1 .. n : i \in 1 .. Len(frames)
      BY <1>6
    <3> QED  BY <3>1, ElementOfSeq
  <2>2. n \in Int /\ 1 \in Int
    OBVIOUS
  <2>3. /\ SubSeq(frames, 1, n) \in Seq(Frame)
        /\ Len(SubSeq(frames, 1, n)) = IF 1 <= n THEN n - 1 + 1 ELSE 0
        /\ \A i \in 1 .. n - 1 + 1 :
             SubSeq(frames, 1, n)[i] = frames[1 + i - 1]
    BY <2>1, <2>2, SubSeqProperties
  <2>4. /\ (IF 1 <= n THEN n - 1 + 1 ELSE 0) = n
        /\ n - 1 + 1 = n
        /\ \A i \in 1 .. n : 1 + i - 1 = i
    OBVIOUS
  <2> QED  BY <2>3, <2>4
<1>10. PICK block, fields :
           /\ Hears(table, sent, block, fields)
           /\ n = N => fields = FieldsOf(job.response)
  <2>1. CASE n = N
    BY <1>4, <1>5, <1>6, <1>9, <2>1, Zenon DEF Says
  <2>2. CASE n # N
    BY <1>4, <1>5, <1>6, <1>9, <2>2, Zenon DEF Says
  <2> QED  BY <2>1, <2>2
<1>11. n = N => BodySent(sent) = BodyOf(job.response)
  BY <1>4, <1>5, <1>6, <1>9, Zenon DEF Says
<1>12. DOMAIN answers = Requests /\ ~confused
  BY DEF AInv, Typed
<1>13. /\ n \in Nat
       /\ \A i \in 1 .. n - 1 : i \in 1 .. n /\ i \in 1 .. N /\ i # N
       /\ \A i \in 1 .. n : i \in 1 .. N /\ (i = N => n = N)
  OBVIOUS
<1>14. \A i \in 1 .. n - 1 : ~sent[i].end
  BY <1>8, <1>9, <1>13, Zenon
<1>15. /\ DOMAIN answers' = Requests
       /\ \A r \in Requests : r # job.sid => answers'[r] = answers[r]
       /\ answers'[job.sid].fields = fields
       /\ answers'[job.sid].body = BodySent(sent)
       /\ answers'[job.sid].ended \in BOOLEAN
       /\ answers'[job.sid].ended <=> \E i \in 1 .. n : sent[i].end
       /\ ~confused'
  <2>1. Wire!Read(job.sid, sent) /\ n = Len(sent)
    BY <1>7, <1>9
  <2>2. ReadsAll(job.sid, sent, n, block, fields)
    BY <1>4, <1>10, <1>12, <1>13, <1>14, <2>1, ReadFirst
  <2> QED  BY <2>2, Zenon DEF ReadsAll
<1>16. answers'[job.sid].ended => n = N
  BY <1>8, <1>9, <1>13, <1>15, Zenon
<1>17. job.response # None
  BY <1>4, NotNone
<1>18. WritesTo(job.sid)
  BY <1>4, <1>10, <1>11, <1>15, <1>16, <1>17 DEF WritesTo
<1> QED  BY <1>1, <1>2, <1>4, <1>15, <1>18

\* A step of the writer leaves what the tasks of the service have.
LEMMA ServiceSame ==
    ASSUME AInv, UNCHANGED dispatch_vars, DOMAIN answers' = Requests,
           taken' \in Nat, taken' <= Len(chan)
    PROVE  Typed' /\ Places' /\ OwnKeys' /\ Jobs'
<1>1. /\ requests' = requests /\ handlers' = handlers /\ queue' = queue
      /\ running' = running /\ dict' = dict /\ alive' = alive
      /\ chan' = chan /\ results' = results
  BY DEF dispatch_vars
<1>2. Typed'
  BY <1>1 DEF AInv, Typed
<1>3. Places'
  BY <1>1 DEF AInv, Places, Waits
<1>4. OwnKeys'
  BY <1>1 DEF AInv, OwnKeys
<1>5. Jobs'
  BY <1>1 DEF AInv, Jobs
<1> QED  BY <1>2, <1>3, <1>4, <1>5

\* What is read of one response leaves the others.
LEMMA ReadOfKept ==
    ASSUME AInv, UNCHANGED dispatch_vars, NEW sid \in Requests, WritesTo(sid)
    PROVE  (\A r \in Requests : ReadOf(r))'
<1>1. results' = results
  BY DEF dispatch_vars
<1> SUFFICES ASSUME NEW r \in Requests PROVE ReadOf(r)'
  OBVIOUS
<1>2. CASE r # sid
  <2>1. answers'[r] = answers[r] /\ ReadOf(r)
    BY <1>2 DEF AInv, WritesTo
  <2> QED  BY <1>1, <2>1 DEF ReadOf
<1>3. CASE r = sid
  BY <1>1, <1>3 DEF WritesTo, ReadOf
<1> QED  BY <1>2, <1>3

\* The invariant is kept by a job that is written ...
LEMMA WriteJobKeeps ==
    ASSUME AInv, Wire!WriteJob, UNCHANGED dispatch_vars
    PROVE  AInv'
<1>1. PICK sid : sid = chan[taken + 1].sid
  OBVIOUS
<1>2. /\ sid \in Requests /\ WritesTo(sid) /\ ~confused'
      /\ Follows(encoder', table')
      /\ taken' = taken + 1 /\ writer = "running" /\ taken < Len(chan)
  BY <1>1, WriteJobReads
<1>3. chan' = chan
  BY DEF dispatch_vars
<1>4. PICK N \in Nat : N = Len(chan)
  BY LenProperties DEF AInv, Typed
<1>5. taken \in Nat
  BY DEF AInv, Typed
<1>6. Typed' /\ Places' /\ OwnKeys' /\ Jobs'
  <2>1. taken' \in Nat /\ taken' <= Len(chan)
    BY <1>2, <1>4, <1>5
  <2> QED  BY <1>2, <2>1, ServiceSame DEF WritesTo
<1>7. (\A r \in Requests : ReadOf(r))'
  BY <1>2, ReadOfKept
<1>8. Writes'
  <2>1. ASSUME NEW i \in 1 .. N, i > taken + 1
        PROVE  answers'[chan[i].sid] = Wire!Nothing
    <3>1. i # taken + 1 /\ taken + 1 \in 1 .. N /\ i > taken
      BY <1>2, <1>4, <1>5, <2>1
    <3>2. chan[i].sid # sid
      BY <1>1, <1>4, <3>1 DEF AInv, Jobs
    <3>3. chan[i].sid \in Requests
      <4>1. chan[i] \in Job
        BY <1>4, ElementOfSeq DEF AInv, Typed
      <4> QED  BY <4>1 DEF Job
    <3>4. answers[chan[i].sid] = Wire!Nothing
      BY <1>2, <1>4, <3>1 DEF AInv, Writes
    <3> QED  BY <1>2, <3>2, <3>3, <3>4 DEF WritesTo
  <2>2. \A i \in 1 .. Len(chan') :
            i > taken' => answers'[chan'[i].sid] = Wire!Nothing
    BY <1>2, <1>3, <1>4, <2>1
  <2>3. Follows(encoder, table)'
    BY <1>2, Zenon
  <2> QED  BY <2>2, <2>3 DEF Writes
<1> QED  BY <1>2, <1>6, <1>7, <1>8 DEF AInv

\* ... by one that is not ...
LEMMA WriteFailsKeeps ==
    ASSUME AInv, Wire!WriteFails, UNCHANGED dispatch_vars
    PROVE  AInv'
<1>1. PICK sid : sid = chan[taken + 1].sid
  OBVIOUS
<1>2. /\ sid \in Requests /\ WritesTo(sid) /\ ~confused'
      /\ taken' = taken /\ writer' = "failed"
  BY <1>1, WriteFailsReads
<1>3. Typed' /\ Places' /\ OwnKeys' /\ Jobs'
  <2>1. taken' \in Nat /\ taken' <= Len(chan)
    BY <1>2 DEF AInv, Typed
  <2> QED  BY <1>2, <2>1, ServiceSame DEF WritesTo
<1>4. (\A r \in Requests : ReadOf(r))'
  BY <1>2, ReadOfKept
<1>5. Writes'
  BY <1>2 DEF Writes
<1> QED  BY <1>2, <1>3, <1>4, <1>5 DEF AInv

\* ... and so by every step ...
LEMMA AInvStep == AInv /\ [Next]_vars => AInv'
<1> SUFFICES ASSUME AInv, [Next]_vars PROVE AInv'
  OBVIOUS
<1>1. ASSUME NEW r \in Requests, NEW request \in Operations,
             Arrive(r, request), UNCHANGED response_vars
      PROVE  AInv'
  BY <1>1, ArriveKeeps
<1>2. ASSUME NEW r \in Requests, Dispatch(r), UNCHANGED response_vars
      PROVE  AInv'
  BY <1>2, DispatchKeeps
<1>3. ASSUME NEW r \in Requests, HandlerFails(r), UNCHANGED response_vars
      PROVE  AInv'
  BY <1>3, HandlerFailsKeeps
<1>4. ASSUME NEW s \in Shards, Receive(s), UNCHANGED response_vars
      PROVE  AInv'
  BY <1>4, ReceiveKeeps
<1>5. ASSUME NEW s \in Shards, Respond(s), UNCHANGED response_vars
      PROVE  AInv'
  BY <1>5, RespondKeeps
<1>6. ASSUME NEW s \in Shards, ShardPanics(s), UNCHANGED response_vars
      PROVE  AInv'
  BY <1>6, ShardPanicsKeeps
<1>7. CASE Serve
  BY <1>1, <1>2, <1>3, <1>4, <1>5, <1>6, <1>7 DEF Serve, DispatchNext
<1>8. CASE Write
  BY <1>8, WriteJobKeeps, WriteFailsKeeps DEF Write, Wire!ResponseNext
<1>9. CASE UNCHANGED vars
  <2>1. UNCHANGED dispatch_vars /\ UNCHANGED response_vars
    BY <1>9 DEF vars
  <2>2. chan' = chan /\ results' = results
    BY <2>1 DEF dispatch_vars
  <2>3. /\ Writes' /\ (\A r \in Requests : ReadOf(r))' /\ ~confused'
        /\ taken' \in Nat /\ taken' <= Len(chan') /\ DOMAIN answers' = Requests
    BY <2>1, <2>2, WireSame
  <2>4. Typed' /\ Places' /\ OwnKeys' /\ Jobs'
    BY <2>1, <2>2, <2>3, ServiceSame
  <2> QED  BY <2>3, <2>4 DEF AInv
<1> QED  BY <1>7, <1>8, <1>9 DEF Next

\* ... and always holds.
LEMMA AInvHolds == Spec => []AInv
  BY AInvInit, AInvStep, PTL DEF Spec

\* For every service, every table size of the client from two entries up and
\* every number of answers, the client follows the indices of the encoder and
\* meets no frame after the end of a stream (response_end.rs, hpack_encoder.rs).
THEOREM ClientFollowsHolds == Spec => []ClientFollows
<1>1. AInv => ClientFollows
  BY DEF AInv, ClientFollows
<1> QED  BY <1>1, AInvHolds, PTL

\* What an answer says is its result.
LEMMA AnswerSays ==
    ASSUME NEW answer, NEW response \in Made,
           answer.fields = FieldsOf(response), answer.body = BodyOf(response)
    PROVE  /\ Wire!Header(answer, ":status") = 200
           /\ Wire!Header(answer, "content-type") = "application/grpc"
           /\ Wire!Header(answer, "grpc-status") = response.code
           /\ DOMAIN answer.fields = 1 .. (IF response.ok THEN 4 ELSE 5)
           /\ \A i \in DOMAIN answer.fields :
                  answer.fields[i].name = "grpc-status" <=> i = 4
<1>1. PICK F : F = FieldsOf(response)
  OBVIOUS
<1>2. PICK n : n = IF response.ok THEN 4 ELSE 5
  OBVIOUS
<1>3. /\ DOMAIN F = 1 .. n
      /\ F[1] = Wire!Pair(":status", 200)
      /\ F[2] = ContentType
      /\ F[3] = Wire!Pair("grpc-accept-encoding", "gzip,deflate,zstd")
      /\ F[4] = Wire!Pair("grpc-status", response.code)
  BY <1>1, <1>2, FieldsFacts
<1>4. ~response.ok => F[5] = Wire!Pair("grpc-message", "")
  BY <1>1, FieldsFacts
<1>5. \A name, val : Wire!Pair(name, val).name = name
  BY DEF Wire!Pair
<1>6. /\ F[1].name = ":status" /\ F[1].value = 200
      /\ F[2].name = "content-type" /\ F[2].value = "application/grpc"
      /\ F[3].name = "grpc-accept-encoding"
      /\ F[4].name = "grpc-status" /\ F[4].value = response.code
  <2>1. /\ F[1].name = ":status" /\ F[2].name = "content-type"
        /\ F[3].name = "grpc-accept-encoding" /\ F[4].name = "grpc-status"
    <3>1. /\ Wire!Pair(":status", 200).name = ":status"
          /\ ContentType.name = "content-type"
          /\ Wire!Pair("grpc-accept-encoding", "gzip,deflate,zstd").name
                 = "grpc-accept-encoding"
          /\ Wire!Pair("grpc-status", response.code).name = "grpc-status"
      BY <1>5, Zenon DEF ContentType
    <3> QED  BY <1>3, <3>1, Zenon
  <2>2. /\ F[1].value = 200 /\ F[2].value = "application/grpc"
        /\ F[4].value = response.code
    <3>1. /\ Wire!Pair(":status", 200).value = 200
          /\ ContentType.value = "application/grpc"
          /\ Wire!Pair("grpc-status", response.code).value = response.code
      BY DEF Wire!Pair, ContentType
    <3> QED  BY <1>3, <3>1, Zenon
  <2> QED  BY <2>1, <2>2
<1>7. ~response.ok => F[5].name = "grpc-message"
  BY <1>4, <1>5, Zenon
<1>8. \A i \in 1 .. n : \/ i = 1 \/ i = 2 \/ i = 3 \/ i = 4
                        \/ ~response.ok /\ i = 5
  BY <1>2
<1>9. 1 \in 1 .. n /\ 2 \in 1 .. n /\ 4 \in 1 .. n
  BY <1>2
<1>10. /\ {i \in 1 .. n : F[i].name = ":status"} = {1}
       /\ {i \in 1 .. n : F[i].name = "content-type"} = {2}
       /\ {i \in 1 .. n : F[i].name = "grpc-status"} = {4}
  BY <1>6, <1>7, <1>8, <1>9
<1>11. ASSUME NEW i \in Int PROVE Wire!Min({i}) = i
  BY DEF Wire!Min
<1>12. ASSUME NEW name, NEW i \in Int, {j \in 1 .. n : F[j].name = name} = {i}
       PROVE  Wire!Header(answer, name) = F[i].value
  <2>1. {j \in DOMAIN answer.fields : answer.fields[j].name = name} = {i}
    BY <1>1, <1>3, <1>12
  <2>2. Wire!Header(answer, name) = answer.fields[Wire!Min({i})].value
    BY <2>1 DEF Wire!Header
  <2> QED  BY <1>1, <1>11, <2>2
<1>13. \A i \in 1 .. n : F[i].name = "grpc-status" <=> i = 4
  BY <1>6, <1>7, <1>8
<1>14. /\ Wire!Header(answer, ":status") = F[1].value
       /\ Wire!Header(answer, "content-type") = F[2].value
       /\ Wire!Header(answer, "grpc-status") = F[4].value
  BY <1>10, <1>12
<1>16. answer.fields = F /\ DOMAIN answer.fields = 1 .. n
  BY <1>1, <1>3
<1>17. \A i \in DOMAIN answer.fields :
           answer.fields[i].name = "grpc-status" <=> i = 4
  BY <1>13, <1>16, Zenon
<1> QED  BY <1>2, <1>6, <1>14, <1>16, <1>17, Zenon

\* An answer that has ended is the result of its request.
LEMMA AnswerIsResult ==
    ASSUME AInv, NEW r \in Requests, answers[r].ended
    PROVE  AnswerRead(r) = results[r]
<1>1. /\ results[r] \in Made
      /\ answers[r].fields = FieldsOf(results[r])
      /\ answers[r].body = BodyOf(results[r])
  BY DEF AInv, Typed, ReadOf
<1>2. PICK response \in Made : response = results[r]
  BY <1>1
<1>3. Wire!Header(answers[r], "grpc-status") = response.code
  BY <1>1, <1>2, AnswerSays
<1>4. PICK body : body = IF answers[r].body = <<>> THEN None
                                                 ELSE Last(answers[r].body)
  OBVIOUS
<1>5. AnswerRead(r) = [ok |-> response.code = 0, code |-> response.code,
                       body |-> body]
  BY <1>3, <1>4 DEF AnswerRead
<1>6. CASE response.ok
  <2>1. PICK reply \in Bodies : response = Reply(reply)
    BY <1>6 DEF Made, Reply, Status
  <2>2. answers[r].body = <<reply>>
    BY <1>1, <1>2, <1>6, <2>1 DEF BodyOf, Reply
  <2>3. <<reply>> # <<>> /\ Last(<<reply>>) = reply
    BY DEF Last
  <2>4. body = reply
    BY <1>4, <2>2, <2>3
  <2>5. response = [ok |-> TRUE, code |-> 0, body |-> reply]
    BY <2>1 DEF Reply
  <2>6. response.code = 0
    BY <2>5
  <2>7. AnswerRead(r) = [ok |-> TRUE, code |-> 0, body |-> reply]
    BY <1>5, <2>4, <2>6
  <2> QED  BY <1>2, <2>5, <2>7
<1>7. CASE ~response.ok
  <2>1. PICK code \in {NOT_FOUND, UNAVAILABLE} : response = Status(code)
    BY <1>7 DEF Made, Reply, Status
  <2>2. answers[r].body = <<>>
    BY <1>1, <1>2, <1>7 DEF BodyOf
  <2>3. body = None
    BY <1>4, <2>2
  <2>4. code # 0
    BY DEF NOT_FOUND, UNAVAILABLE
  <2>5. response = [ok |-> FALSE, code |-> code, body |-> None]
    BY <2>1 DEF Status
  <2>6. response.code = code
    BY <2>5
  <2>7. AnswerRead(r) = [ok |-> FALSE, code |-> code, body |-> None]
    BY <1>5, <2>3, <2>4, <2>6
  <2> QED  BY <1>2, <2>5, <2>7
<1> QED  BY <1>6, <1>7

\* Every answer that has ended reads as status 200, the content type, and one
\* grpc-status, with one message if it is a reply (http2.rs build_response and
\* build_status), whatever the writer has written before it.
THEOREM HeadingsHold == Spec => []Headings
<1>1. ASSUME AInv, NEW r \in Requests, answers[r].ended
      PROVE  /\ Wire!Header(answers[r], ":status") = 200
             /\ Wire!Header(answers[r], "content-type") = "application/grpc"
             /\ \E i \in DOMAIN answers[r].fields :
                    \A j \in DOMAIN answers[r].fields :
                        answers[r].fields[j].name = "grpc-status" <=> j = i
             /\ Len(answers[r].body) = IF AnswerRead(r).ok THEN 1 ELSE 0
  <2>1. PICK response \in Made :
            /\ results[r] = response
            /\ answers[r].fields = FieldsOf(response)
            /\ answers[r].body = BodyOf(response)
    BY <1>1 DEF AInv, Typed, ReadOf
  <2>2. AnswerRead(r) = response
    BY <1>1, <2>1, AnswerIsResult
  <2>3. PICK answer : answer = answers[r]
    OBVIOUS
  <2>4. /\ Wire!Header(answer, ":status") = 200
        /\ Wire!Header(answer, "content-type") = "application/grpc"
        /\ DOMAIN answer.fields = 1 .. (IF response.ok THEN 4 ELSE 5)
        /\ \A i \in DOMAIN answer.fields :
               answer.fields[i].name = "grpc-status" <=> i = 4
    BY <2>1, <2>3, AnswerSays
  <2>5. 4 \in DOMAIN answer.fields
    BY <2>4
  <2>6. Len(BodyOf(response)) = IF response.ok THEN 1 ELSE 0
    BY DEF BodyOf
  <2>7. \E i \in DOMAIN answer.fields : \A j \in DOMAIN answer.fields :
            answer.fields[j].name = "grpc-status" <=> j = i
    BY <2>4, <2>5, Zenon
  <2> QED  BY <2>1, <2>2, <2>3, <2>4, <2>6, <2>7
<1>2. AInv => Headings
  BY <1>1 DEF Headings
<1> QED  BY <1>2, AInvHolds, PTL

\* How far a request is, one case after the other.
StatusIs(r) ==
    IF answers[r].ended THEN "answered"
    ELSE IF results[r] # None THEN "applied"
    ELSE IF requests[r] # None THEN "invoked" ELSE "new"

\* What a state stands for in the promise.
LEMMA Mapped ==
    AInv => /\ \A r \in Requests : StatusOf(r) = StatusIs(r)
            /\ [r \in Requests |-> IF answers[r].ended THEN AnswerRead(r)
                                                       ELSE results[r]]
                   = results
<1> SUFFICES ASSUME AInv
             PROVE  /\ \A r \in Requests : StatusOf(r) = StatusIs(r)
                    /\ [r \in Requests |-> IF answers[r].ended THEN AnswerRead(r)
                                                               ELSE results[r]]
                           = results
  OBVIOUS
<1>1. ASSUME NEW r \in Requests PROVE StatusOf(r) = StatusIs(r)
  <2>1. /\ answers[r].ended => results[r] # None
        /\ results[r] # None => requests[r] # None
    BY DEF AInv, ReadOf, Places
  <2>2. CASE answers[r].ended
    BY <2>1, <2>2 DEF StatusOf, StatusIs
  <2>3. CASE ~answers[r].ended /\ results[r] # None
    BY <2>1, <2>3 DEF StatusOf, StatusIs
  <2>4. CASE results[r] = None /\ requests[r] # None
    BY <2>1, <2>4 DEF StatusOf, StatusIs
  <2>5. CASE requests[r] = None
    BY <2>1, <2>5 DEF StatusOf, StatusIs
  <2> QED  BY <2>2, <2>3, <2>4, <2>5
<1>2. [r \in Requests |-> IF answers[r].ended THEN AnswerRead(r)
                                              ELSE results[r]]
          = [r \in Requests |-> results[r]]
  BY AnswerIsResult
<1>3. results = [r \in Requests |-> results[r]]
  BY DEF AInv, Typed
<1> QED  BY <1>1, <1>2, <1>3

\* So does the state after a step.
LEMMA MappedNext ==
    AInv' => /\ (\A r \in Requests : StatusOf(r) = StatusIs(r))'
             /\ ([r \in Requests |-> IF answers[r].ended THEN AnswerRead(r)
                                                        ELSE results[r]]
                    = results)'
  BY Mapped, PTL

-----------------------------------------------------------------------------
(* Every step keeps the promise                                            *)

\* The variables of the promise, as the refinement mapping has them.
Stored   == [key \in Keys |-> StoreOf(key)]
Progress == [r \in Requests |-> StatusIs(r)]
Result   == [r \in Requests |-> IF answers[r].ended THEN AnswerRead(r)
                                                    ELSE results[r]]

\* The mapping, under the invariant ...
LEMMA Abstracted ==
    AInv => /\ [r \in Requests |-> StatusOf(r)] = Progress
            /\ Result = results
  BY Mapped DEF Progress, Result

\* ... and after a step.
LEMMA AbstractedNext ==
    AInv' => /\ [r \in Requests |-> StatusOf(r)]' = Progress'
             /\ Result' = results'
<1>1. AInv' => ([r \in Requests |-> StatusOf(r)] = Progress /\ Result = results)'
  BY Abstracted, PTL
<1> QED  BY <1>1

\* Only dictionaries decide what is stored.
LEMMA StoredSame == dict' = dict => Stored' = Stored
  BY DEF Stored, StoreOf

\* A request that arrives is invoked.
LEMMA ArriveInvokes ==
    ASSUME AInv, AInv', NEW r \in Requests, NEW request \in Operations,
           Arrive(r, request), UNCHANGED response_vars
    PROVE  Promise!Invoke(r, request)
<1>1. /\ requests[r] = None
      /\ requests' = [requests EXCEPT ![r] = request]
      /\ dict' = dict /\ alive' = alive /\ results' = results
      /\ answers' = answers
  BY DEF Arrive, response_vars
<1>2. request # None
  BY NotNone
<1>3. results[r] = None /\ ~answers[r].ended
  BY <1>1 DEF AInv, Places, ReadOf
<1>4. requests \in [Requests -> Operations \cup {None}]
  BY DEF AInv, Typed
<1>5. Progress[r] = "new" /\ Progress' = [Progress EXCEPT ![r] = "invoked"]
  BY <1>1, <1>2, <1>3, <1>4 DEF Progress, StatusIs
<1>6. Stored' = Stored
  BY <1>1, StoredSame
<1>7. Result' = Result
  BY <1>1, Abstracted, AbstractedNext
<1>8. (Shards \ alive)' = Shards \ alive
  BY <1>1
<1> QED
  BY <1>1, <1>5, <1>6, <1>7, <1>8, Abstracted, AbstractedNext
     DEF Promise!Invoke, Stored, Result

\* A request that waits has been invoked and no more.
LEMMA WaitsInvoked ==
    ASSUME AInv, NEW r \in Requests, requests[r] # None, results[r] = None
    PROVE  /\ Progress[r] = "invoked"
           /\ ~answers[r].ended
           /\ requests[r] \in Operations
           /\ dispatch_to(requests[r]) \in Shards
           /\ [o \in Operations |-> dispatch_to(o)][requests[r]]
                  = dispatch_to(requests[r])
<1>1. requests[r] \in Operations
  BY DEF AInv, Typed
<1>2. ~answers[r].ended
  BY DEF AInv, ReadOf
<1>3. Progress[r] = "invoked"
  BY <1>2 DEF Progress, StatusIs
<1> QED  BY <1>1, <1>2, <1>3, PartInShards

\* A response that is made moves its request on.
LEMMA MakesProgress ==
    ASSUME AInv, NEW r \in Requests, NEW response \in Made,
           requests[r] # None, results[r] = None,
           send_response_box(r, response),
           requests' = requests, answers' = answers
    PROVE  /\ Progress' = [Progress EXCEPT ![r] = "applied"]
           /\ results' = [results EXCEPT ![r] = response]
<1>1. results' = [results EXCEPT ![r] = response]
  BY DEF send_response_box
<1>2. response # None
  BY NotNone
<1>3. results \in [Requests -> Made \cup {None}]
  BY DEF AInv, Typed
<1>4. ~answers[r].ended
  BY DEF AInv, ReadOf
<1>5. Progress' = [Progress EXCEPT ![r] = "applied"]
  BY <1>1, <1>2, <1>3, <1>4 DEF Progress, StatusIs
<1> QED  BY <1>1, <1>5

\* A request that is dispatched is refused if its shard has gone.
LEMMA DispatchKeepsPromise ==
    ASSUME AInv, AInv', NEW r \in Requests, Dispatch(r),
           UNCHANGED response_vars
    PROVE  Promise!Refuse(r) \/ UNCHANGED Promise!vars
<1>1. PICK s : s = dispatch_to(requests[r])
  OBVIOUS
<1>2. /\ r \in handlers
      /\ requests' = requests /\ dict' = dict /\ alive' = alive
      /\ answers' = answers
  BY DEF Dispatch, response_vars
<1>3. requests[r] # None /\ results[r] = None
  BY <1>2 DEF AInv, Places
<1>4. /\ Progress[r] = "invoked" /\ s \in Shards
      /\ [o \in Operations |-> dispatch_to(o)][requests[r]] = s
  BY <1>1, <1>3, WaitsInvoked
<1>5. Stored' = Stored /\ (Shards \ alive)' = Shards \ alive
  BY <1>2, StoredSame
<1>6. CASE s \in alive
  <2>1. results' = results
    BY <1>1, <1>6 DEF Dispatch
  <2>2. Progress' = Progress
    BY <1>2, <2>1 DEF Progress, StatusIs
  <2>3. Result' = Result
    BY <2>1, Abstracted, AbstractedNext
  <2> QED  BY <1>2, <1>5, <2>2, <2>3, Abstracted, AbstractedNext
           DEF Promise!vars, Stored, Result
<1>7. CASE s \notin alive
  <2>1. send_response_box(r, Status(UNAVAILABLE))
    BY <1>1, <1>7 DEF Dispatch
  <2>2. Status(UNAVAILABLE) \in Made
    BY DEF Made
  <2>3. /\ Progress' = [Progress EXCEPT ![r] = "applied"]
        /\ results' = [results EXCEPT ![r] = Status(UNAVAILABLE)]
    BY <1>2, <1>3, <2>1, <2>2, MakesProgress
  <2>4. Status(UNAVAILABLE) = Promise!Unavailable
    BY DEF Status, UNAVAILABLE, Promise!Unavailable
  <2>5. Result' = [Result EXCEPT ![r] = Promise!Unavailable]
    BY <2>3, <2>4, Abstracted, AbstractedNext
  <2>6. Promise!Give(r, Promise!Unavailable)
    BY <1>2, <1>5, <2>3, <2>5, Abstracted, AbstractedNext
       DEF Promise!Give, Result
  <2>7. s \in Shards \ alive
    BY <1>4, <1>7
  <2> QED  BY <1>4, <1>5, <2>6, <2>7, Abstracted
           DEF Promise!Refuse, Stored
<1> QED  BY <1>6, <1>7

\* What the promise has stored of a shard that still runs.
LEMMA StoredIs ==
    ASSUME AInv, NEW key \in Keys, NEW s \in Shards,
           s = hash_key[key] % NumShards
    PROVE  /\ Stored[key] = IF key \in DOMAIN dict[s] THEN dict[s][key]
                                                    ELSE None
           /\ key \in DOMAIN dict[s] => dict[s][key] # None
<1>1. dict[s] \in Dictionary
  BY DEF AInv, Typed
<1>2. key \in DOMAIN dict[s] => dict[s][key] # None
  BY <1>1, DictionaryFacts, NotNone
<1>3. Stored[key] = IF key \in DOMAIN dict[s] THEN dict[s][key] ELSE None
  BY DEF Stored, StoreOf
<1> QED  BY <1>2, <1>3

\* What get and delete find is what the promise finds.
LEMMA FoundIs ==
    ASSUME AInv, NEW key \in Keys, NEW s \in Shards,
           s = hash_key[key] % NumShards
    PROVE  Promise!Found(key) = Lookup(dict[s], key)
<1>1. Promise!Found(key) = IF Stored[key] = None THEN Promise!NotFound
                                                 ELSE Promise!Ok(Stored[key])
  BY DEF Promise!Found, Stored
<1>2. CASE key \in DOMAIN dict[s]
  <2>1. Promise!Found(key) = Promise!Ok(dict[s][key])
    BY <1>1, <1>2, StoredIs
  <2> QED  BY <1>2, <2>1 DEF Lookup, Promise!Ok, Reply
<1>3. CASE key \notin DOMAIN dict[s]
  <2>1. Promise!Found(key) = Promise!NotFound
    BY <1>1, <1>3, StoredIs
  <2> QED  BY <1>3, <2>1 DEF Lookup, Promise!NotFound, Status, NOT_FOUND
<1> QED  BY <1>2, <1>3

\* What list_shard lists is what the promise lists.
LEMMA ListingIs ==
    ASSUME AInv, NEW s \in Shards
    PROVE  Promise!Listing(s) = {<<k, dict[s][k]>> : k \in DOMAIN dict[s]}
<1>1. PICK Part : Part = [key \in Keys |-> hash_key[key] % NumShards]
  OBVIOUS
<1>2. PICK kept : kept = {key \in Keys : Stored[key] # None /\ Part[key] = s}
  OBVIOUS
<1>3. Promise!Listing(s) = {<<k, Stored[k]>> : k \in kept}
  BY <1>1, <1>2 DEF Promise!Listing, Stored
<1>4. DOMAIN dict[s] \subseteq Keys
  BY DictionaryFacts DEF AInv, Typed
<1>5. \A key \in Keys : hash_key[key] % NumShards \in Shards
  BY ShardsAssumption DEF Shards
<1>6. kept = DOMAIN dict[s]
  <2>1. ASSUME NEW key \in kept PROVE key \in DOMAIN dict[s]
    <3>1. key \in Keys /\ Stored[key] # None /\ hash_key[key] % NumShards = s
      BY <1>1, <1>2, <2>1
    <3> QED  BY <3>1, StoredIs
  <2>2. ASSUME NEW key \in DOMAIN dict[s] PROVE key \in kept
    <3>1. key \in Keys /\ hash_key[key] % NumShards = s
      BY <1>4 DEF AInv, OwnKeys
    <3>2. Stored[key] # None
      BY <3>1, StoredIs
    <3> QED  BY <1>1, <1>2, <3>1, <3>2
  <2> QED  BY <2>1, <2>2
<1>7. \A k \in kept : Stored[k] = dict[s][k]
  <2> SUFFICES ASSUME NEW k \in kept PROVE Stored[k] = dict[s][k]
    OBVIOUS
  <2>1. k \in Keys /\ hash_key[k] % NumShards = s
    BY <1>1, <1>2
  <2> QED  BY <1>6, <2>1, StoredIs
<1>8. {<<k, Stored[k]>> : k \in kept} = {<<k, dict[s][k]>> : k \in DOMAIN dict[s]}
  BY <1>6, <1>7
<1> QED  BY <1>3, <1>8

\* A request takes effect in the step in which its shard answers.
LEMMA RespondApplies ==
    ASSUME AInv, AInv', NEW s \in Shards, Respond(s), UNCHANGED response_vars
    PROVE  \E r \in Requests : Promise!Apply(r)
<1>1. PICK r \in running[s] :
          LET done == handle_request(dict[s], requests[r])
          IN  /\ dict' = [dict EXCEPT ![s] = done.dict]
              /\ running' = [running EXCEPT ![s] = {}]
              /\ send_response_box(r, done.reply)
              /\ UNCHANGED <<requests, handlers, queue, alive, abandoned>>
  BY DEF Respond
<1>2. PICK done : done = handle_request(dict[s], requests[r])
  OBVIOUS
<1>3. PICK d \in Dictionary : d = dict[s]
  BY DEF AInv, Typed
<1>4. /\ dict' = [dict EXCEPT ![s] = done.dict]
      /\ send_response_box(r, done.reply)
      /\ requests' = requests /\ alive' = alive /\ answers' = answers
  BY <1>1, <1>2, Zenon DEF response_vars
<1>5. r \in Requests /\ Waits(r, s)
  BY QueuedAreRequests DEF AInv, Places
<1>6. PICK o \in Operations : o = requests[r]
  BY <1>5, WaitsInvoked DEF Waits
<1>7. /\ dispatch_to(o) = s /\ results[r] = None /\ requests[r] # None
  BY <1>5, <1>6 DEF Waits
<1>8. /\ Progress[r] = "invoked"
      /\ [p \in Operations |-> dispatch_to(p)][o] = s
  BY <1>5, <1>6, <1>7, WaitsInvoked
<1>9. s \in alive
  BY DEF AInv, Places
<1>10. done.reply \in Made
  BY <1>2, <1>3, <1>6, Handled
<1>11. /\ Progress' = [Progress EXCEPT ![r] = "applied"]
       /\ results' = [results EXCEPT ![r] = done.reply]
  BY <1>4, <1>5, <1>7, <1>10, MakesProgress
<1>12. (Shards \ alive)' = Shards \ alive
  BY <1>4
<1>13. Result' = [Result EXCEPT ![r] = done.reply]
  BY <1>11, Abstracted, AbstractedNext
<1>14. /\ [q \in Requests |-> StatusOf(q)]'
              = [[q \in Requests |-> StatusOf(q)] EXCEPT ![r] = "applied"]
       /\ UNCHANGED <<requests, Shards \ alive>>
  BY <1>4, <1>11, <1>12, Abstracted, AbstractedNext
<1>15. dict \in [Shards -> Dictionary]
  BY DEF AInv, Typed
<1>16. o \in RequestType
  BY <1>6, OperationsAssumption
<1>17. ASSUME done.dict = d PROVE Stored' = Stored
  <2>1. dict' = dict
    BY <1>3, <1>4, <1>15, <1>17
  <2> QED  BY <2>1, StoredSame
<1>18. /\ [q \in Requests |-> StatusOf(q)][r] = "invoked"
       /\ [p \in Operations |-> dispatch_to(p)][requests[r]] \notin Shards \ alive
  BY <1>6, <1>8, <1>9, Abstracted
<1>19. CASE o.op = "get"
  <2>1. o.key \in Keys /\ hash_key[o.key] % NumShards = s
    BY <1>7, <1>16, <1>19 DEF RequestType, dispatch_to
  <2>2. done = [reply |-> Lookup(d, o.key), dict |-> d]
    BY <1>2, <1>3, <1>6, <1>19 DEF handle_request, get
  <2>3. done.reply = Promise!Found(o.key) /\ done.dict = d
    BY <1>3, <2>1, <2>2, FoundIs
  <2>4. /\ Result' = [Result EXCEPT ![r] = Promise!Found(o.key)]
        /\ Stored' = Stored
    BY <1>13, <1>17, <2>3
  <2> QED  BY <1>5, <1>6, <1>14, <1>18, <1>19, <2>4
           DEF Promise!Apply, Promise!Give, Stored, Result
<1>20. CASE o.op = "list"
  <2>1. done = [reply |-> Reply({<<k, d[k]>> : k \in DOMAIN d}), dict |-> d]
    BY <1>2, <1>3, <1>6, <1>20 DEF handle_request, list_shard
  <2>2. Promise!Listing(s) = {<<k, d[k]>> : k \in DOMAIN d}
    BY <1>3, ListingIs
  <2>3. Promise!Ok(Promise!Listing(s)) = Reply({<<k, d[k]>> : k \in DOMAIN d})
    BY <2>2 DEF Promise!Ok, Reply
  <2>4. done.reply = Promise!Ok(Promise!Listing(s)) /\ done.dict = d
    BY <2>1, <2>3
  <2>5. /\ Result' = [Result EXCEPT ![r] = Promise!Ok(Promise!Listing(s))]
        /\ Stored' = Stored
    BY <1>13, <1>17, <2>4
  <2> QED  BY <1>5, <1>6, <1>8, <1>14, <1>18, <1>20, <2>5
           DEF Promise!Apply, Promise!Give, Stored, Result
<1>21. \A p \in Shards : p # s => dict'[p] = dict[p]
  BY <1>4, <1>15
<1>22. dict'[s] = done.dict
  BY <1>4, <1>15
<1>23. \A key \in Keys : hash_key[key] % NumShards \in Shards
  BY ShardsAssumption DEF Shards
<1>24. ASSUME NEW key \in Keys, hash_key[key] % NumShards # s
       PROVE  Stored'[key] = Stored[key]
  BY <1>21, <1>23, <1>24 DEF Stored, StoreOf
<1>25. ASSUME NEW key \in Keys, hash_key[key] % NumShards = s
       PROVE  Stored'[key] = IF key \in DOMAIN done.dict THEN done.dict[key]
                                                        ELSE None
  BY <1>22, <1>25 DEF Stored, StoreOf
<1>26. ASSUME NEW key \in Keys, hash_key[key] % NumShards = s
       PROVE  Stored[key] = IF key \in DOMAIN d THEN d[key] ELSE None
  BY <1>3, <1>26, StoredIs
<1>27. CASE o.op = "set"
  <2>1. o.key \in Keys /\ hash_key[o.key] % NumShards = s
    BY <1>7, <1>16, <1>27 DEF RequestType, dispatch_to
  <2>2. PICK old : old = (IF o.key \in DOMAIN d THEN d[o.key] ELSE None)
    OBVIOUS
  <2>3. PICK new : new = [k \in DOMAIN d \cup {o.key} |->
                            IF k = o.key THEN o.value ELSE d[k]]
    OBVIOUS
  <2>4. done = [reply |-> Reply(old), dict |-> new]
    BY <1>2, <1>3, <1>6, <1>27, <2>2, <2>3 DEF handle_request, set
  <2>5. Stored[o.key] = old
    BY <1>26, <2>1, <2>2
  <2>6. done.reply = Promise!Ok(Stored[o.key])
    BY <2>4, <2>5 DEF Promise!Ok, Reply
  <2>7. Stored' = [Stored EXCEPT ![o.key] = o.value]
    <3>1. ASSUME NEW key \in Keys
          PROVE  Stored'[key] = [Stored EXCEPT ![o.key] = o.value][key]
      <4>1. CASE hash_key[key] % NumShards # s
        BY <1>24, <2>1, <4>1 DEF Stored
      <4>2. CASE hash_key[key] % NumShards = s /\ key = o.key
        BY <1>25, <2>1, <2>3, <2>4, <4>2 DEF Stored
      <4>3. CASE hash_key[key] % NumShards = s /\ key # o.key
        <5>1. Stored'[key] = Stored[key]
          BY <1>25, <1>26, <2>3, <2>4, <4>3
        <5> QED  BY <4>3, <5>1 DEF Stored
      <4> QED  BY <4>1, <4>2, <4>3
    <3>2. /\ Stored' = [key \in Keys |-> Stored'[key]]
          /\ [Stored EXCEPT ![o.key] = o.value]
                 = [key \in Keys |-> [Stored EXCEPT ![o.key] = o.value][key]]
      BY DEF Stored
    <3> QED  BY <3>1, <3>2
  <2>8. Result' = [Result EXCEPT ![r] = Promise!Ok(Stored[o.key])]
    BY <1>13, <2>6
  <2> QED  BY <1>5, <1>6, <1>14, <1>18, <1>27, <2>7, <2>8
           DEF Promise!Apply, Promise!Give, Stored, Result
<1>28. CASE o.op = "delete"
  <2>1. o.key \in Keys /\ hash_key[o.key] % NumShards = s
    BY <1>7, <1>16, <1>28 DEF RequestType, dispatch_to
  <2>2. PICK new : new = [k \in DOMAIN d \ {o.key} |-> d[k]]
    OBVIOUS
  <2>3. done = [reply |-> Lookup(d, o.key), dict |-> new]
    BY <1>2, <1>3, <1>6, <1>28, <2>2 DEF handle_request, delete
  <2>4. done.reply = Promise!Found(o.key)
    BY <1>3, <2>1, <2>3, FoundIs
  <2>5. Stored' = [Stored EXCEPT ![o.key] = None]
    <3>1. ASSUME NEW key \in Keys
          PROVE  Stored'[key] = [Stored EXCEPT ![o.key] = None][key]
      <4>1. CASE hash_key[key] % NumShards # s
        BY <1>24, <2>1, <4>1 DEF Stored
      <4>2. CASE hash_key[key] % NumShards = s /\ key = o.key
        BY <1>25, <2>1, <2>2, <2>3, <4>2 DEF Stored
      <4>3. CASE hash_key[key] % NumShards = s /\ key # o.key
        <5>1. Stored'[key] = Stored[key]
          BY <1>25, <1>26, <2>2, <2>3, <4>3
        <5> QED  BY <4>3, <5>1 DEF Stored
      <4> QED  BY <4>1, <4>2, <4>3
    <3>2. /\ Stored' = [key \in Keys |-> Stored'[key]]
          /\ [Stored EXCEPT ![o.key] = None]
                 = [key \in Keys |-> [Stored EXCEPT ![o.key] = None][key]]
      BY DEF Stored
    <3> QED  BY <3>1, <3>2
  <2>6. Result' = [Result EXCEPT ![r] = Promise!Found(o.key)]
    BY <1>13, <2>4
  <2> QED  BY <1>5, <1>6, <1>14, <1>18, <1>28, <2>5, <2>6
           DEF Promise!Apply, Promise!Give, Stored, Result
<1>29. o.op \in {"get", "set", "delete", "list"}
  BY <1>16 DEF RequestType
<1> QED  BY <1>19, <1>20, <1>27, <1>28, <1>29

\* A shard that panics is a part that fails.
LEMMA ShardPanicsFails ==
    ASSUME AInv, AInv', NEW s \in Shards, ShardPanics(s),
           UNCHANGED response_vars
    PROVE  Promise!PartFails(s)
<1>1. /\ running[s] # {} /\ alive' = alive \ {s}
      /\ requests' = requests /\ dict' = dict /\ results' = results
      /\ answers' = answers
  BY DEF ShardPanics, response_vars
<1>2. s \in alive
  BY <1>1 DEF AInv, Places
<1>3. (Shards \ alive)' = (Shards \ alive) \cup {s}
  BY <1>1, <1>2
<1>4. Stored' = Stored /\ Result' = Result
  BY <1>1, StoredSame, Abstracted, AbstractedNext
<1>5. Progress' = Progress
  BY <1>1 DEF Progress, StatusIs
<1> QED  BY <1>1, <1>2, <1>3, <1>4, <1>5, Abstracted, AbstractedNext
         DEF Promise!PartFails, Stored, Result

\* The client reads the end of a response, or not.
LEMMA WriterKeepsPromise ==
    ASSUME AInv, AInv', NEW r \in Requests, WritesTo(r),
           UNCHANGED dispatch_vars
    PROVE  Promise!Answer(r) \/ UNCHANGED Promise!vars
<1>1. /\ requests' = requests /\ dict' = dict /\ results' = results
      /\ alive' = alive
  BY DEF dispatch_vars
<1>2. /\ results[r] # None /\ answers'[r].ended \in BOOLEAN
      /\ \A q \in Requests : q # r => answers'[q] = answers[q]
  BY DEF WritesTo
<1>3. answers[r].ended = FALSE
  BY DEF WritesTo, Wire!Nothing
<1>4. Stored' = Stored /\ Result' = Result /\ (Shards \ alive)' = Shards \ alive
  BY <1>1, StoredSame, Abstracted, AbstractedNext
<1>5. CASE answers'[r].ended
  <2>1. Progress[r] = "applied"
    BY <1>2, <1>3 DEF Progress, StatusIs
  <2>2. Progress' = [Progress EXCEPT ![r] = "answered"]
    BY <1>1, <1>2, <1>3, <1>5 DEF Progress, StatusIs
  <2> QED  BY <1>1, <1>4, <2>1, <2>2, Abstracted, AbstractedNext
           DEF Promise!Answer, Stored, Result
<1>6. CASE ~answers'[r].ended
  <2>1. Progress' = Progress
    BY <1>1, <1>2, <1>3, <1>6 DEF Progress, StatusIs
  <2> QED  BY <1>1, <1>4, <2>1, Abstracted, AbstractedNext
           DEF Promise!vars, Stored, Result
<1> QED  BY <1>5, <1>6

\* A step that changes neither requests, dictionaries, results, the shards
\* that run nor what has been read is none of the promise's business.
LEMMA Unpromised ==
    ASSUME AInv, AInv', requests' = requests, dict' = dict,
           results' = results, alive' = alive, answers' = answers
    PROVE  UNCHANGED Promise!vars
<1>1. Stored' = Stored /\ Result' = Result /\ (Shards \ alive)' = Shards \ alive
  BY StoredSame, Abstracted, AbstractedNext
<1>2. Progress' = Progress
  BY DEF Progress, StatusIs
<1> QED  BY <1>1, <1>2, Abstracted, AbstractedNext
         DEF Promise!vars, Stored, Result

\* The promise holds at first ...
LEMMA PromisedInit == Init => Promise!Init
<1> SUFFICES ASSUME Init PROVE Promise!Init
  OBVIOUS
<1>1. AInv
  BY AInvInit
<1>2. /\ requests = [r \in Requests |-> None]
      /\ results = [r \in Requests |-> None]
      /\ dict = [s \in Shards |-> [k \in {} |-> None]]
      /\ alive = Shards
      /\ answers = [r \in Requests |-> Wire!Nothing]
  BY DEF Init, DispatchInit, Wire!ResponseInit
<1>3. \A key \in Keys : hash_key[key] % NumShards \in Shards
  BY ShardsAssumption DEF Shards
<1>4. Stored = [k \in Keys |-> None]
  BY <1>2, <1>3 DEF Stored, StoreOf
<1>5. \A r \in Requests : answers[r].ended = FALSE
  BY <1>2 DEF Wire!Nothing
<1>6. Progress = [r \in Requests |-> "new"]
  BY <1>2, <1>5 DEF Progress, StatusIs
<1>7. Result = [r \in Requests |-> None]
  BY <1>1, <1>2, Abstracted
<1>8. Shards \ alive = {}
  BY <1>2
<1> QED  BY <1>1, <1>2, <1>4, <1>6, <1>7, <1>8, Abstracted
         DEF Promise!Init, Stored, Result

\* ... and every step is one of the promise, or none.
LEMMA PromisedStep == AInv /\ AInv' /\ [Next]_vars => [Promise!Next]_(Promise!vars)
<1> SUFFICES ASSUME AInv, AInv', [Next]_vars
             PROVE  Promise!Next \/ UNCHANGED Promise!vars
  OBVIOUS
<1>1. ASSUME NEW r \in Requests, NEW request \in Operations,
             Arrive(r, request), UNCHANGED response_vars
      PROVE  Promise!Next
  BY <1>1, ArriveInvokes DEF Promise!Next
<1>2. ASSUME NEW r \in Requests, Dispatch(r), UNCHANGED response_vars
      PROVE  Promise!Next \/ UNCHANGED Promise!vars
  BY <1>2, DispatchKeepsPromise DEF Promise!Next
<1>3. ASSUME NEW r \in Requests, HandlerFails(r), UNCHANGED response_vars
      PROVE  UNCHANGED Promise!vars
  BY <1>3, Unpromised DEF HandlerFails, response_vars
<1>4. ASSUME NEW s \in Shards, Receive(s), UNCHANGED response_vars
      PROVE  UNCHANGED Promise!vars
  BY <1>4, Unpromised DEF Receive, response_vars
<1>5. ASSUME NEW s \in Shards, Respond(s), UNCHANGED response_vars
      PROVE  Promise!Next
  BY <1>5, RespondApplies DEF Promise!Next
<1>6. ASSUME NEW s \in Shards, ShardPanics(s), UNCHANGED response_vars
      PROVE  Promise!Next
  BY <1>6, ShardPanicsFails DEF Promise!Next
<1>7. CASE Serve
  BY <1>1, <1>2, <1>3, <1>4, <1>5, <1>6, <1>7 DEF Serve, DispatchNext
<1>8. CASE Write
  <2>1. UNCHANGED dispatch_vars
    BY <1>8 DEF Write
  <2>2. PICK r : r = chan[taken + 1].sid
    OBVIOUS
  <2>3. r \in Requests /\ WritesTo(r)
    BY <1>8, <2>2, WriteJobReads, WriteFailsReads DEF Write, Wire!ResponseNext
  <2> QED  BY <2>1, <2>3, WriterKeepsPromise DEF Promise!Next
<1>9. CASE UNCHANGED vars
  BY <1>9, Unpromised DEF vars, dispatch_vars, response_vars
<1> QED  BY <1>7, <1>8, <1>9 DEF Next

\* For every set of requests, keys and values, every number of shards and every
\* hash, the service implements Store: every answer that a client reads is the
\* result of its request at one moment between its arrival and its answer,
\* through dispatch.rs, the writer task and the header compression, with shards
\* that panic and a connection that breaks.
THEOREM LinearizableHolds == Spec => Linearizable
<1>1. Spec => []AInv
  BY AInvHolds
<1> QED  BY <1>1, PromisedInit, PromisedStep, PTL
         DEF Spec, Linearizable, Promise!Spec

\* Where NoneForgotten has a request be.
Kept(r) ==
    LET s == dispatch_to(requests[r])
    IN  \/ r \in handlers \cup abandoned
        \/ \E i \in 1 .. Len(queue[s]) : queue[s][i] = r
        \/ r \in running[s]
        \/ results[r] # None

\* NoneForgotten, request by request ...
LEMMA KeptIs ==
    AInv => (NoneForgotten
               <=> \A r \in Requests : requests[r] # None => Kept(r))
<1> SUFFICES ASSUME AInv
             PROVE  NoneForgotten
                      <=> \A r \in Requests : requests[r] # None => Kept(r)
  OBVIOUS
<1>1. ASSUME NEW s \in Shards
      PROVE  DOMAIN queue[s] = 1 .. Len(queue[s])
  BY LenProperties DEF AInv, Typed
<1>2. ASSUME NEW r \in Requests, requests[r] # None
      PROVE  dispatch_to(requests[r]) \in Shards
  BY <1>2, PartInShards DEF AInv, Typed
<1>3. ASSUME NEW r \in Requests, NEW s \in Shards
      PROVE  r \in ToSet(queue[s])
               <=> \E i \in 1 .. Len(queue[s]) : queue[s][i] = r
  BY <1>1 DEF ToSet
<1> QED  BY <1>2, <1>3 DEF NoneForgotten, Kept

\* ... and after a step.
LEMMA KeptIsNext ==
    AInv' => (NoneForgotten
                <=> \A r \in Requests : requests[r] # None => Kept(r))'
  BY KeptIs, PTL

\* A step keeps a request where it is unless it moves that request.
LEMMA KeptStep ==
    ASSUME AInv, [Next]_vars, NEW r \in Requests, requests[r] # None, Kept(r)
    PROVE  Kept(r)'
<1>1. PICK s \in Shards : s = dispatch_to(requests[r])
  BY PartInShards DEF AInv, Typed
<1>2. Kept(r) <=> \/ r \in handlers \cup abandoned
                  \/ \E i \in 1 .. Len(queue[s]) : queue[s][i] = r
                  \/ r \in running[s]
                  \/ results[r] # None
  BY <1>1 DEF Kept
<1>3. ASSUME requests'[r] = requests[r]
      PROVE  Kept(r)' <=> \/ r \in handlers' \cup abandoned'
                          \/ \E i \in 1 .. Len(queue'[s]) : queue'[s][i] = r
                          \/ r \in running'[s]
                          \/ results'[r] # None
  BY <1>1, <1>3 DEF Kept
<1>4. /\ queue \in [Shards -> Seq(Requests)]
      /\ running \in [Shards -> SUBSET Requests]
      /\ results \in [Requests -> Made \cup {None}]
  BY DEF AInv, Typed
<1>5. ASSUME NEW q \in Requests, NEW response \in Made,
             send_response_box(q, response)
      PROVE  /\ results'[q] # None
             /\ results[r] # None => results'[r] # None
  BY <1>4, <1>5, NotNone DEF send_response_box
<1>6. ASSUME NEW q \in Requests, NEW request \in Operations,
             Arrive(q, request)
      PROVE  Kept(r)'
  <2>1. q # r /\ requests'[r] = requests[r]
    BY <1>6 DEF Arrive, AInv, Typed
  <2> QED  BY <1>2, <1>3, <1>6, <2>1 DEF Arrive
<1>7. ASSUME NEW q \in Requests, Dispatch(q) PROVE Kept(r)'
  <2>1. PICK p : p = dispatch_to(requests[q])
    OBVIOUS
  <2>2. requests'[r] = requests[r] /\ alive' = alive /\ running' = running
        /\ abandoned' = abandoned /\ handlers' = handlers \ {q}
        /\ q \in handlers
    BY <1>7 DEF Dispatch
  <2>3. requests[q] # None
    BY <2>2 DEF AInv, Places
  <2>4. p \in Shards
    BY <2>1, <2>3, PartInShards DEF AInv, Typed
  <2>5. CASE p \in alive
    <3>1. queue' = [queue EXCEPT ![p] = Append(@, q)] /\ results' = results
      BY <1>7, <2>1, <2>5 DEF Dispatch
    <3>2. PICK old \in Seq(Requests) : old = queue[p]
      BY <1>4, <2>4
    <3>3. PICK N \in Nat : N = Len(old)
      BY LenProperties
    <3>4. /\ Append(old, q) \in Seq(Requests) /\ Len(Append(old, q)) = N + 1
          /\ \A i \in 1 .. N : Append(old, q)[i] = old[i]
          /\ Append(old, q)[N + 1] = q
      BY <3>3, Appended
    <3>5. /\ queue'[p] = Append(old, q)
          /\ \A t \in Shards : t # p => queue'[t] = queue[t]
      BY <1>4, <2>4, <3>1, <3>2
    <3>6. \A i \in 1 .. N : i \in 1 .. N + 1
      OBVIOUS
    <3>7. N + 1 \in 1 .. N + 1
      OBVIOUS
    <3>8. \E i \in 1 .. Len(queue'[p]) : queue'[p][i] = q
      BY <3>4, <3>5, <3>7
    <3>9. ASSUME NEW i \in 1 .. Len(queue[s]), queue[s][i] = r
          PROVE  \E j \in 1 .. Len(queue'[s]) : queue'[s][j] = r
      <4>1. CASE s = p
        BY <3>2, <3>3, <3>4, <3>5, <3>6, <3>9, <4>1
      <4>2. CASE s # p
        BY <3>5, <3>9, <4>2
      <4> QED  BY <4>1, <4>2
    <3> QED  BY <1>1, <1>2, <1>3, <2>1, <2>2, <3>1, <3>8, <3>9
  <2>6. CASE p \notin alive
    <3>1. send_response_box(q, Status(UNAVAILABLE)) /\ queue' = queue
      BY <1>7, <2>1, <2>6 DEF Dispatch
    <3>2. Status(UNAVAILABLE) \in Made
      BY DEF Made
    <3>3. results'[q] # None /\ (results[r] # None => results'[r] # None)
      BY <1>5, <3>1, <3>2
    <3> QED  BY <1>2, <1>3, <2>2, <3>1, <3>3
  <2> QED  BY <2>5, <2>6
<1>8. ASSUME NEW q \in Requests, HandlerFails(q) PROVE Kept(r)'
  BY <1>2, <1>3, <1>8 DEF HandlerFails
<1>9. ASSUME NEW p \in Shards, Receive(p) PROVE Kept(r)'
  <2>1. /\ requests' = requests /\ handlers' = handlers /\ alive' = alive
        /\ results' = results /\ abandoned' = abandoned
        /\ running[p] = {} /\ queue[p] # <<>>
        /\ queue' = [queue EXCEPT ![p] = Tail(@)]
        /\ running' = [running EXCEPT ![p] = {Head(queue[p])}]
    BY <1>9 DEF Receive
  <2>2. PICK old \in Seq(Requests) : old = queue[p] /\ old # <<>>
    BY <1>4, <2>1
  <2>3. PICK N \in Nat : N = Len(old)
    BY LenProperties
  <2>4. /\ Len(Tail(old)) = N - 1
        /\ \A i \in 1 .. N - 1 : Tail(old)[i] = old[i + 1]
    BY <2>2, <2>3, HeadTailProperties
  <2>5. Head(old) = old[1]
    OBVIOUS
  <2>6. /\ queue'[p] = Tail(old)
        /\ \A t \in Shards : t # p => queue'[t] = queue[t]
        /\ running'[p] = {old[1]}
        /\ \A t \in Shards : t # p => running'[t] = running[t]
    BY <1>4, <2>1, <2>2, <2>5
  <2>7. ASSUME NEW i \in 1 .. N, i # 1
        PROVE  i - 1 \in 1 .. N - 1 /\ (i - 1) + 1 = i
    BY <2>7
  <2>8. ASSUME NEW i \in 1 .. Len(queue[s]), queue[s][i] = r
        PROVE  \/ \E j \in 1 .. Len(queue'[s]) : queue'[s][j] = r
               \/ r \in running'[s]
    <3>1. CASE s # p
      BY <2>6, <2>8, <3>1
    <3>2. CASE s = p /\ i = 1
      BY <2>2, <2>6, <2>8, <3>2
    <3>3. CASE s = p /\ i # 1
      <4>1. i \in 1 .. N /\ old[i] = r
        BY <2>2, <2>3, <2>8, <3>3
      <4>2. i - 1 \in 1 .. N - 1 /\ (i - 1) + 1 = i
        BY <2>7, <3>3, <4>1
      <4>3. Tail(old)[i - 1] = r
        BY <2>4, <4>1, <4>2
      <4> QED  BY <2>4, <2>6, <3>3, <4>2, <4>3
    <3> QED  BY <3>1, <3>2, <3>3
  <2>9. r \in running[s] => r \in running'[s]
    BY <2>1, <2>6
  <2> QED  BY <1>2, <1>3, <2>1, <2>8, <2>9
<1>10. ASSUME NEW p \in Shards, Respond(p) PROVE Kept(r)'
  <2>1. PICK q \in running[p] :
          LET done == handle_request(dict[p], requests[q])
          IN  /\ dict' = [dict EXCEPT ![p] = done.dict]
              /\ running' = [running EXCEPT ![p] = {}]
              /\ send_response_box(q, done.reply)
              /\ UNCHANGED <<requests, handlers, queue, alive, abandoned>>
    BY <1>10 DEF Respond
  <2>2. PICK done : done = handle_request(dict[p], requests[q])
    OBVIOUS
  <2>3. /\ running' = [running EXCEPT ![p] = {}]
        /\ send_response_box(q, done.reply)
        /\ requests' = requests /\ handlers' = handlers /\ queue' = queue
        /\ alive' = alive /\ abandoned' = abandoned
    BY <2>1, <2>2, Zenon
  <2>4. q \in Requests /\ running[p] = {q} /\ requests[q] \in Operations
    BY QueuedAreRequests DEF AInv, Places, Waits, Typed
  <2>5. done.reply \in Made
    BY <2>2, <2>4, Handled DEF AInv, Typed
  <2>6. results'[q] # None /\ (results[r] # None => results'[r] # None)
    BY <1>5, <2>3, <2>4, <2>5
  <2>7. r \in running[s] => r \in running'[s] \/ r = q
    BY <1>4, <2>3, <2>4
  <2> QED  BY <1>2, <1>3, <2>3, <2>6, <2>7
<1>11. ASSUME NEW p \in Shards, ShardPanics(p) PROVE Kept(r)'
  <2>1. /\ requests' = requests /\ handlers' = handlers
        /\ abandoned' = abandoned \cup running[p] \cup ToSet(queue[p])
        /\ results' = results
        /\ \A t \in Shards : t # p => queue'[t] = queue[t]
                                      /\ running'[t] = running[t]
    BY <1>4, <1>11 DEF ShardPanics
  <2>2. CASE s = p
    <3>1. DOMAIN queue[p] = 1 .. Len(queue[p])
      BY <1>4, LenProperties
    <3>2. (\E i \in 1 .. Len(queue[p]) : queue[p][i] = r)
            => r \in ToSet(queue[p])
      BY <3>1 DEF ToSet
    <3> QED  BY <1>2, <1>3, <2>1, <2>2, <3>2
  <2>3. CASE s # p
    BY <1>2, <1>3, <2>1, <2>3
  <2> QED  BY <2>2, <2>3
<1>12. CASE UNCHANGED dispatch_vars
  BY <1>2, <1>3, <1>12 DEF dispatch_vars
<1>13. CASE Serve
  BY <1>6, <1>7, <1>8, <1>9, <1>10, <1>11, <1>13 DEF Serve, DispatchNext
<1> QED  BY <1>12, <1>13 DEF Next, Write, vars

\* A request that has arrived is never lost on its way to its response: it is
\* with its handler task, its shard's channel or its shard, unless it does not
\* decode or its shard panics with it; a shard that is gone does not excuse the
\* requests that come for it later (dispatch.rs).
THEOREM NoneForgottenHolds == Spec => []NoneForgotten
<1>1. Init => NoneForgotten
  BY DEF Init, DispatchInit, NoneForgotten
<1>2. AInv /\ AInv' /\ NoneForgotten /\ [Next]_vars => NoneForgotten'
  <2> SUFFICES ASSUME AInv, AInv', NoneForgotten, [Next]_vars
               PROVE  NoneForgotten'
    OBVIOUS
  <2>1. ASSUME NEW r \in Requests, requests'[r] # None PROVE Kept(r)'
    <3>1. CASE requests[r] # None
      BY <3>1, KeptIs, KeptStep
    <3>2. CASE requests[r] = None
      <4>1. PICK request \in Operations : Arrive(r, request)
        BY <2>1, <3>2 DEF Next, Serve, DispatchNext, Write, vars,
           dispatch_vars, Arrive, Dispatch, HandlerFails, Receive, Respond,
           ShardPanics, AInv, Typed
      <4> QED  BY <4>1 DEF Arrive, Kept
    <3> QED  BY <3>1, <3>2
  <2>2. (\A r \in Requests : requests[r] # None => Kept(r))'
    BY <2>1
  <2> QED  BY <2>2, KeptIsNext
<1> QED  BY <1>1, <1>2, AInvHolds, PTL DEF Spec
=============================================================================
