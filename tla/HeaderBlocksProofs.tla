------------------------- MODULE HeaderBlocksProofs -------------------------
(***************************************************************************)
(* Proofs about HeaderBlocks, for any paths, services, encodings, limits   *)
(* and lengths of a connection.                                            *)
(***************************************************************************)
EXTENDS HeaderBlocks, SequenceTheorems, TLAPS

Entries == [path_cache : Index, encoding : Encodings \cup {None}]

(* How a sequence grows, as the three facts every append below needs.       *)
LEMMA Grown ==
    ASSUME NEW S, NEW s \in Seq(S), NEW e \in S
    PROVE  /\ Append(s, e) \in Seq(S)
           /\ Len(s) \in Nat
           /\ DOMAIN s = 1 .. Len(s)
           /\ DOMAIN Append(s, e) = 1 .. Len(s) + 1
           /\ Len(Append(s, e)) = Len(s) + 1
           /\ \A i \in 1 .. Len(s) : Append(s, e)[i] = s[i]
           /\ Append(s, e)[Len(s) + 1] = e
BY AppendProperties, LenProperties

LEMMA EntryType ==
    ASSUME TypeOK, NEW k \in 1 .. Len(dynamic_table)
    PROVE  Entry(k) \in Entries
<1>1. Len(dynamic_table) + 1 - k \in 1 .. Len(dynamic_table)
  BY LenProperties DEF TypeOK
<1> QED
  BY <1>1, ElementOfSeq DEF TypeOK, Entry, Entries

LEMMA PeerEntryType ==
    ASSUME TypeOK, NEW k \in 1 .. Len(peer_table)
    PROVE  PeerEntry(k) \in FieldType
<1>1. Len(peer_table) + 1 - k \in 1 .. Len(peer_table)
  BY LenProperties DEF TypeOK
<1> QED
  BY <1>1, ElementOfSeq DEF TypeOK, PeerEntry

LEMMA MeanType ==
    ASSUME TypeOK, NEW field \in FieldType, Mean(field)
    PROVE  meant' \in [path : Paths \cup {None}, encoding : Encodings \cup {None}]
<1>1. CASE field.name = ":path"
  BY <1>1 DEF Mean, TypeOK, FieldType
<1>2. CASE field.name = "grpc-encoding"
  BY <1>2 DEF Mean, TypeOK, FieldType
<1>3. CASE field.name = "other"
  BY <1>3 DEF Mean, TypeOK
<1> QED
  BY <1>1, <1>2, <1>3 DEF FieldType, Names

-----------------------------------------------------------------------------
(* The invariant: the decoder's table runs in step with the client's, and   *)
(* every cache index it holds leads to the route of the path it was given   *)
(* out for; the only index beyond the cache is the one of the path that the *)
(* current block has just brought.                                          *)

CachedFor(c, p) ==
    \/ c \in Nat /\ c < Len(route_cache) /\ route_cache[c + 1] \in Routes(p)
    \/ c = Len(route_cache) /\ block = "decoding" /\ find_path = Plain(p)

TableInStep ==
    /\ Len(dynamic_table) = Len(peer_table)
    /\ \A i \in 1 .. Len(peer_table) :
         /\ peer_table[i].name = ":path" =>
              CachedFor(dynamic_table[i].path_cache, peer_table[i].value)
         /\ peer_table[i].name # ":path" => dynamic_table[i].path_cache = None

PathsInStep ==
    \A p \in Paths :
        /\ plain_paths[p] # None => CachedFor(plain_paths[p], p)
        /\ huffman_paths[p] # None => CachedFor(huffman_paths[p], p)

PathFound ==
    block = "decoding" =>
        \/ meant.path = None /\ find_path = NoPath
        \/ meant.path \in Paths /\ find_path = Plain(meant.path)
        \/ /\ meant.path \in Paths
           /\ find_path.kind = "Cached"
           /\ find_path.index \in Nat
           /\ find_path.index < Len(route_cache)
           /\ route_cache[find_path.index + 1] \in Routes(meant.path)

Counted ==
    next_cache_index = Len(route_cache)
        + (IF block = "decoding" /\ find_path.kind = "Plain" THEN 1 ELSE 0)

InStep == block # "closed" => TableInStep /\ PathsInStep /\ PathFound /\ Counted

Inv == TypeOK /\ InStep /\ RouteAsSent /\ ClosedForUnknownOnly

LEMMA RoutesType == \A p \in Paths : Routes(p) \subseteq Nat \X Nat
<1> SUFFICES ASSUME NEW p \in Paths, NEW i \in DOMAIN Services, IsRoute(i, p)
             PROVE  <<i, Services[i][p]>> \in Nat \X Nat
  BY DEF Routes
<1>1. i \in 1 .. Len(Services) /\ Len(Services) \in Nat
  BY LenProperties, ServicesAssumption
<1>2. Services[i] \in [Paths -> Nat \cup {None}]
  BY <1>1, ElementOfSeq, ServicesAssumption
<1> QED
  BY <1>1, <1>2 DEF IsRoute

(* A field that comes when no path was found yet disturbs no cached index.  *)
LEMMA CachedKept ==
    ASSUME block = "decoding", block' = "decoding", UNCHANGED route_cache,
           find_path = NoPath \/ UNCHANGED find_path, NEW c, NEW p, CachedFor(c, p)
    PROVE  CachedFor(c, p)'
BY DEF CachedFor, NoPath, Plain

(* The decoder reads the name :path exactly where the client means it.      *)
LEMMA PathNameRead ==
    ASSUME TypeOK, TableInStep, NEW field \in FieldType,
           NEW k \in 0 .. Len(peer_table), Named(field, k)
    PROVE  /\ NameRead(field, k) \in Names
           /\ NameRead(field, k) = ":path" <=> field.name = ":path"
<1>1. CASE k = 0
  BY <1>1 DEF NameRead, FieldType
<1>2. CASE k # 0
  <2> DEFINE i == Len(peer_table) + 1 - k
  <2>1. i \in 1 .. Len(peer_table) /\ Len(dynamic_table) = Len(peer_table)
    BY <1>2, LenProperties DEF TypeOK, TableInStep
  <2>2. peer_table[i].name = field.name /\ Entry(k) = dynamic_table[i]
    BY <1>2, <2>1 DEF Named, PeerEntry, Entry
  <2>3. field.name = ":path" <=> dynamic_table[i].path_cache # None
    <3>1. ASSUME field.name = ":path"
          PROVE  dynamic_table[i].path_cache \in Nat
      <4>1. CachedFor(dynamic_table[i].path_cache, peer_table[i].value)
        BY <2>1, <2>2, <3>1 DEF TableInStep
      <4> QED
        BY <4>1, LenProperties DEF CachedFor, TypeOK
    <3> QED
      BY <2>1, <2>2, <3>1, NoneAssumption DEF TableInStep
  <2>4. NameRead(field, k) = classify_table_index(k)
    BY <1>2 DEF NameRead
  <2> QED
    BY <2>2, <2>3, <2>4 DEF classify_table_index, Names
<1> QED
  BY <1>1, <1>2

-----------------------------------------------------------------------------
(* One header field of a block that is decoded                              *)

(* What meant says after a field.                                           *)
LEMMA MeantPath ==
    ASSUME TypeOK, NEW field \in FieldType, Allowed(field), Mean(field)
    PROVE  /\ field.name = ":path" => /\ meant.path = None
                                     /\ meant'.path = field.value
                                     /\ field.value \in Paths
           /\ field.name # ":path" => meant'.path = meant.path
BY DEF TypeOK, FieldType, Allowed, Mean

(* A table that is not written to stays in step.                            *)
LEMMA TableKept ==
    ASSUME TypeOK, TableInStep, block = "decoding", block' = "decoding",
           UNCHANGED <<peer_table, dynamic_table, route_cache>>,
           find_path = NoPath \/ UNCHANGED find_path
    PROVE  TableInStep'
<1>1. ASSUME NEW i \in 1 .. Len(peer_table), peer_table[i].name = ":path"
      PROVE  CachedFor(dynamic_table[i].path_cache, peer_table[i].value)'
  <2>1. CachedFor(dynamic_table[i].path_cache, peer_table[i].value)
    BY <1>1 DEF TableInStep
  <2> QED
    BY <2>1 DEF CachedFor, NoPath, Plain
<1> QED
  BY <1>1 DEF TableInStep

LEMMA PathsKept ==
    ASSUME PathsInStep, block = "decoding", block' = "decoding",
           UNCHANGED <<plain_paths, huffman_paths, route_cache>>,
           find_path = NoPath \/ UNCHANGED find_path
    PROVE  PathsInStep'
BY CachedKept DEF PathsInStep, CachedFor, NoPath, Plain

LEMMA EncodingNoted ==
    ASSUME TypeOK, NEW enc \in Encodings \cup {None}, NoteEncoding(enc)
    PROVE  encoding' \in Encodings \cup {Identity}
BY DEF TypeOK, NoteEncoding

LEMMA IndexedStep ==
    ASSUME Inv, NEW k \in 1 .. Len(peer_table), SendIndexed(k)
    PROVE  Inv'
<1>1. /\ TypeOK /\ InStep /\ RouteAsSent /\ ClosedForUnknownOnly
      /\ PeerEntry(k) \in FieldType
      /\ Allowed(PeerEntry(k)) /\ Mean(PeerEntry(k))
      /\ UNCHANGED <<peer_table, route_cache, open, request, requests>>
  BY PeerEntryType DEF Inv, SendIndexed, rest
<1>2. RouteAsSent'
  BY <1>1 DEF RouteAsSent
<1>3. meant' \in [path : Paths \cup {None}, encoding : Encodings \cup {None}]
  BY <1>1, MeanType
<1>4. CASE Skip
  <2>1. block = "refused" /\ UNCHANGED <<block, decoder, locals>>
    BY <1>4 DEF Skip
  <2>2. TypeOK'
    BY <1>1, <1>3, <2>1 DEF TypeOK, decoder, locals
  <2>3. InStep'
    BY <1>1, <2>1
    DEF InStep, TableInStep, PathsInStep, PathFound, Counted, CachedFor,
        decoder, locals
  <2> QED
    BY <1>2, <2>1, <2>2, <2>3 DEF Inv, ClosedForUnknownOnly
<1>5. CASE block = "decoding" /\ Indexed(k)
  <2> DEFINE i == Len(peer_table) + 1 - k
  <2>1. /\ TableInStep /\ PathsInStep /\ PathFound /\ Counted
        /\ Len(dynamic_table) = Len(peer_table)
        /\ Len(peer_table) \in Nat /\ Len(route_cache) \in Nat
    BY <1>1, <1>5, LenProperties DEF InStep, TableInStep, TypeOK
  <2>2. /\ k \in 1 .. Len(dynamic_table)
        /\ i \in 1 .. Len(peer_table)
        /\ Entry(k) = dynamic_table[i] /\ PeerEntry(k) = peer_table[i]
    BY <2>1 DEF Entry, PeerEntry
  <2>3. /\ find_path' = IF Entry(k).path_cache # None
                          THEN Cached(Entry(k).path_cache) ELSE find_path
        /\ NoteEncoding(Entry(k).encoding)
        /\ block' = "decoding"
        /\ UNCHANGED decoder
    BY <1>5, <2>1, <2>2 DEF Indexed
  <2>4. Entry(k) \in Entries
    BY <1>1, <2>2, EntryType
  <2>5. find_path' \in PathKind
    BY <1>1, <2>3, <2>4 DEF Entries, Cached, PathKind, Index, TypeOK
  <2>6. TypeOK'
    BY <1>1, <1>3, <2>3, <2>4, <2>5, EncodingNoted
    DEF TypeOK, decoder, Entries
  <2>7. CASE PeerEntry(k).name = ":path"
    <3>1. /\ meant.path = None /\ find_path = NoPath
          /\ meant'.path = PeerEntry(k).value /\ meant'.path \in Paths
      BY <1>1, <1>5, <2>1, <2>7, MeantPath, NoneAssumption DEF PathFound
    <3>2. CachedFor(Entry(k).path_cache, PeerEntry(k).value)
      BY <2>1, <2>2, <2>7 DEF TableInStep
    <3>3. /\ Entry(k).path_cache \in Nat
          /\ Entry(k).path_cache < Len(route_cache)
          /\ route_cache[Entry(k).path_cache + 1] \in Routes(meant'.path)
      BY <3>1, <3>2 DEF CachedFor, NoPath, Plain
    <3>4. find_path' = Cached(Entry(k).path_cache)
      BY <2>3, <3>3, NoneAssumption
    <3>5. PathFound'
      BY <1>1, <3>1, <3>3, <3>4 DEF PathFound, Cached
    <3>6. Counted'
      BY <1>1, <1>5, <2>1, <2>3, <3>1, <3>4
      DEF Counted, Cached, NoPath, decoder
    <3>7. TableInStep' /\ PathsInStep'
      BY <1>1, <1>5, <2>1, <2>3, <3>1, TableKept, PathsKept DEF decoder
    <3> QED
      BY <1>2, <2>3, <2>6, <3>5, <3>6, <3>7 DEF Inv, InStep, ClosedForUnknownOnly
  <2>8. CASE PeerEntry(k).name # ":path"
    <3>1. UNCHANGED find_path /\ meant'.path = meant.path
      BY <1>1, <2>1, <2>2, <2>3, <2>8, MeantPath DEF TableInStep
    <3>2. PathFound' /\ Counted'
      BY <1>1, <1>5, <2>1, <2>3, <3>1 DEF PathFound, Counted, decoder
    <3>3. TableInStep' /\ PathsInStep'
      BY <1>1, <1>5, <2>1, <2>3, <3>1, TableKept, PathsKept DEF decoder
    <3> QED
      BY <1>2, <2>3, <2>6, <3>2, <3>3 DEF Inv, InStep, ClosedForUnknownOnly
  <2> QED
    BY <2>7, <2>8
<1> QED
  BY <1>4, <1>5 DEF SendIndexed

(* Both tables grow by the same field.                                      *)
LEMMA TableGrown ==
    ASSUME TypeOK, TableInStep, block = "decoding", block' = "decoding",
           UNCHANGED route_cache, find_path = NoPath \/ UNCHANGED find_path,
           NEW field \in FieldType, NEW entry \in Entries,
           peer_table' = Append(peer_table, field),
           dynamic_table' = Append(dynamic_table, entry),
           field.name = ":path" => CachedFor(entry.path_cache, field.value)',
           field.name # ":path" => entry.path_cache = None
    PROVE  /\ TableInStep'
           /\ peer_table' \in Seq(FieldType)
           /\ dynamic_table' \in Seq(Entries)
<1> DEFINE n == Len(peer_table)
<1>1. /\ n \in Nat /\ Len(dynamic_table) = n
      /\ dynamic_table \in Seq(Entries) /\ peer_table \in Seq(FieldType)
  BY LenProperties DEF TypeOK, TableInStep, Entries
<1>2. /\ peer_table' \in Seq(FieldType)
      /\ Len(peer_table') = n + 1
      /\ \A i \in 1 .. n : peer_table'[i] = peer_table[i]
      /\ peer_table'[n + 1] = field
  BY <1>1, Grown
<1>3. /\ dynamic_table' \in Seq(Entries)
      /\ Len(dynamic_table') = n + 1
      /\ \A i \in 1 .. n : dynamic_table'[i] = dynamic_table[i]
      /\ dynamic_table'[n + 1] = entry
  <2>1. /\ dynamic_table' \in Seq(Entries)
        /\ Len(dynamic_table') = Len(dynamic_table) + 1
        /\ \A i \in 1 .. Len(dynamic_table) :
             dynamic_table'[i] = dynamic_table[i]
        /\ dynamic_table'[Len(dynamic_table) + 1] = entry
    BY <1>1, Grown
  <2> QED
    BY <1>1, <2>1
<1>4. ASSUME NEW i \in 1 .. n
      PROVE  /\ peer_table[i].name = ":path" =>
                  CachedFor(dynamic_table[i].path_cache, peer_table[i].value)'
             /\ peer_table[i].name # ":path" =>
                  dynamic_table'[i].path_cache = None
  <2>1. CASE peer_table[i].name = ":path"
    <3>1. CachedFor(dynamic_table[i].path_cache, peer_table[i].value)
      BY <2>1 DEF TableInStep
    <3> QED
      BY <1>2, <1>3, <2>1, <3>1 DEF CachedFor, NoPath, Plain
  <2>2. CASE peer_table[i].name # ":path"
    BY <1>3, <2>2 DEF TableInStep
  <2> QED
    BY <2>1, <2>2
<1>5. ASSUME NEW i \in 1 .. n + 1
      PROVE  /\ peer_table'[i].name = ":path" =>
                  CachedFor(dynamic_table[i].path_cache, peer_table[i].value)'
             /\ peer_table'[i].name # ":path" =>
                  dynamic_table'[i].path_cache = None
  <2>1. CASE i = n + 1
    BY <1>2, <1>3, <2>1 DEF CachedFor
  <2>2. CASE i \in 1 .. n
    BY <1>2, <1>4, <2>2
  <2> QED
    BY <1>1, <2>1, <2>2
<1> QED
  BY <1>1, <1>2, <1>3, <1>5 DEF TableInStep

(* The path of this block is found, and its new index is the next one.      *)
LEMMA PathIsNew ==
    ASSUME TypeOK, InStep, block = "decoding", NEW field \in FieldType,
           field.name = ":path", Allowed(field), Mean(field)
    PROVE  /\ find_path = NoPath
           /\ next_cache_index = Len(route_cache)
           /\ next_cache_index \in Nat
           /\ meant'.path = field.value /\ field.value \in Paths
<1>1. meant.path = None /\ meant'.path = field.value /\ field.value \in Paths
  BY MeantPath
<1>2. find_path = NoPath
  BY <1>1, NoneAssumption DEF InStep, PathFound
<1>3. next_cache_index = Len(route_cache)
  BY <1>2, LenProperties DEF InStep, Counted, NoPath, TypeOK
<1> QED
  BY <1>1, <1>2, <1>3 DEF TypeOK

LEMMA WithIndexingStep ==
    ASSUME RefusedInserts = FALSE, Inv, NEW field \in FieldType,
           NEW k \in 0 .. Len(peer_table), SendWithIndexing(field, k)
    PROVE  Inv'
<1>1. /\ TypeOK /\ InStep /\ RouteAsSent /\ ClosedForUnknownOnly
      /\ Allowed(field) /\ Mean(field) /\ Named(field, k)
      /\ peer_table' = Append(peer_table, field)
      /\ UNCHANGED <<route_cache, open, request, requests>>
      /\ block = "decoding"
  BY DEF Inv, SendWithIndexing, rest, Skip
<1>2. /\ TableInStep /\ PathsInStep /\ PathFound /\ Counted
      /\ Len(dynamic_table) = Len(peer_table)
      /\ Len(peer_table) \in Nat /\ Len(route_cache) \in Nat
  BY <1>1, LenProperties DEF InStep, TableInStep, TypeOK
<1> DEFINE name == NameRead(field, k)
<1>3. LiteralWithIndexing(name, field.value)
  BY <1>1, <1>2 DEF SendWithIndexing, Skip
<1> HIDE DEF name
<1>4. name \in Names /\ (name = ":path" <=> field.name = ":path")
  BY <1>1, <1>2, PathNameRead DEF name
<1>5. RouteAsSent'
  BY <1>1 DEF RouteAsSent
<1>6. meant' \in [path : Paths \cup {None}, encoding : Encodings \cup {None}]
  BY <1>1, MeanType
<1>7. to_encoding(field.value) \in Encodings \cup {None}
  BY LimitsAssumption DEF to_encoding
<1>8. CASE name = ":path"
  <2>1. /\ find_path = NoPath
        /\ next_cache_index = Len(route_cache)
        /\ next_cache_index \in Nat
        /\ meant'.path = field.value /\ field.value \in Paths
    BY <1>1, <1>4, <1>8, PathIsNew
  <2>2. PICK entry \in Entries :
          entry = [path_cache |-> next_cache_index, encoding |-> None]
    BY <2>1 DEF Entries, Index
  <2>3. /\ find_path' = Plain(field.value)
        /\ next_cache_index' = next_cache_index + 1
        /\ dynamic_table' = Append(dynamic_table, entry)
        /\ block' = "decoding"
        /\ UNCHANGED <<encoding, plain_paths, huffman_paths>>
        /\ CachedFor(entry.path_cache, field.value)'
    BY <1>1, <1>3, <1>8, <2>1, <2>2
    DEF LiteralWithIndexing, push_dynamic_entry, CachedFor
  <2>4. /\ TableInStep'
        /\ peer_table' \in Seq(FieldType)
        /\ dynamic_table' \in Seq(Entries)
    BY <1>1, <1>2, <1>4, <1>8, <2>1, <2>3, TableGrown
  <2>5. PathsInStep'
    BY <1>1, <1>2, <2>1, <2>3, PathsKept
  <2>6. PathFound' /\ Counted'
    BY <1>1, <2>1, <2>3 DEF PathFound, Counted, Plain
  <2>7. TypeOK'
    BY <1>1, <1>6, <2>1, <2>3, <2>4
    DEF TypeOK, Entries, PathKind, Plain, Index
  <2> QED
    BY <1>5, <2>3, <2>4, <2>5, <2>6, <2>7 DEF Inv, InStep, ClosedForUnknownOnly
<1>9. CASE name # ":path"
  <2>1. PICK enc \in Encodings \cup {None} :
          /\ NoteEncoding(enc) \/ UNCHANGED encoding
          /\ dynamic_table' =
               Append(dynamic_table, [path_cache |-> None, encoding |-> enc])
    BY <1>3, <1>4, <1>7, <1>9
    DEF LiteralWithIndexing, push_dynamic_entry, Names, locals
  <2>2. /\ block' = "decoding"
        /\ UNCHANGED <<find_path, next_cache_index, plain_paths, huffman_paths>>
    BY <1>1, <1>3, <1>9 DEF LiteralWithIndexing, locals
  <2>3. [path_cache |-> None, encoding |-> enc] \in Entries
    BY DEF Entries, Index
  <2>4. /\ TableInStep'
        /\ peer_table' \in Seq(FieldType)
        /\ dynamic_table' \in Seq(Entries)
    BY <1>1, <1>2, <1>4, <1>9, <2>1, <2>2, <2>3, TableGrown
  <2>5. PathsInStep'
    BY <1>1, <1>2, <2>2, PathsKept
  <2>6. meant'.path = meant.path
    BY <1>1, <1>4, <1>9, MeantPath
  <2>7. PathFound' /\ Counted'
    BY <1>1, <1>2, <2>2, <2>6 DEF PathFound, Counted
  <2>8. encoding' \in Encodings \cup {Identity}
    BY <1>1, <2>1, EncodingNoted DEF TypeOK
  <2>9. TypeOK'
    BY <1>1, <1>6, <2>2, <2>4, <2>8 DEF TypeOK, Entries
  <2> QED
    BY <1>5, <2>2, <2>4, <2>5, <2>7, <2>9 DEF Inv, InStep, ClosedForUnknownOnly
<1> QED
  BY <1>8, <1>9

(* The map of one form of paths, before and after a path is looked up.      *)
LEMMA Remembered ==
    ASSUME TypeOK, InStep, block = "decoding", block' = "decoding",
           UNCHANGED route_cache, NEW value \in Paths,
           find_path = NoPath, next_cache_index = Len(route_cache),
           meant'.path = value,
           NEW paths \in [Paths -> Index], NEW next_paths,
           \A p \in Paths : paths[p] # None => CachedFor(paths[p], p),
           \/ /\ paths[value] # None
              /\ find_path' = Cached(paths[value])
              /\ next_paths = paths
              /\ UNCHANGED next_cache_index
           \/ /\ find_path' = Plain(value)
              /\ next_paths = [paths EXCEPT ![value] = next_cache_index]
              /\ next_cache_index' = next_cache_index + 1
    PROVE  /\ next_paths \in [Paths -> Index]
           /\ \A p \in Paths :
                next_paths[p] # None => CachedFor(next_paths[p], p)'
           /\ find_path' \in PathKind
           /\ next_cache_index' \in Nat
           /\ PathFound'
           /\ Counted'
<1>1. Len(route_cache) \in Nat
  BY LenProperties DEF TypeOK
<1>2. ASSUME NEW p \in Paths, paths[p] # None
      PROVE  /\ paths[p] \in Nat /\ paths[p] < Len(route_cache)
             /\ route_cache[paths[p] + 1] \in Routes(p)
             /\ CachedFor(paths[p], p)'
  BY <1>2, CachedKept DEF CachedFor, NoPath, Plain
<1>3. CASE /\ paths[value] # None
           /\ find_path' = Cached(paths[value])
           /\ next_paths = paths
           /\ UNCHANGED next_cache_index
  BY <1>1, <1>2, <1>3
  DEF TypeOK, PathKind, Cached, Index, PathFound, Counted
<1>4. CASE /\ find_path' = Plain(value)
           /\ next_paths = [paths EXCEPT ![value] = next_cache_index]
           /\ next_cache_index' = next_cache_index + 1
  <2>1. next_paths \in [Paths -> Index]
    BY <1>4 DEF TypeOK, Index
  <2>2. ASSUME NEW p \in Paths, next_paths[p] # None
        PROVE  CachedFor(next_paths[p], p)'
    <3>1. CASE p = value
      BY <1>4, <3>1 DEF CachedFor
    <3>2. CASE p # value
      <4>1. next_paths[p] = paths[p]
        BY <1>4, <3>2
      <4>2. CachedFor(paths[p], p)'
        BY <1>2, <2>2, <4>1
      <4> QED
        BY <4>1, <4>2
    <3> QED
      BY <3>1, <3>2
  <2>3. find_path' \in PathKind /\ next_cache_index' \in Nat
    BY <1>1, <1>4 DEF PathKind, Plain, Index
  <2>4. PathFound' /\ Counted'
    BY <1>1, <1>4 DEF PathFound, Counted, Plain
  <2> QED
    BY <2>1, <2>2, <2>3, <2>4
<1> QED
  BY <1>3, <1>4

LEMMA WithoutIndexingStep ==
    ASSUME Inv, NEW field \in FieldType, NEW k \in 0 .. Len(peer_table),
           NEW huff \in BOOLEAN, SendWithoutIndexing(field, k, huff)
    PROVE  Inv'
<1>1. /\ TypeOK /\ InStep /\ RouteAsSent /\ ClosedForUnknownOnly
      /\ Allowed(field) /\ Mean(field) /\ Named(field, k)
      /\ UNCHANGED <<peer_table, route_cache, open, request, requests>>
  BY DEF Inv, SendWithoutIndexing, rest
<1>2. RouteAsSent'
  BY <1>1 DEF RouteAsSent
<1>3. meant' \in [path : Paths \cup {None}, encoding : Encodings \cup {None}]
  BY <1>1, MeanType
<1>4. CASE Skip
  <2>1. block = "refused" /\ UNCHANGED <<block, decoder, locals>>
    BY <1>4 DEF Skip
  <2>2. TypeOK'
    BY <1>1, <1>3, <2>1 DEF TypeOK, decoder, locals
  <2>3. InStep'
    BY <1>1, <2>1
    DEF InStep, TableInStep, PathsInStep, PathFound, Counted, CachedFor,
        decoder, locals
  <2> QED
    BY <1>2, <2>1, <2>2, <2>3 DEF Inv, ClosedForUnknownOnly
<1>5. CASE block = "decoding"
  <2>1. /\ TableInStep /\ PathsInStep /\ PathFound /\ Counted
        /\ Len(dynamic_table) = Len(peer_table)
        /\ Len(peer_table) \in Nat
    BY <1>1, <1>5, LenProperties DEF InStep, TableInStep, TypeOK
  <2> DEFINE name == NameRead(field, k)
  <2>2. LiteralWithoutIndexing(name, field.value, huff)
    BY <1>5, <2>1 DEF SendWithoutIndexing, Skip
  <2> HIDE DEF name
  <2>3. name \in Names /\ (name = ":path" <=> field.name = ":path")
    BY <1>1, <2>1, PathNameRead DEF name
  <2>4. block' = "decoding" /\ UNCHANGED dynamic_table
    BY <1>5, <2>2 DEF LiteralWithoutIndexing
  <2>5. CASE name = ":path"
    <3>1. /\ find_path = NoPath
          /\ next_cache_index = Len(route_cache)
          /\ meant'.path = field.value /\ field.value \in Paths
      BY <1>1, <1>5, <2>3, <2>5, PathIsNew
    <3>2. TableInStep'
      BY <1>1, <1>5, <2>1, <2>4, <3>1, TableKept
    <3>3. CASE ~huff
      <4>1. /\ RememberPath(plain_paths, field.value)
            /\ UNCHANGED <<encoding, huffman_paths>>
        BY <2>2, <2>5, <3>3 DEF LiteralWithoutIndexing
      <4>2. PICK next_paths : next_paths = plain_paths'
        OBVIOUS
      <4>3. /\ next_paths \in [Paths -> Index]
            /\ \A p \in Paths :
                 next_paths[p] # None => CachedFor(next_paths[p], p)'
            /\ find_path' \in PathKind
            /\ next_cache_index' \in Nat
            /\ PathFound' /\ Counted'
        <5>1. plain_paths \in [Paths -> Index]
          BY <1>1 DEF TypeOK
        <5>2. \/ /\ plain_paths[field.value] # None
                 /\ find_path' = Cached(plain_paths[field.value])
                 /\ next_paths = plain_paths
                 /\ UNCHANGED next_cache_index
              \/ /\ find_path' = Plain(field.value)
                 /\ next_paths =
                      [plain_paths EXCEPT ![field.value] = next_cache_index]
                 /\ next_cache_index' = next_cache_index + 1
          BY <4>1, <4>2 DEF RememberPath
        <5>3. \A p \in Paths :
                plain_paths[p] # None => CachedFor(plain_paths[p], p)
          BY <2>1 DEF PathsInStep
        <5> QED
          BY <1>1, <1>5, <2>4, <3>1, <5>1, <5>2, <5>3, Remembered
      <4>4. \A p \in Paths : huffman_paths'[p] # None =>
                              CachedFor(huffman_paths[p], p)'
        BY <1>1, <1>5, <2>1, <2>4, <3>1, <4>1, CachedKept
        DEF PathsInStep, CachedFor, NoPath, Plain
      <4>5. PathsInStep'
        BY <4>2, <4>3, <4>4 DEF PathsInStep
      <4>6. TypeOK'
        BY <1>1, <1>3, <2>4, <4>1, <4>2, <4>3 DEF TypeOK
      <4> QED
        BY <1>2, <2>4, <3>2, <4>3, <4>5, <4>6 DEF Inv, InStep, ClosedForUnknownOnly
    <3>4. CASE huff
      <4>1. /\ RememberPath(huffman_paths, field.value)
            /\ UNCHANGED <<encoding, plain_paths>>
        BY <2>2, <2>5, <3>4 DEF LiteralWithoutIndexing
      <4>2. PICK next_paths : next_paths = huffman_paths'
        OBVIOUS
      <4>3. /\ next_paths \in [Paths -> Index]
            /\ \A p \in Paths :
                 next_paths[p] # None => CachedFor(next_paths[p], p)'
            /\ find_path' \in PathKind
            /\ next_cache_index' \in Nat
            /\ PathFound' /\ Counted'
        <5>1. huffman_paths \in [Paths -> Index]
          BY <1>1 DEF TypeOK
        <5>2. \/ /\ huffman_paths[field.value] # None
                 /\ find_path' = Cached(huffman_paths[field.value])
                 /\ next_paths = huffman_paths
                 /\ UNCHANGED next_cache_index
              \/ /\ find_path' = Plain(field.value)
                 /\ next_paths =
                      [huffman_paths EXCEPT ![field.value] = next_cache_index]
                 /\ next_cache_index' = next_cache_index + 1
          BY <4>1, <4>2 DEF RememberPath
        <5>3. \A p \in Paths :
                huffman_paths[p] # None => CachedFor(huffman_paths[p], p)
          BY <2>1 DEF PathsInStep
        <5> QED
          BY <1>1, <1>5, <2>4, <3>1, <5>1, <5>2, <5>3, Remembered
      <4>4. \A p \in Paths : plain_paths'[p] # None =>
                              CachedFor(plain_paths[p], p)'
        BY <1>1, <1>5, <2>1, <2>4, <3>1, <4>1, CachedKept
        DEF PathsInStep, CachedFor, NoPath, Plain
      <4>5. PathsInStep'
        BY <4>2, <4>3, <4>4 DEF PathsInStep
      <4>6. TypeOK'
        BY <1>1, <1>3, <2>4, <4>1, <4>2, <4>3 DEF TypeOK
      <4> QED
        BY <1>2, <2>4, <3>2, <4>3, <4>5, <4>6 DEF Inv, InStep, ClosedForUnknownOnly
    <3> QED
      BY <3>3, <3>4
  <2>6. CASE name # ":path"
    <3>1. /\ UNCHANGED <<find_path, next_cache_index, plain_paths, huffman_paths>>
          /\ NoteEncoding(to_encoding(field.value)) \/ UNCHANGED encoding
      BY <2>2, <2>3, <2>6 DEF LiteralWithoutIndexing, Names, locals
    <3>2. encoding' \in Encodings \cup {Identity}
      BY <1>1, <3>1, EncodingNoted, LimitsAssumption DEF to_encoding, TypeOK
    <3>3. meant'.path = meant.path
      BY <1>1, <2>3, <2>6, MeantPath
    <3>4. PathFound' /\ Counted'
      BY <1>1, <1>5, <2>1, <2>4, <3>1, <3>3 DEF PathFound, Counted
    <3>5. TableInStep' /\ PathsInStep'
      BY <1>1, <1>5, <2>1, <2>4, <3>1, TableKept, PathsKept
    <3>6. TypeOK'
      BY <1>1, <1>3, <2>4, <3>1, <3>2 DEF TypeOK
    <3> QED
      BY <1>2, <2>4, <3>4, <3>5, <3>6 DEF Inv, InStep, ClosedForUnknownOnly
  <2> QED
    BY <2>5, <2>6
<1> QED
  BY <1>4, <1>5 DEF SendWithoutIndexing

-----------------------------------------------------------------------------
(* Begin and end of a block                                                 *)

(* Outside a block that is decoded no index is beyond the cache.            *)
LEMMA CachedOnly ==
    ASSUME block # "decoding", NEW c, NEW p, CachedFor(c, p),
           UNCHANGED route_cache
    PROVE  CachedFor(c, p)'
BY DEF CachedFor

LEMMA BetweenFields ==
    ASSUME Inv, block \notin {"decoding", "closed"}, block' # "closed",
           block' = "decoding" => meant' = Nothing /\ find_path' = NoPath,
           UNCHANGED <<peer_table, decoder, route_cache>>
    PROVE  InStep'
BY DEF Inv, InStep, TableInStep, PathsInStep, PathFound, Counted, CachedFor,
       decoder, Nothing, NoPath

LEMMA EndBlockStep ==
    ASSUME Inv, EndBlock
    PROVE  Inv'
<1>1. /\ TypeOK /\ block = "decoding" /\ meant.path # None
      /\ TableInStep /\ PathsInStep /\ PathFound /\ Counted
      /\ Len(route_cache) \in Nat
      /\ UNCHANGED <<peer_table, meant, decoder, locals, requests>>
  BY LenProperties DEF Inv, InStep, EndBlock, TypeOK
<1>2. CASE /\ find_path.kind = "Cached"
           /\ find_path.index < Len(route_cache)
           /\ Resolved(route_cache[find_path.index + 1])
           /\ UNCHANGED route_cache
  <2>1. route_cache[find_path.index + 1] \in Routes(meant.path)
    BY <1>1, <1>2 DEF PathFound, NoPath, Plain
  <2>2. RouteAsSent' /\ ClosedForUnknownOnly'
    BY <1>2, <2>1 DEF Resolved, RouteAsSent, ClosedForUnknownOnly
  <2>3. TypeOK'
    BY <1>1, <1>2 DEF TypeOK, Resolved, decoder, locals
  <2>4. InStep'
    BY <1>1, <1>2
    DEF Resolved, InStep, TableInStep, PathsInStep, PathFound, Counted,
        CachedFor, Plain, decoder, locals
  <2> QED
    BY <2>2, <2>3, <2>4 DEF Inv
<1>3. ASSUME NEW route \in Routes(find_path.path),
             find_path.kind = "Plain",
             route_cache' = Append(route_cache, route),
             Resolved(route)
      PROVE  Inv'
  <2>1. find_path = Plain(meant.path) /\ meant.path \in Paths
    BY <1>1, <1>3 DEF PathFound, NoPath
  <2>2. find_path.path = meant.path
    BY <2>1 DEF Plain
  <2>3. route \in Routes(meant.path) /\ route \in Nat \X Nat
    BY <1>3, <2>1, <2>2, RoutesType
  <2>4. /\ route_cache' \in Seq(Nat \X Nat)
        /\ Len(route_cache') = Len(route_cache) + 1
        /\ \A i \in 1 .. Len(route_cache) : route_cache'[i] = route_cache[i]
        /\ route_cache'[Len(route_cache) + 1] = route
    BY <1>1, <1>3, <2>3, Grown DEF TypeOK
  <2>5. RouteAsSent' /\ ClosedForUnknownOnly'
    BY <1>3, <2>3 DEF Resolved, RouteAsSent, ClosedForUnknownOnly
  <2>6. TypeOK'
    BY <1>1, <1>3, <2>4 DEF TypeOK, Resolved, decoder, locals
  <2>7. ASSUME NEW c, NEW p, CachedFor(c, p)
        PROVE  CachedFor(c, p)'
    <3>1. CASE /\ c \in Nat /\ c < Len(route_cache)
               /\ route_cache[c + 1] \in Routes(p)
      <4>1. c + 1 \in 1 .. Len(route_cache) /\ c < Len(route_cache')
        <5>1. Len(route_cache') = Len(route_cache) + 1
          BY <2>4
        <5>2. Len(route_cache) \in Nat /\ c \in Nat /\ c < Len(route_cache)
          BY <1>1, <3>1
        <5> QED
          BY <5>1, <5>2
      <4>2. route_cache'[c + 1] = route_cache[c + 1]
        BY <2>4, <4>1
      <4> QED
        BY <3>1, <4>1, <4>2 DEF CachedFor
    <3>2. CASE c = Len(route_cache) /\ find_path = Plain(p)
      <4>1. p = meant.path
        BY <2>1, <3>2 DEF Plain
      <4> QED
        BY <1>1, <2>3, <2>4, <3>2, <4>1 DEF CachedFor
    <3> QED
      BY <2>7, <3>1, <3>2 DEF CachedFor
  <2>8. TableInStep'
    <3>1. ASSUME NEW i \in 1 .. Len(peer_table), peer_table[i].name = ":path"
          PROVE  CachedFor(dynamic_table[i].path_cache, peer_table[i].value)'
      <4>1. CachedFor(dynamic_table[i].path_cache, peer_table[i].value)
        BY <1>1, <3>1 DEF TableInStep
      <4>2. UNCHANGED <<dynamic_table, peer_table>>
        BY <1>1 DEF decoder
      <4>3. PICK c, p : c = dynamic_table[i].path_cache /\ p = peer_table[i].value
        OBVIOUS
      <4>4. CachedFor(c, p)'
        BY <2>7, <4>1, <4>3
      <4> QED
        BY <4>2, <4>3, <4>4 DEF CachedFor
    <3> QED
      BY <1>1, <3>1 DEF TableInStep, decoder
  <2>9. PathsInStep'
    <3>1. UNCHANGED <<plain_paths, huffman_paths>>
      BY <1>1 DEF decoder
    <3>2. ASSUME NEW p \in Paths, NEW c,
                 c = plain_paths[p] \/ c = huffman_paths[p], c # None
          PROVE  CachedFor(c, p)'
      BY <1>1, <2>7, <3>2 DEF PathsInStep
    <3> QED
      BY <3>1, <3>2 DEF PathsInStep, CachedFor
  <2>10. InStep'
    BY <1>1, <1>3, <2>4, <2>8, <2>9
    DEF InStep, PathFound, Counted, Resolved, decoder, locals
  <2> QED
    BY <2>5, <2>6, <2>10 DEF Inv
<1>4. CASE /\ \/ /\ find_path.kind = "Cached"
                 /\ find_path.index >= Len(route_cache)
              \/ find_path.kind = "Plain" /\ Routes(find_path.path) = {}
              \/ find_path.kind = "NoPathSet"
           /\ block' = "closed"
           /\ UNCHANGED <<route_cache, request, open>>
  <2>1. find_path.kind = "Plain" /\ find_path.path = meant.path
    <3>1. ASSUME find_path.kind = "Cached", find_path.index \in Nat,
                 find_path.index < Len(route_cache),
                 find_path.index >= Len(route_cache)
          PROVE  FALSE
      BY <1>1, <3>1
    <3> QED
      BY <1>1, <1>4, <3>1 DEF PathFound, NoPath, Plain
  <2>2. ClosedForUnknownOnly'
    BY <1>1, <1>4, <2>1 DEF ClosedForUnknownOnly
  <2>3. TypeOK' /\ InStep' /\ RouteAsSent'
    BY <1>1, <1>4 DEF Inv, TypeOK, InStep, RouteAsSent, decoder, locals
  <2> QED
    BY <2>2, <2>3 DEF Inv
<1> QED
  BY <1>2, <1>3, <1>4 DEF EndBlock, resolve_route

(* The decoder and the route cache stay in step with the client, as long as *)
(* no refused block inserts into the client's table.                        *)
THEOREM InvHolds == RefusedInserts = FALSE /\ Spec => []Inv
<1> SUFFICES ASSUME RefusedInserts = FALSE
             PROVE  Spec => []Inv
  OBVIOUS
<1>1. Init => Inv
  <2> SUFFICES ASSUME Init
               PROVE  Inv
    OBVIOUS
  <2>1. TypeOK
    BY EmptySeq DEF Init, TypeOK, Nothing, NoPath, PathKind, Index
  <2>2. InStep
    BY EmptySeq
    DEF Init, InStep, TableInStep, PathsInStep, PathFound, Counted
  <2> QED
    BY <2>1, <2>2 DEF Init, Inv, RouteAsSent, ClosedForUnknownOnly
<1>2. Inv /\ [Next]_vars => Inv'
  <2> SUFFICES ASSUME Inv, [Next]_vars
               PROVE  Inv'
    OBVIOUS
  <2>1. CASE BeginBlock
    <3>1. InStep'
      BY <2>1, BetweenFields DEF BeginBlock
    <3> QED
      BY <2>1, <3>1
      DEF BeginBlock, Inv, TypeOK, RouteAsSent, ClosedForUnknownOnly, Nothing,
          NoPath, PathKind, Index, decoder
  <2>2. ASSUME NEW k \in 1 .. Len(peer_table), SendIndexed(k)
        PROVE  Inv'
    BY <2>2, IndexedStep
  <2>3. ASSUME NEW field \in FieldType, NEW k \in 0 .. Len(peer_table),
               SendWithIndexing(field, k)
        PROVE  Inv'
    BY <2>3, WithIndexingStep
  <2>4. ASSUME NEW field \in FieldType, NEW k \in 0 .. Len(peer_table),
               NEW huff \in BOOLEAN, SendWithoutIndexing(field, k, huff)
        PROVE  Inv'
    BY <2>4, WithoutIndexingStep
  <2>5. CASE EndBlock
    BY <2>5, EndBlockStep
  <2>6. CASE EndRefused
    <3>1. InStep'
      BY <2>6, BetweenFields DEF EndRefused, rest
    <3> QED
      BY <2>6, <3>1
      DEF EndRefused, Inv, TypeOK, RouteAsSent, ClosedForUnknownOnly, decoder,
          locals, rest
  <2>7. CASE CloseStream
    <3>1. InStep'
      BY <2>7, BetweenFields DEF CloseStream
    <3> QED
      BY <2>7, <3>1
      DEF CloseStream, Inv, TypeOK, RouteAsSent, ClosedForUnknownOnly, decoder,
          locals
  <2>8. CASE UNCHANGED vars
    BY <2>8
    DEF vars, decoder, locals, Inv, TypeOK, InStep, RouteAsSent,
        ClosedForUnknownOnly, TableInStep, PathsInStep, PathFound, Counted,
        CachedFor
  <2> QED
    BY <2>1, <2>2, <2>3, <2>4, <2>5, <2>6, <2>7, <2>8 DEF Next
<1> QED
  BY <1>1, <1>2, PTL DEF Spec

(* Every request reaches the method its :path names.                        *)
THEOREM RouteAsSentHolds == RefusedInserts = FALSE /\ Spec => []RouteAsSent
<1>1. Inv => RouteAsSent
  BY DEF Inv
<1> QED
  BY <1>1, InvHolds, PTL

(* No index the client sends, and none the decoder stored, is out of range. *)
THEOREM ClosedForUnknownOnlyHolds ==
    RefusedInserts = FALSE /\ Spec => []ClosedForUnknownOnly
<1>1. Inv => ClosedForUnknownOnly
  BY DEF Inv
<1> QED
  BY <1>1, InvHolds, PTL

(* An index that leads into the cache, or to the one the caller will push.   *)
LEMMA CachedFits ==
    ASSUME TypeOK, Counted, NEW c, NEW p, CachedFor(c, p)
    PROVE  c < next_cache_index
<1>1. Len(route_cache) \in Nat /\ next_cache_index \in Nat
  BY LenProperties DEF TypeOK
<1>2. CASE c \in Nat /\ c < Len(route_cache)
  BY <1>1, <1>2 DEF Counted
<1>3. CASE c = Len(route_cache) /\ block = "decoding" /\ find_path = Plain(p)
  BY <1>1, <1>3 DEF Counted, Plain
<1> QED
  BY <1>2, <1>3 DEF CachedFor

(* The decoder's count of the cache and the cache never part, and every     *)
(* index the decoder has stored, anywhere, is in the cache or the next.     *)
THEOREM CacheIndicesFitHolds ==
    RefusedInserts = FALSE /\ Spec => []CacheIndicesFit
<1>1. ASSUME Inv
      PROVE  CacheIndicesFit
  <2> SUFFICES ASSUME block # "closed"
               PROVE  CacheIndicesFit
    BY DEF CacheIndicesFit
  <2>1. TypeOK /\ TableInStep /\ PathsInStep /\ Counted
    BY <1>1 DEF Inv, InStep
  <2>2. ASSUME NEW i \in DOMAIN dynamic_table,
               dynamic_table[i].path_cache # None
        PROVE  dynamic_table[i].path_cache < next_cache_index
    <3>1. i \in 1 .. Len(peer_table)
      BY <2>1, LenProperties DEF TypeOK, TableInStep
    <3>2. CachedFor(dynamic_table[i].path_cache, peer_table[i].value)
      BY <2>1, <2>2, <3>1 DEF TableInStep
    <3> QED
      BY <2>1, <3>2, CachedFits
  <2>3. ASSUME NEW p \in Paths
        PROVE  /\ plain_paths[p] # None => plain_paths[p] < next_cache_index
               /\ huffman_paths[p] # None => huffman_paths[p] < next_cache_index
    BY <2>1, CachedFits DEF PathsInStep
  <2> QED
    BY <2>1, <2>2, <2>3 DEF CacheIndicesFit, Counted
<1> QED
  BY <1>1, InvHolds, PTL

-----------------------------------------------------------------------------
(* Encodings: for clients that send none but known ones.  The decoder takes *)
(* the name of an entry for grpc-encoding by the encoding it remembers, so  *)
(* each entry must have its encoding and no other entry any.                *)

EncodingOf(field) == IF field.name = "grpc-encoding" THEN field.value ELSE None

EncodingsInStep ==
    block # "closed" =>
        \A i \in 1 .. Len(peer_table) :
            dynamic_table[i].encoding = EncodingOf(peer_table[i])

EncodingFound ==
    block = "decoding" /\ meant.encoding # None => encoding = meant.encoding

EncodingInv == EncodingsInStep /\ EncodingFound /\ EncodingAsSent

LEMMA EncodingOfType ==
    ASSUME NEW field \in FieldType
    PROVE  /\ EncodingOf(field) \in Encodings \cup {None}
           /\ EncodingOf(field) = None <=> field.name # "grpc-encoding"
BY NoneAssumption DEF EncodingOf, FieldType

\* What meant says of the encoding after a field.
LEMMA MeantEncoding ==
    ASSUME TypeOK, NEW field \in FieldType, Mean(field)
    PROVE  meant'.encoding = IF EncodingOf(field) # None THEN EncodingOf(field)
                                                         ELSE meant.encoding
<1>1. field.name \in Names /\ EncodingOf(field) = None <=> field.name # "grpc-encoding"
  BY EncodingOfType DEF FieldType
<1>2. CASE field.name = ":path"
  BY <1>1, <1>2 DEF Mean, TypeOK
<1>3. CASE field.name = "grpc-encoding"
  BY <1>1, <1>3, EncodingOfType DEF Mean, TypeOK, EncodingOf
<1>4. CASE field.name = "other"
  BY <1>1, <1>4 DEF Mean
<1> QED
  BY <1>1, <1>2, <1>3, <1>4, EncodingOfType DEF FieldType, Names

\* Every name is read as it is meant.
LEMMA NameReadAsMeant ==
    ASSUME TypeOK, TableInStep, EncodingsInStep, block = "decoding",
           NEW field \in FieldType, NEW k \in 0 .. Len(peer_table),
           Named(field, k)
    PROVE  NameRead(field, k) = field.name
<1>1. CASE k = 0
  BY <1>1 DEF NameRead
<1>2. CASE k # 0
  <2> DEFINE i == Len(peer_table) + 1 - k
  <2>1. i \in 1 .. Len(peer_table) /\ Len(dynamic_table) = Len(peer_table)
    BY <1>2, LenProperties DEF TypeOK, TableInStep
  <2>2. /\ peer_table[i].name = field.name
        /\ Entry(k) = dynamic_table[i]
        /\ peer_table[i] \in FieldType
    BY <1>2, <2>1, ElementOfSeq DEF Named, PeerEntry, Entry, TypeOK
  <2>3. Entry(k).encoding = EncodingOf(peer_table[i])
    BY <2>1, <2>2 DEF EncodingsInStep
  <2>4. Entry(k).encoding = None <=> field.name # "grpc-encoding"
    BY <2>2, <2>3, EncodingOfType
  <2>5. NameRead(field, k) = classify_table_index(k)
    BY <1>2 DEF NameRead
  <2>6. /\ NameRead(field, k) = ":path" <=> field.name = ":path"
        /\ NameRead(field, k) \in Names /\ field.name \in Names
    BY PathNameRead DEF FieldType
  <2> QED
    BY <2>4, <2>5, <2>6 DEF classify_table_index, Names
<1> QED
  BY <1>1, <1>2

\* The decoder's encoding follows what is meant when it notes the field's.
LEMMA EncodingFollows ==
    ASSUME TypeOK, NEW field \in FieldType, Mean(field), EncodingFound,
           block = "decoding", NoteEncoding(EncodingOf(field))
    PROVE  EncodingFound'
BY MeantEncoding DEF EncodingFound, NoteEncoding

LEMMA EncodingIndexed ==
    ASSUME Inv, EncodingInv, NEW k \in 1 .. Len(peer_table), SendIndexed(k)
    PROVE  EncodingInv'
<1>1. /\ TypeOK /\ EncodingsInStep /\ EncodingFound /\ EncodingAsSent
      /\ PeerEntry(k) \in FieldType
      /\ Mean(PeerEntry(k))
      /\ UNCHANGED <<peer_table, request>>
  BY PeerEntryType DEF Inv, EncodingInv, SendIndexed, rest
<1>2. CASE Skip
  BY <1>1, <1>2 DEF Skip, decoder, EncodingInv, EncodingsInStep, EncodingFound,
                    EncodingAsSent
<1>3. CASE block = "decoding" /\ Indexed(k)
  <2> DEFINE i == Len(peer_table) + 1 - k
  <2>1. /\ Len(dynamic_table) = Len(peer_table) /\ Len(peer_table) \in Nat
    BY <1>1, <1>3, LenProperties DEF Inv, InStep, TableInStep, TypeOK
  <2>2. /\ i \in 1 .. Len(peer_table)
        /\ Entry(k) = dynamic_table[i] /\ PeerEntry(k) = peer_table[i]
    BY <2>1 DEF Entry, PeerEntry
  <2>3. /\ NoteEncoding(EncodingOf(PeerEntry(k)))
        /\ UNCHANGED <<block, decoder>>
    BY <1>1, <1>3, <2>1, <2>2 DEF Indexed, EncodingsInStep
  <2>4. EncodingFound'
    BY <1>1, <1>3, <2>3, EncodingFollows
  <2> QED
    BY <1>1, <2>3, <2>4 DEF decoder, EncodingInv, EncodingsInStep, EncodingAsSent
<1> QED
  BY <1>2, <1>3 DEF SendIndexed

LEMMA EncodingWithIndexing ==
    ASSUME RefusedInserts = FALSE, Known = Encodings, Inv, EncodingInv,
           NEW field \in FieldType, NEW k \in 0 .. Len(peer_table),
           SendWithIndexing(field, k)
    PROVE  EncodingInv'
<1>1. /\ TypeOK /\ EncodingsInStep /\ EncodingFound /\ EncodingAsSent
      /\ Mean(field) /\ Named(field, k)
      /\ peer_table' = Append(peer_table, field)
      /\ UNCHANGED request
      /\ block = "decoding"
  BY DEF Inv, EncodingInv, SendWithIndexing, rest, Skip
<1>2. /\ TableInStep
      /\ Len(dynamic_table) = Len(peer_table) /\ Len(peer_table) \in Nat
      /\ dynamic_table \in Seq(Entries) /\ peer_table \in Seq(FieldType)
  BY <1>1, LenProperties DEF Inv, InStep, TableInStep, TypeOK, Entries
<1>3. LiteralWithIndexing(field.name, field.value)
  BY <1>1, <1>2, NameReadAsMeant DEF SendWithIndexing, Skip
<1>4. PICK entry \in Entries :
        /\ dynamic_table' = Append(dynamic_table, entry)
        /\ entry.encoding = EncodingOf(field)
        /\ NoteEncoding(EncodingOf(field))
        /\ UNCHANGED block
  <2>1. field.name \in Names /\ (field.name = "grpc-encoding" => field.value \in Encodings)
    BY DEF FieldType
  <2>2. next_cache_index \in Index
    BY <1>1 DEF TypeOK, Index
  <2>3. CASE field.name = ":path"
    <3>1. [path_cache |-> next_cache_index, encoding |-> None] \in Entries
      BY <2>2 DEF Entries
    <3> QED
      BY <1>3, <2>3, <3>1 DEF LiteralWithIndexing, push_dynamic_entry,
                              EncodingOf, NoteEncoding
  <2>4. CASE field.name = "grpc-encoding"
    <3>1. to_encoding(field.value) = field.value
      BY <2>1, <2>4 DEF to_encoding
    <3>2. [path_cache |-> None, encoding |-> field.value] \in Entries
      BY <2>1, <2>4 DEF Entries, Index
    <3> QED
      BY <1>3, <2>4, <3>1, <3>2 DEF LiteralWithIndexing, push_dynamic_entry,
                                    EncodingOf
  <2>5. CASE field.name = "other"
    <3>1. [path_cache |-> None, encoding |-> None] \in Entries
      BY DEF Entries, Index
    <3> QED
      BY <1>3, <2>5, <3>1 DEF LiteralWithIndexing, push_dynamic_entry,
                              EncodingOf, NoteEncoding, locals
  <2> QED
    BY <2>1, <2>3, <2>4, <2>5 DEF Names
<1>5. EncodingFound'
  BY <1>1, <1>4, EncodingFollows
<1>6. EncodingsInStep'
  <2> DEFINE n == Len(peer_table)
  <2>1. /\ Len(peer_table') = n + 1
        /\ \A i \in 1 .. n : peer_table'[i] = peer_table[i]
        /\ peer_table'[n + 1] = field
    BY <1>1, <1>2, Grown
  <2>2. /\ \A i \in 1 .. n : dynamic_table'[i] = dynamic_table[i]
        /\ dynamic_table'[n + 1] = entry
    BY <1>2, <1>4, Grown
  <2>3. ASSUME NEW i \in 1 .. n + 1
        PROVE  dynamic_table'[i].encoding = EncodingOf(peer_table'[i])
    <3>1. CASE i = n + 1
      BY <1>4, <2>1, <2>2, <3>1
    <3>2. CASE i \in 1 .. n
      BY <1>1, <2>1, <2>2, <3>2 DEF EncodingsInStep
    <3> QED
      BY <1>2, <3>1, <3>2
  <2> QED
    BY <2>1, <2>3 DEF EncodingsInStep, EncodingOf
<1> QED
  BY <1>1, <1>5, <1>6 DEF EncodingInv, EncodingAsSent

LEMMA EncodingWithoutIndexing ==
    ASSUME Known = Encodings, Inv, EncodingInv,
           NEW field \in FieldType, NEW k \in 0 .. Len(peer_table),
           NEW huff \in BOOLEAN, SendWithoutIndexing(field, k, huff)
    PROVE  EncodingInv'
<1>1. /\ TypeOK /\ EncodingsInStep /\ EncodingFound /\ EncodingAsSent
      /\ Mean(field) /\ Named(field, k)
      /\ UNCHANGED <<peer_table, request>>
  BY DEF Inv, EncodingInv, SendWithoutIndexing, rest
<1>2. CASE Skip
  BY <1>1, <1>2 DEF Skip, decoder, EncodingInv, EncodingsInStep, EncodingFound,
                    EncodingAsSent
<1>3. CASE block = "decoding"
  <2>1. TableInStep /\ Len(dynamic_table) = Len(peer_table)
        /\ Len(peer_table) \in Nat
    BY <1>1, <1>3, LenProperties DEF Inv, InStep, TableInStep, TypeOK
  <2>2. LiteralWithoutIndexing(field.name, field.value, huff)
    BY <1>1, <1>3, <2>1, NameReadAsMeant DEF SendWithoutIndexing, Skip
  <2>3. UNCHANGED <<block, dynamic_table>>
    BY <2>2 DEF LiteralWithoutIndexing
  <2>4. NoteEncoding(EncodingOf(field))
    <3>1. CASE field.name = "grpc-encoding"
      <4>1. to_encoding(field.value) = field.value
        BY <3>1 DEF FieldType, to_encoding
      <4> QED
        BY <2>2, <3>1, <4>1 DEF LiteralWithoutIndexing, EncodingOf
    <3>2. CASE field.name # "grpc-encoding"
      BY <2>2, <3>2 DEF LiteralWithoutIndexing, EncodingOf, NoteEncoding, locals
    <3> QED
      BY <3>1, <3>2
  <2>5. EncodingFound'
    BY <1>1, <1>3, <2>4, EncodingFollows
  <2> QED
    BY <1>1, <2>3, <2>5 DEF EncodingInv, EncodingsInStep, EncodingAsSent
<1> QED
  BY <1>2, <1>3 DEF SendWithoutIndexing

LEMMA EncodingEndBlock ==
    ASSUME Inv, EncodingInv, EndBlock
    PROVE  EncodingInv'
<1>1. /\ block = "decoding" /\ EncodingsInStep /\ EncodingFound
      /\ UNCHANGED <<peer_table, dynamic_table, meant, encoding>>
  BY DEF EncodingInv, EndBlock, decoder, locals
<1>2. CASE block' = "closed" /\ UNCHANGED request
  BY <1>1, <1>2 DEF EncodingInv, EncodingsInStep, EncodingFound, EncodingAsSent
<1>3. ASSUME NEW route, Resolved(route)
      PROVE  EncodingInv'
  <2>1. request' = [route |-> route, encoding |-> encoding, meant |-> meant]
        /\ block' = "idle"
    BY <1>3 DEF Resolved
  <2>2. EncodingAsSent'
    <3>1. ASSUME meant.encoding \in Known
          PROVE  encoding = meant.encoding
      BY <1>1, <3>1, NoneAssumption, LimitsAssumption DEF EncodingFound
    <3> QED
      BY <2>1, <3>1 DEF EncodingAsSent
  <2> QED
    BY <1>1, <2>1, <2>2 DEF EncodingInv, EncodingsInStep, EncodingFound
<1> QED
  BY <1>2, <1>3 DEF EndBlock, resolve_route

LEMMA EncodingStep ==
    ASSUME RefusedInserts = FALSE, Known = Encodings, Inv, EncodingInv,
           [Next]_vars
    PROVE  EncodingInv'
<1>1. CASE BeginBlock
  BY <1>1 DEF BeginBlock, EncodingInv, EncodingsInStep, EncodingFound,
              EncodingAsSent, Nothing, decoder
<1>2. CASE EndBlock
  BY <1>2, EncodingEndBlock
<1>3. CASE EndRefused
  BY <1>3 DEF EndRefused, EncodingInv, EncodingsInStep, EncodingFound,
              EncodingAsSent, decoder, locals, rest
<1>4. CASE CloseStream
  BY <1>4 DEF CloseStream, EncodingInv, EncodingsInStep, EncodingFound,
              EncodingAsSent, decoder, locals
<1>5. CASE UNCHANGED vars
  BY <1>5 DEF vars, EncodingInv, EncodingsInStep, EncodingFound,
              EncodingAsSent, decoder, locals
<1> QED
  BY <1>1, <1>2, <1>3, <1>4, <1>5, EncodingIndexed, EncodingWithIndexing,
     EncodingWithoutIndexing DEF Next

LEMMA InitEncoding == Init => EncodingInv
BY EmptySeq DEF Init, EncodingInv, EncodingsInStep, EncodingFound,
                EncodingAsSent

(* A request is decompressed the way its grpc-encoding says, for a client   *)
(* that sends no encoding the server does not know.                         *)
THEOREM EncodingAsSentHolds ==
    RefusedInserts = FALSE /\ Known = Encodings /\ Spec => []EncodingAsSent
<1> SUFFICES ASSUME RefusedInserts = FALSE, Known = Encodings
             PROVE  Spec => []EncodingAsSent
  OBVIOUS
<1>1. Spec => []Inv
  BY InvHolds
<1>2. Init => EncodingInv
  BY InitEncoding
<1>3. Inv /\ EncodingInv /\ [Next]_vars => EncodingInv'
  BY EncodingStep
<1>4. EncodingInv => EncodingAsSent
  BY DEF EncodingInv
<1> QED
  BY <1>1, <1>2, <1>3, <1>4, PTL DEF Spec

(* Between blocks the decoder has an entry for every literal the client     *)
(* inserted, in order: the route of a path, the value of an encoding, and   *)
(* nothing of any other field.                                              *)
THEOREM EveryLiteralInsertedHolds ==
    RefusedInserts = FALSE /\ Known = Encodings /\ Spec
        => []EveryLiteralInserted
<1> SUFFICES ASSUME RefusedInserts = FALSE, Known = Encodings
             PROVE  Spec => []EveryLiteralInserted
  OBVIOUS
<1>1. Spec => []Inv
  BY InvHolds
<1>2. Init => EncodingInv
  BY InitEncoding
<1>3. Inv /\ EncodingInv /\ [Next]_vars => EncodingInv'
  BY EncodingStep
<1>4. ASSUME Inv, EncodingInv
      PROVE  EveryLiteralInserted
  <2> SUFFICES ASSUME block = "idle"
               PROVE  EveryLiteralInserted
    BY DEF EveryLiteralInserted
  <2>1. TypeOK /\ TableInStep /\ EncodingsInStep
    BY <1>4 DEF Inv, InStep, EncodingInv
  <2>2. ASSUME NEW i \in DOMAIN peer_table
        PROVE  Remembers(dynamic_table[i], peer_table[i])
    <3>1. i \in 1 .. Len(peer_table) /\ Len(route_cache) \in Nat
      BY <2>1, LenProperties DEF TypeOK
    <3>2. dynamic_table[i].encoding = EncodingOf(peer_table[i])
      BY <2>1, <3>1 DEF EncodingsInStep
    <3>3. CASE peer_table[i].name = ":path"
      <4>1. CachedFor(dynamic_table[i].path_cache, peer_table[i].value)
        BY <2>1, <3>1, <3>3 DEF TableInStep
      <4>2. /\ dynamic_table[i].path_cache # None
            /\ dynamic_table[i].path_cache < Len(route_cache)
            /\ route_cache[dynamic_table[i].path_cache + 1]
                 \in Routes(peer_table[i].value)
        BY <4>1, NoneAssumption DEF CachedFor
      <4> QED
        BY <3>2, <3>3, <4>2 DEF Remembers, EncodingOf
    <3>4. CASE peer_table[i].name # ":path"
      BY <2>1, <3>1, <3>2, <3>4 DEF TableInStep, Remembers, EncodingOf
    <3> QED
      BY <3>3, <3>4
  <2> QED
    BY <2>1, <2>2 DEF EveryLiteralInserted, TableInStep
<1> QED
  BY <1>1, <1>2, <1>3, <1>4, PTL DEF Spec
=============================================================================
