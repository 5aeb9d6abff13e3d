---------------------------- MODULE HeaderBlocks ----------------------------
(***************************************************************************)
(* The header blocks of one connection: the HPACK decoder of the server    *)
(* (hpack_decoder.rs), its route cache (resolve_route in connection.rs)    *)
(* and the refusal of streams over the limit, against a client that        *)
(* encodes its headers by the rules of HPACK.                              *)
(*                                                                         *)
(* The decoder keeps no header: per entry of the client's dynamic table it *)
(* only remembers where the route of a :path is cached and which known     *)
(* grpc-encoding it names.  The index of that cache is counted in the      *)
(* decoder while the cache itself is filled by resolve_route.              *)
(*                                                                         *)
(* One step is one header field.  Octets, Huffman coding and integer       *)
(* coding are left out; `huff` only says in which of its two forms a       *)
(* string was sent.  A dynamic index is its distance k from the newest     *)
(* entry: table index 61 + k.  Static entries say nothing the decoder      *)
(* looks at, other than the name :path.                                    *)
(***************************************************************************)
EXTENDS Integers, Sequences

CONSTANTS
    Paths,          \* the values of :path
    Encodings,      \* the values of grpc-encoding that a client sends
    Known,          \* the ones GrpcEncoding has a variant for
    Services,       \* per service, route(): path -> discriminant or None
    MaxStreams,     \* config.max_concurrent_streams
    RefusedInserts, \* whether a block that is refused may insert entries
    None,           \* Rust's None
    MaxEntries,     \* bound: entries the client inserts into its table
    MaxRequests     \* bound: header blocks on the connection

ASSUME NoneAssumption ==
    None \notin Nat \cup Paths \cup Encodings
ASSUME ServicesAssumption ==
    Services \in Seq([Paths -> Nat \cup {None}])
ASSUME LimitsAssumption ==
    /\ Known \subseteq Encodings
    /\ MaxStreams \in Nat /\ MaxEntries \in Nat /\ MaxRequests \in Nat
    /\ RefusedInserts \in BOOLEAN

Names == {":path", "grpc-encoding", "other"}
Identity == "identity"                    \* GrpcEncoding::default()
Index == Nat \cup {None}

VARIABLES
    peer_table,        \* the client's dynamic table, oldest entry first
    block,             \* where the header block stands
    meant,             \* what the client's fields of this block mean so far
    dynamic_table, next_cache_index, plain_paths, huffman_paths,  \* Decoder
    find_path, encoding,                   \* locals of find_path_and_encoding
    route_cache,
    open,              \* streams.len()
    request,           \* the last request resolved, with what was meant
    requests           \* number of header blocks so far

decoder == <<dynamic_table, next_cache_index, plain_paths, huffman_paths>>
locals  == <<find_path, encoding>>
vars == <<peer_table, block, meant, decoder, locals, route_cache, open,
          request, requests>>

Field(name, value) == [name |-> name, value |-> value]
FieldType == {f \in [name : Names, value : Paths \cup Encodings \cup {None}] :
                 /\ f.name = ":path" => f.value \in Paths
                 /\ f.name = "grpc-encoding" => f.value \in Encodings
                 /\ f.name = "other" => f.value = None}

\* PathKind
Cached(index) == [kind |-> "Cached", index |-> index, path |-> None]
Plain(path)   == [kind |-> "Plain", index |-> None, path |-> path]
NoPath        == [kind |-> "NoPathSet", index |-> None, path |-> None]
PathKind == [kind : {"Cached", "Plain", "NoPathSet"},
             index : Index, path : Paths \cup {None}]

Nothing == [path |-> None, encoding |-> None]

TypeOK ==
    /\ peer_table \in Seq(FieldType)
    /\ block \in {"idle", "decoding", "refused", "closed"}
    /\ meant \in [path : Paths \cup {None}, encoding : Encodings \cup {None}]
    /\ dynamic_table \in Seq([path_cache : Index,
                              encoding : Encodings \cup {None}])
    /\ next_cache_index \in Nat
    /\ plain_paths \in [Paths -> Index]
    /\ huffman_paths \in [Paths -> Index]
    /\ find_path \in PathKind
    /\ encoding \in Encodings \cup {Identity}
    /\ route_cache \in Seq(Nat \X Nat)
    /\ open \in Nat
    /\ requests \in Nat

Init ==
    /\ peer_table = <<>>
    /\ block = "idle"
    /\ meant = Nothing
    /\ dynamic_table = <<>>
    /\ next_cache_index = 0
    /\ plain_paths = [p \in Paths |-> None]
    /\ huffman_paths = [p \in Paths |-> None]
    /\ find_path = NoPath
    /\ encoding = Identity
    /\ route_cache = <<>>
    /\ open = 0
    /\ request = None
    /\ requests = 0

-----------------------------------------------------------------------------
(* The decoder on one field                                                *)

\* val.to_encoding()
to_encoding(value) == IF value \in Known THEN value ELSE None

\* The entry of table index 61 + k.
Entry(k) == dynamic_table[Len(dynamic_table) + 1 - k]

\* classify_table_index: what the decoder remembers of an entry's name.
classify_table_index(k) ==
    CASE Entry(k).path_cache # None -> ":path"
      [] Entry(k).path_cache = None /\ Entry(k).encoding # None -> "grpc-encoding"
      [] OTHER -> "other"

\* Mutant of push_dynamic_entry: the cache index is read after it is counted.
push_next_index(path_cache, enc) ==
    dynamic_table' =
        Append(dynamic_table,
               [path_cache |-> IF path_cache = None THEN None ELSE path_cache + 1,
                encoding |-> enc])

\* Mutant of push_dynamic_entry: one is taken off an index not counted yet.
push_before_count(path_cache, enc) ==
    dynamic_table' =
        Append(dynamic_table,
               [path_cache |-> IF path_cache = None THEN None ELSE path_cache - 1,
                encoding |-> enc])

\* Mutant of push_dynamic_entry: the encoding is noted, but not remembered.
push_without_encoding(path_cache, enc) ==
    dynamic_table' =
        Append(dynamic_table, [path_cache |-> path_cache, encoding |-> None])

push_dynamic_entry(path_cache, enc) ==
    dynamic_table' =
        Append(dynamic_table, [path_cache |-> path_cache, encoding |-> enc])

\* Mutant of NoteEncoding: the encoding of the last header field wins.
NoteLastEncoding(enc) == encoding' = IF enc # None THEN enc ELSE Identity

NoteEncoding(enc) == encoding' = IF enc # None THEN enc ELSE encoding

\* An invalid index ends the connection: an error for an indexed field, an
\* arithmetic underflow for an indexed name.
InvalidIndex ==
    /\ block' = "closed"
    /\ UNCHANGED <<decoder, locals>>

Indexed(k) ==
    \/ /\ k > Len(dynamic_table)
       /\ InvalidIndex
    \/ /\ k <= Len(dynamic_table)
       /\ find_path' = IF Entry(k).path_cache # None
                         THEN Cached(Entry(k).path_cache) ELSE find_path
       /\ NoteEncoding(Entry(k).encoding)
       /\ UNCHANGED <<block, decoder>>

LiteralWithIndexing(name, value) ==
    \/ /\ name = ":path"
       /\ find_path' = Plain(value)
       /\ next_cache_index' = next_cache_index + 1
       /\ push_dynamic_entry(next_cache_index, None)
       /\ UNCHANGED <<block, encoding, plain_paths, huffman_paths>>
    \/ /\ name = "grpc-encoding"
       /\ NoteEncoding(to_encoding(value))
       /\ push_dynamic_entry(None, to_encoding(value))
       /\ UNCHANGED <<block, find_path, next_cache_index, plain_paths,
                      huffman_paths>>
    \/ /\ name = "other"
       /\ push_dynamic_entry(None, None)
       /\ UNCHANGED <<block, locals, next_cache_index, plain_paths,
                      huffman_paths>>

\* Mutant of RememberPath: the index is not counted.
RememberUncounted(paths, value) ==
    IF paths[value] # None
      THEN /\ find_path' = Cached(paths[value])
           /\ UNCHANGED <<paths, next_cache_index>>
      ELSE /\ find_path' = Plain(value)
           /\ paths' = [paths EXCEPT ![value] = next_cache_index]
           /\ UNCHANGED next_cache_index

\* A path not to be indexed is remembered as sent, each form on its own.
RememberPath(paths, value) ==
    IF paths[value] # None
      THEN /\ find_path' = Cached(paths[value])
           /\ UNCHANGED <<paths, next_cache_index>>
      ELSE /\ find_path' = Plain(value)
           /\ paths' = [paths EXCEPT ![value] = next_cache_index]
           /\ next_cache_index' = next_cache_index + 1

LiteralWithoutIndexing(name, value, huff) ==
    /\ \/ /\ name = ":path"
          /\ ~huff
          /\ RememberPath(plain_paths, value)
          /\ UNCHANGED <<encoding, huffman_paths>>
       \/ /\ name = ":path"
          /\ huff
          /\ RememberPath(huffman_paths, value)
          /\ UNCHANGED <<encoding, plain_paths>>
       \/ /\ name = "grpc-encoding"
          /\ NoteEncoding(to_encoding(value))
          /\ UNCHANGED <<find_path, next_cache_index, plain_paths, huffman_paths>>
       \/ /\ name = "other"
          /\ UNCHANGED <<locals, next_cache_index, plain_paths, huffman_paths>>
    /\ UNCHANGED <<block, dynamic_table>>

-----------------------------------------------------------------------------
(* The client                                                              *)

\* The client's own entry at distance k.
PeerEntry(k) == peer_table[Len(peer_table) + 1 - k]

\* A request has one :path and at most one grpc-encoding.
Allowed(field) ==
    /\ block \in {"decoding", "refused"}
    /\ field.name = ":path" => meant.path = None
    /\ field.name = "grpc-encoding" => meant.encoding = None

Mean(field) ==
    meant' = CASE field.name = ":path" -> [meant EXCEPT !.path = field.value]
               [] field.name = "grpc-encoding" ->
                    [meant EXCEPT !.encoding = field.value]
               [] OTHER -> meant

\* The block of a refused stream is not given to the decoder.
Skip == block = "refused" /\ UNCHANGED <<block, decoder, locals>>

rest == <<route_cache, open, request, requests>>

SendIndexed(k) ==
    /\ Allowed(PeerEntry(k))
    /\ Mean(PeerEntry(k))
    /\ Skip \/ (block = "decoding" /\ Indexed(k))
    /\ UNCHANGED <<peer_table, rest>>

\* The name of a literal is spelt out (or static): k = 0, or taken from the
\* entry at distance k, and then the decoder has to know it.
Named(field, k) ==
    k = 0 \/ (k \in 1 .. Len(peer_table) /\ PeerEntry(k).name = field.name)
NameRead(field, k) == IF k = 0 THEN field.name ELSE classify_table_index(k)

SendWithIndexing(field, k) ==
    /\ Allowed(field)
    /\ Named(field, k)
    /\ Len(peer_table) < MaxEntries
    /\ block = "refused" => RefusedInserts
    /\ Mean(field)
    /\ peer_table' = Append(peer_table, field)
    /\ \/ Skip
       \/ /\ block = "decoding"
          /\ \/ k > Len(dynamic_table) /\ InvalidIndex
             \/ /\ k <= Len(dynamic_table)
                /\ LiteralWithIndexing(NameRead(field, k), field.value)
    /\ UNCHANGED rest

SendWithoutIndexing(field, k, huff) ==
    /\ Allowed(field)
    /\ Named(field, k)
    /\ Mean(field)
    /\ \/ Skip
       \/ /\ block = "decoding"
          /\ \/ k > Len(dynamic_table) /\ InvalidIndex
             \/ /\ k <= Len(dynamic_table)
                /\ LiteralWithoutIndexing(NameRead(field, k), field.value, huff)
    /\ UNCHANGED <<peer_table, rest>>

-----------------------------------------------------------------------------
(* HEADERS: begin and end of a block                                       *)

AtLimit == open >= MaxStreams

BeginBlock ==
    /\ block = "idle"
    /\ requests < MaxRequests
    /\ block' = IF AtLimit THEN "refused" ELSE "decoding"
    /\ requests' = requests + 1
    /\ meant' = Nothing
    /\ find_path' = NoPath
    /\ encoding' = Identity
    /\ UNCHANGED <<peer_table, decoder, route_cache, open, request>>

\* svc.route(path): the first service that knows the path.
IsRoute(i, path) ==
    /\ i \in DOMAIN Services
    /\ Services[i][path] # None
    /\ \A j \in 1 .. i-1 : Services[j][path] = None
Routes(path) == {<<i, Services[i][path]>> :
                    i \in {j \in DOMAIN Services : IsRoute(j, path)}}

Resolved(route) ==
    /\ block' = "idle"
    /\ request' = [route |-> route, encoding |-> encoding, meant |-> meant]
    /\ open' \in {open, open + 1}      \* END_STREAM or a body to come

\* Mutant of resolve_route: a route that is cached already is not cached
\* again, as another spelling of its path had it.
resolve_route_once ==
    \/ /\ find_path.kind = "Cached"
       /\ find_path.index < Len(route_cache)
       /\ Resolved(route_cache[find_path.index + 1])
       /\ UNCHANGED route_cache
    \/ /\ find_path.kind = "Plain"
       /\ \E route \in Routes(find_path.path) :
             /\ route_cache' = IF \E i \in DOMAIN route_cache : route_cache[i] = route
                                 THEN route_cache ELSE Append(route_cache, route)
             /\ Resolved(route)
    \/ /\ \/ find_path.kind = "Cached" /\ find_path.index >= Len(route_cache)
          \/ find_path.kind = "Plain" /\ Routes(find_path.path) = {}
          \/ find_path.kind = "NoPathSet"
       /\ block' = "closed"
       /\ UNCHANGED <<route_cache, request, open>>

resolve_route ==
    \/ /\ find_path.kind = "Cached"
       /\ find_path.index < Len(route_cache)
       /\ Resolved(route_cache[find_path.index + 1])
       /\ UNCHANGED route_cache
    \/ /\ find_path.kind = "Plain"
       /\ \E route \in Routes(find_path.path) :
             /\ route_cache' = Append(route_cache, route)
             /\ Resolved(route)
    \/ /\ \/ find_path.kind = "Cached" /\ find_path.index >= Len(route_cache)
          \/ find_path.kind = "Plain" /\ Routes(find_path.path) = {}
          \/ find_path.kind = "NoPathSet"
       /\ block' = "closed"
       /\ UNCHANGED <<route_cache, request, open>>

EndBlock ==
    /\ block = "decoding"
    /\ meant.path # None
    /\ resolve_route
    /\ UNCHANGED <<peer_table, meant, decoder, locals, requests>>

EndRefused ==
    /\ block = "refused"
    /\ meant.path # None
    /\ block' = "idle"
    /\ UNCHANGED <<peer_table, meant, decoder, locals, rest>>

\* END_STREAM or RST_STREAM of a request whose body was arriving.
CloseStream ==
    /\ block = "idle"
    /\ open > 0
    /\ open' = open - 1
    /\ UNCHANGED <<peer_table, block, meant, decoder, locals, route_cache,
                   request, requests>>

Next ==
    \/ BeginBlock
    \/ \E k \in 1 .. Len(peer_table) : SendIndexed(k)
    \/ \E field \in FieldType, k \in 0 .. Len(peer_table) :
         \/ SendWithIndexing(field, k)
         \/ \E huff \in BOOLEAN : SendWithoutIndexing(field, k, huff)
    \/ EndBlock
    \/ EndRefused
    \/ CloseStream

Spec == Init /\ [][Next]_vars

-----------------------------------------------------------------------------
(* Properties                                                              *)

\* A request goes to the method its :path names, however the path was
\* sent: the first service that knows it, with the same
\* discriminant, however many requests ago the route was cached.
RouteAsSent ==
    request # None => request.route \in Routes(request.meant.path)

\* A request is decompressed the way its grpc-encoding says.
EncodingAsSent ==
    (request # None /\ request.meant.encoding \in Known) =>
        request.encoding = request.meant.encoding

\* A client that keeps to HPACK only loses its connection by
\* calling a method that no service has: no index it sends is out of range in
\* the decoder, and none the decoder stores is out of range in the cache.
ClosedForUnknownOnly ==
    block = "closed" => meant.path # None /\ Routes(meant.path) = {}

\* "the caller level should update the index too": the decoder counts the
\* cache's entries and hands out their indices, the caller fills the cache, and
\* the two never part, however paths are spelt, indexed, repeated or refused.
\* Only the path that a block has just brought has an index without an entry.
CacheIndicesFit ==
    block # "closed" =>
        /\ next_cache_index = Len(route_cache)
             + (IF block = "decoding" /\ find_path.kind = "Plain" THEN 1 ELSE 0)
        /\ \A i \in DOMAIN dynamic_table :
             dynamic_table[i].path_cache # None
                => dynamic_table[i].path_cache < next_cache_index
        /\ \A p \in Paths :
             /\ plain_paths[p] # None => plain_paths[p] < next_cache_index
             /\ huffman_paths[p] # None => huffman_paths[p] < next_cache_index

\* What an entry must have kept of a field: where the route of a :path is, the
\* value of a grpc-encoding, and nothing of others, whose names it would take.
Remembers(entry, field) ==
    /\ field.name = ":path" =>
         /\ entry.path_cache # None
         /\ entry.path_cache < Len(route_cache)
         /\ route_cache[entry.path_cache + 1] \in Routes(field.value)
    /\ field.name # ":path" => entry.path_cache = None
    /\ entry.encoding = IF field.name = "grpc-encoding" THEN field.value ELSE None

\* "A literal header field with incremental indexing representation results
\* in appending a header field to the decoded header list and inserting it as
\* a new entry into the dynamic table": between blocks the decoder has an entry
\* for each the client inserted, in order, and each remembers its own field.
EveryLiteralInserted ==
    block = "idle" =>
        /\ Len(dynamic_table) = Len(peer_table)
        /\ \A i \in DOMAIN peer_table : Remembers(dynamic_table[i], peer_table[i])
=============================================================================
