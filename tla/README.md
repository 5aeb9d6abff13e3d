# pajamax in TLA+

pajamax is a gRPC server framework: it speaks just enough HTTP/2 and HPACK to
find the method of a request, hand the message to the application and write its
answer. This directory models its core in TLA+, checks the models with TLC on
small instances and proves some of the results with TLAPS for every value of
the constants. Paths below are relative to `src/pajamax/src/`.

## The system

| component | state | operations | what makes it correct |
|---|---|---|---|
| server threads (`config.rs`, `serve`, `balanced_loop` in `connection.rs`) | one runtime per thread, per worker a queue and a count of connections | build, bind, accept, take from the queue, refuse, spawn, count down, fail | the count is that of the live connections and the panicked ones, and within the limit; the queue of a worker that lives drains |
| `ConnectionBalancer` | senders of all workers, a counter, under a mutex | `register`, `dispatch` | round-robin |
| connection task (`handle_connection`, `process_frame`) | partial frame, `streams`, `continuation_buf`, `last_client_stream_id`, `data_len`, `stream_data_lens` | one read; per frame one arm of `process_frame`, or the DATA path of the read loop | a request is handed over whole and once; the stream table follows the client; the limit holds; credit is returned to the byte |
| HPACK decoder (`hpack_decoder.rs`) and route cache (`resolve_route`) | `dynamic_table`, `plain_paths`, `huffman_paths`, `next_cache_index`, `route_cache` | one header field; end of a block | a request goes to the method, and is decompressed by the encoding, that the client named |
| handler tasks (`PajamaxService::handle`, generated by `pajamax-build`) | the request | decode, run the method, `send_response` | answers exactly once or gives up |
| response channel and writer (`response_end.rs`) | unbounded queue of `RespJob`, output buffer, encoder | send, receive, write, fail, end | every job is written in order, the writer ends when all senders are gone |
| HPACK encoder (`hpack_encoder.rs`), frame layout (`http2.rs`) | ranks of two indexed headers | encode, build | the client decodes what was meant |
| dispatch mode (`dispatch.rs`, generated by `dispatch_mode.rs`) | per shard a request channel, the request in hand, the application's state | `dispatch`, `response` | a request is answered, also when its shard is gone, unless it does not decode or was with a shard that panicked; the shards together act as one dictionary |
| Huffman coding (`huffman/`) | a state number and a mark | encode, decode | the two tables agree on every input; a string ends where it may |

How they interact. A thread accepts connections and gives each, through the
balancer, to the queue of some worker. The worker spawns a connection task; that
task performs the handshake, spawns the writer task and reads. Each complete
frame changes the connection's local state, may push a job to the response
channel, and may spawn a handler that holds a clone of the channel's sender.
Header blocks go through the decoder, which shares the counting of cache
indices with `resolve_route`.

What is hard. All tasks of a connection run on one thread and interleave at
awaits only, but in any order: answers against requests, the end of the
connection task against running handlers, a failed writer against the reader.
Threads share the balancer. Inside a connection the difficulty is agreement over
a long run between two parties that keep different pictures of the same thing:
the stream table, the flow-control window, HPACK's dynamic table, and the route
cache. `PROJECT.json` lists the hazards with their lines.

## Modules

* `Connection.tla`: one connection. One action per arm of `process_frame`
  (`Data`, `Headers`, `HeadersRefused`, `Continuation`, `Settings`, `Ping`,
  `GoAway`, `Reset`, `IgnoreFrame`), `RejectFrame` for all its error returns,
  `FastData` for the read loop's own DATA path, `BeginRead`, `EndRead` and
  `ReadClosed` for the loop around them, `Handshake`, `HandlerReplies` and
  `HandlerFails` for the handler tasks, `WriteJob`, `WriteFails` and
  `WriterDone` for the writer. The variables carry the names of the code's
  locals. `rd` is where the connection task stands; while it is `"busy"` nothing
  else runs, as the code awaits nothing between two reads. `chan` keeps every
  job that was sent, `taken` how many are written. `heard` and `dropped` are
  history.
* `HeaderBlocks.tla`: the header blocks of one connection against a client that
  follows the rules of HPACK. One step is one header field. The client's table
  (`peer_table`) and what its fields mean (`meant`) are the reference; the
  decoder's table is what `hpack_decoder.rs` keeps. Whether a path is sent plain
  or Huffman coded matters, because the code caches the two forms apart; octets
  do not and are left out. `RefusedInserts` says whether the client may
  insert entries in a block whose stream is then refused (see Findings).
* `Service.tla`: what a connection owes its streams: each lives once, from idle
  over receiving and running to one end. `Connection` implements it (property
  `Lifecycle`); `LifeOf` reads the life of a stream off the connection's state.
* `FrameReader.tla`: the read loop below `Connection`: octets cut into reads at
  any place, `ParseState`, `header_buf`, `control_buf` and DATA that goes
  straight to its stream's body. `ParseHeader` and `ParsePayload` are the two
  arms of the loop over `read_buf`, `Read` and `EndRead` the loop around it.
  `Delivery.tla` is what it promises, frames that act whole and in order.
* `HpackBlock.tla`: a header block as octets, one round of the decoder's loop per
  step, against a client that encodes representations by the layouts of RFC 7541;
  `HpackInteger.tla`: integers and strings, written (`encode_int`, `encode_str`)
  and read (`decode_int`, `decode_string`). `HeaderBlocks` goes on where
  `HpackBlock` ends.
* `HuffmanTable.tla`: the two generated tables, entry by entry; `Huffman.tla`:
  `encode` and `decode` over them; `HuffmanDecoder.tla`: the decoder as a state
  machine over half octets, next to the code that the encoder's table defines, and
  what the theorems assume of the tables.
* `Dispatch.tla`: dispatch mode with the dictionary of
  `examples/src/dict_store.rs`: handler tasks, shard channels, shard tasks that may
  panic. A request that nobody will answer is noted in `abandoned`: one that did not
  decode, and what was in the hands or the channel of a shard that panicked. (That
  the channel is then empty is how the channel's library is taken to work; no
  property depends on it, as a shard that is gone receives nothing.)
  `Responses.tla`: the writer task's side of an answer: what a reply or a status
  becomes, frame by frame and field by field, the encoder's two ranks, and the
  client's table that decodes them. `Answers.tla` joins the two at the response
  channel, and `Store.tla` is the dictionary they implement.
* `Server.tla`: threads, balancer, queues and counts; a connection is an identity
  that is being sent, queued, live or gone. The balancer's mutex is a part of the
  model: `dispatch` is two steps, `Accept`, which moves the counter, and `Send`, and
  `sending` holds the dispatches between the two; `Unlocked` is what a thread waits
  for. `register` is a single push and one step. A thread inside `dispatch` runs
  nothing else (`Idle`), as there is no await in it. A thread may fail to build its
  runtime (`BuildFails`), to bind (`ListenFails`) or over one bad connection
  (`TakeFails`). It then drops its receiver and its connections (`Die`), but not what
  is queued: the balancer keeps the sender, and the channel its contents while one
  of the two ends lives.
* `MC*.tla`: instances for TLC. `ConnectionProofs.tla`, `FrameReaderProofs.tla`,
  `HuffmanProofs.tla`, `HpackBlockProofs.tla`, `HeaderBlocksProofs.tla`,
  `AnswersProofs.tla` and `ServerProofs.tla`: theorems. `SequenceLemmas.tla`: what
  several of them need to know of recursion and sequences.

The modules meet at narrow interfaces. `Connection` leaves the result of
`resolve_route` open (a header block may resolve or end the connection);
`HeaderBlocks` determines it and in turn only counts open streams, and takes
whole representations, which `HpackBlock` cuts out of octets. `Connection` takes
whole frames, and `FrameReader` shows that the reads make no difference: its
frames are ones that `process_frame` accepts, since refusals depend on nothing
the reader keeps. `Dispatch` begins with a request that arrived, and its answers
are jobs of the same channel as `Connection`'s. `Server` lets a connection end or
panic at any time. What is proved or checked for one module thus holds for any
behaviour of its neighbours.

### Refinements

* `Connection` implements `Service`. The life of a stream is a function of where
  its id occurs: above `last_client_stream_id` it is idle; with a response or a
  reset in the channel it is answered or refused; then dropped, running,
  receiving (in `streams` or in `continuation_buf`, while the task has not
  ended), and over otherwise. `closed` is the end of the connection task.
* `FrameReader` implements `Delivery`. Bodies are those of `streams`, without
  the pieces of a DATA frame that has not ended; requests are what handlers were
  spawned with; the octets used are those granted plus, within a read,
  `data_len`. Steps that complete a frame are steps of `Delivery`, all others
  stutter.
* `Answers` implements `Store`. The dictionary is the union of the shards'; a
  request takes effect when its shard responds, or is refused when `dispatch`
  fails, and is answered when the client reads the end of its stream. The result
  is then what the client read and decoded, so that the mapping also says that
  the wire changed nothing.

Operators named as mutants ("Mutant of X") are plausible bugs; each property is
known to fail when X is replaced by one of them, and none is used by a
specification.

## Runs

| run | question | bounds |
|---|---|---|
| `requests` | Do requests survive interleaving? `OneAnswer`, `StreamsBounded`, `TableFollowsPeer`, `CreditReturned`, `RequestIntact`, `Lifecycle`, `TypeOK` | three streams, limit two, any four of twelve frames, message prefix two bytes: enough for a refused stream with two open, a split header block next to an open stream, a body in two frames with another stream between, a reset with a handler running |
| `control` | Do answers arrive and writers end? `AnswerReachesWire`, `WriterFinishes` | limit one, any three of sixteen frames, among them every way to end a connection |
| `frame_reader` | Does it matter where reads cut the octets? `WholeFrames`, `EveryFrameActs`, `TypeOK` | a request and up to three more frames out of eight, reads of every length: every cut of heads, padding and payloads, up to reads that hold all frames; the longest conversations end a body, which is what earlier cuts could have spoilt |
| `header_blocks` | Do the decoder and the cache keep up with the client? `RouteAsSent`, `EncodingAsSent`, `ClosedForUnknownOnly`, `CacheIndicesFit`, `EveryLiteralInserted`, `TypeOK` | three blocks, three table entries, two services that share a path, one unknown path, limit one: enough to cache in one block, shift by an insertion in the next and use by index in the third |
| `codec` | Is a header block read as it was written? `TablesAgree`, `EndsAtPadding` (Huffman), `RoundsMatch`, `FieldsAsSent`, `ValidBlockRead`, and what their theorems assume, `Hypotheses` | the Huffman decoder in every state and on every input; every pair out of 49 representations, with indices and lengths on both sides of the edges of all prefixes and of the tables, up to four octets of the end missing |
| `answers` | Is a dispatch-mode service one dictionary to its clients? `Linearizable`, `ClientFollows`, `Headings`, `NoneForgotten` | three requests out of six operations on two keys in two shards, a client table of two entries: enough for an insertion of each indexed header, for its use after the other's, and for a request queued behind one whose shard panics |
| `server` | Are connections balanced, counted and taken up? `Counted`, `RoundRobin`, `QueueDrains`, `TypeOK` | two threads, three connections, one connection per worker: enough for two threads to accept at the same time, for both workers to be full, for a queue to hold a third, and for a worker to die with one queued |
| `zero_increment`, `continuation`, `header_blocks_refused`, `header_blocks_encoding`, `size_update` | violations: see Findings | those of the passing run of the same module, or smaller |

The bounds `MaxFrames`, `MaxEntries`, `MaxRequests`, `MaxLength` and `MaxCut` cap
inputs and nothing else; `HpackBlock!Earlier` stands for entries that earlier
blocks left in the table, so that large indices occur without long histories. Deadlock is not checked: a connection ends, a client may fall silent, a
server may lose all its threads.

Padded and unpadded, empty and non-empty DATA occur in `requests` because they
take different paths, and DATA on stream 0 because only one of the paths refuses it; the lengths are the smallest that tell them apart, and the
gRPC prefix is two instead of five so that one small frame can be too short and
two long enough.

### Fairness

`Connection!FairSpec`: a read that began is worked through (no await inside);
every ready task runs in the end, and a method of the application returns (`SF`
on the end of a handler, and on the writer's write, because each is disabled
again and again while the reader holds the thread); a write to the socket
completes or fails; the writer task notices that all senders are gone. Nothing
is assumed of the client: it need not send, nor close. Two of these are
assumptions about the surroundings rather than facts of the code: a method that
never returns, or a client that never reads, holds its tasks for ever, as
`idle_timeout` and `write_timeout` are configured but never used.

`FrameReader!Spec`: `WF` of the whole next-state relation. What was sent arrives,
and the loop runs; there is one task and nothing to be fair between.

`Answers` and the codec assume none: they have safety properties only. That a
request of dispatch mode is not lost is the invariant `NoneForgotten`: until its
answer is made it is in some place from which a task takes it on, or is abandoned;
a shard that is gone excuses only the requests it had, and later ones are refused.

`Server!FairSpec`: a thread that registered binds or fails and gets out of
`dispatch` (`WF`); it takes up its queue, however often its accept task is polled
first (`SF`, as each accept disables the step for a moment); and the main thread,
which joins the first thread first, notices when that is dead (`WF`). Neither
clients nor the end of connections are assumed.

## Findings

* A read with an empty DATA frame (a bare END_STREAM) and another DATA frame
  makes the writer send a WINDOW_UPDATE with increment zero, which is the very
  thing `process_frame` rejects (run `zero_increment`; `response_end.rs:69`).
* DATA handled by the read loop skips the CONTINUATION check (run
  `continuation`; `connection.rs:348`).
* The header block of a stream over the limit is not decoded, so the dynamic
  tables of client and server differ afterwards: requests are routed wrongly or
  the connection fails (run `header_blocks_refused`; `connection.rs:482`).
* An entry whose grpc-encoding is not supported loses its name (run
  `header_blocks_encoding`; `hpack_decoder.rs:358`).
* A dynamic table size update is read with a prefix of seven bits, two of which
  are the representation's own, so the value is never a full prefix and one octet
  is consumed; an update to 31 or more is longer, and its other octets are read
  as representations (run `size_update`; `hpack_decoder.rs:274`).

Other things the models show, for which there is no run of their own, because a
passing property already says so by what it excepts:

* The DATA path of the read loop also lets unpadded DATA on stream 0 pass, which
  `process_frame` refuses with "DATA/HEADERS must not be on stream 0"
  (`connection.rs:436`). Its bytes are then granted twice on stream 0, as the
  connection's and as the frame's. `CreditReturned` excepts the connection's window
  of such a client, and nothing else; without the exception TLC finds it violated
  after one read.
* Each accepted connection goes to the balancer (`connection.rs:168`), which gives it
  to the next worker, whoever accepted it, as `RoundRobin` says; `lib.rs:10-11` says
  that it is handled on the core that accepted it.
* A worker that ends with an error (`connection.rs:190`, or `:143` before its loop)
  drops its receiver, but the balancer keeps the sender: connections queued there are
  neither handled nor closed while the process runs. This is why `QueueDrains`
  excepts workers that are dead; without the exception TLC finds it violated. Later
  connections are dropped as they are sent, and closed. Only the death of the first
  thread ends the process.
* A connection that panics is never counted down (`connection.rs:202`): its worker
  refuses connections with fewer running than the limit, in the end all of them.
  `Counted` says exactly what is left of the count.

## Proofs

`ConnectionProofs.tla`, from the assumptions of `Connection` alone (any set of
frames, any limit, any number of frames):

* `TypeCorrect`: `Spec => []TypeOK`.
* `InvHolds`: the inductive invariant `TypeOK /\ Ownership /\ StreamsBounded`.
  `OneAnswer` is not inductive: that a new handler is the only one of its stream
  needs that the stream was in the table or in a header block, and that no
  stream there was answered or has a handler; that a new stream has none of
  these needs that no stream above `last_client_stream_id` has. `Ownership` says
  all of this: a stream id is in at most one of table, header block, handlers and
  answers, at most once, and never above the last id. `StreamsBounded` counts
  the pending header block, without which the CONTINUATION that completes it
  could pass the limit.
* `OneAnswerHolds`, `StreamsBoundedHolds`.
* `LifecycleHolds`: `Spec => Lifecycle`, the refinement of `Service`. The mapping
  reads lives off five places, and a step is understood by what it does to them:
  every step leaves all streams where they are (`Stays`), opens one (`Opens`),
  hands over or forgets one that was arriving (`Advances`) or ends one that runs
  (`Finishes`); lemma `StepEffect` shows it, one lemma per kind of step. From
  `Inv` it follows in which place the moved stream is afterwards. `Inv` does not
  know of dropped streams; `DroppedOnce` adds that they are nowhere else, which
  is inductive by `StepEffect` too.

The second part of `ConnectionProofs.tla`, from the same assumptions, relates the
state to all the frames heard so far:

* `HInvHolds`: until the connection ends, for every stream (`Follows`): if its
  header block has begun it is not above the last id (`Opened`), so that a block
  that ends is the first of its stream; a pending block has not ended, and knows
  whether a body follows (`Awaited`); what the table holds is half open and has
  the body sent so far (`Held`); and what is half open and not refused is in the
  table, as long as there is a writer to hear of the refusal (`Covered`). One
  frame adds to the history in known ways (`BlockGrown`, `HalfOpenGrown`,
  `BodyGrown`, `BodyAppended`), all to the stream it names, so the proof is one
  lemma per kind of frame about that stream and one, `Untouched`, about the rest.
* `TableFollowsPeerHolds`, which also needs `Ownership`: a refused stream is not
  in the table. `RequestIntactHolds`: a request leaves the table with the body
  `Held` says it has, and the last fragment.

* `CreditReturnedHolds`, by an invariant of its own, `Credits`: in a read, what was
  granted and what is due (`data_len`, `stream_data_lens`) make what the DATA heard
  so far used; between reads nothing is due. `EndRead` sends no job when `data_len`
  is zero, although frames without payload may have left entries in
  `stream_data_lens`; so the invariant also says that what is due to a stream is
  never more than `data_len`. The sums are recursive functions over the whole
  history: `TotalAppend` and `TotalCons` are what the steps need of them.

`FrameReaderProofs.tla`, for any conversations of frames with any payload and
stream id that a frame's header has room for (`ConversationsAssumption`: heads
and padding as HTTP/2 has them), and any cuts:

* `FInvHolds`: the inductive invariant. Between frames, the octets kept in
  `header_buf`, those left of the read and those on the wire are exactly those of
  the frames that have not acted (`InHeader`). In a frame, `cur` is its header, the
  part of the payload that was read is in `control_buf` or at the end of its
  stream's body, and the rest is what comes next (`InPayload`). `LeftOf` is the
  octets of the frames from the n-th on; that the header found there is the one
  its sender wrote is `ParseHead`.
* `TypeCorrect`, which needs `FInv`: that `cur_payload_read` stays within the
  announced length, and `acted` within the frames, is no matter of one step.
* `WholeFramesHolds`: `Spec => WholeFrames`, the refinement of `Delivery`. A step
  that ends a frame is the step of `Delivery` for the same frame (`FrameActs`),
  since the body with all pieces is the body before it and the payload
  (`BodyBefore`); every other step moves octets without effect (`Unseen`).

`HuffmanProofs.tla`, for texts and bit strings of any length, from `TablesFit` (at
the end of `HuffmanDecoder`):

* `TablesFit` is a fact about the two tables, without variables and without a bound
  on anything: no code begins another and none is shorter than five bits; the code of
  the end of a string is thirty ones, that of the character 0 five zeros
  (`CodeFits`); and the states that the decoder reaches, each with the bits it stands
  for, are closed under the sixteen inputs and do what the code says (`Agree`). The
  tables are definitions, so TLC decides it once and for all, as a part of
  `Hypotheses` in the run `codec`, which also finds the decoder in none but those
  states; the provers cannot compute through 4096 entries.
  The theorems take it from there to every text.
* `DecodesAsEncoded`: `decode(encode(src)) = [ok |-> TRUE, buf |-> src]` for every
  sequence of octets. A text is followed through the decoder by `Stands`: so many
  symbols are read, so much of the next one's code has begun, the decoder's state
  stands for that much, and the bits that are left complete the text. Four bits that
  do not end that code end none, and otherwise end it at the one place (`NoneEnds`,
  `OneEnds`, by `SymbolOfCode`: no code begins another); then `NibbleRead`,
  `OctetRead` and, by induction over a set of numbers, `AllRead`. The padding is the
  beginning of one more symbol, the end of string, so that it needs no case of its
  own until `AtEnd`, where it is what has begun.
* `DecodesZeros`: what a text padded with zeros decodes to, by the same lemmas: the
  zeros are the beginning of the character 0. Six or seven are that character and one
  or two bits too many, one to four are refused; five are the character itself, and
  the text is one character longer. (`HpackBlock!Readable` and `MeantValue` say so.)
* `TablesAgreeHolds`, `EndsAtPaddingHolds`: the same of the state machine, whose
  strings are any bits at all and may have the end-of-string symbol inside. The
  inductive invariant, `TablesInv`, adds that the decoder's state and the bits begun
  are a pair of `Reached`.

`HpackBlockProofs.tla`, for any set of representations, any length of a block
and any cut of its end:

* `IntegerAsSent`: `decode_int` after `encode_int`, for every prefix and whatever
  follows. A value takes at most five octets if and only if it is below
  `Limit(p) = 2^28 + 2^p - 1` (`LimitByLength`); those are read as they were written
  and all others are refused. The octets after the prefix are a recursive function
  of the value: that the recursion is well founded (`VarintExists`), and how many
  octets it gives (`VarintShape`, `VarintLength`), is shown by induction over a set
  of numbers.
* `StringAsSent`: the same of `decode_string`, plain or Huffman coded.
* `RoundsMatchHolds`: `SmallSizes => (BlockSpec => []RoundsMatch)`. The argument is
  that at the beginning of a representation the first octet tells its kind
  (`RepresentationShape`), so the round is the client's (`KindIs`), and each round
  takes the octets of its representation or fails (`IntegerRead`, `LiteralRead`,
  `SizeRead`), also when the block ends inside it: `ReadCut` is the case of an
  integer. What has not arrived is carried along as a part of the block that
  follows (`SameWhole`). `SmallSizes` says that table size updates are below 31; the
  run `size_update` shows it to be necessary. `BlockSpec` is the block's own
  specification, which `MCCodec` runs beside that of the Huffman decoder.
* `FieldsAsSentHolds`: each round has read the kind, index, name and text the client
  meant. The inductive invariant `FInv` is that of `RoundsMatch`, the property, and
  `TableMeant`: the j-th entry of this block's table is the name meant by the
  representation that made it, as far as the decoder can use it (`Kept`: an entry
  with an encoding that is not known has lost its name, which is the question of
  the run `header_blocks_encoding`). So an index that names an entry gives the name
  that `NamesMeant` follows back from there; that this recursion ends is
  `NamesExist`. A name in coded form is told from all others by its octets, and the
  three names differ in length before and after coding: their lengths in bits are
  computed from `ENCODE_TABLE` (`Letters`, `PATHBits`, `GRPC_ENCODINGBits`,
  `TEBits`).
* `ValidBlockReadHolds`: in a valid block every error of a round is excluded
  (`ValidFits`), so a block that arrives whole is read to its end.
* What the last two assume: `TablesFit`, from which `TextsRead` has that every coded
  text decodes to what was meant by it, and not at all if zeros are left over; and at
  the end of `HpackBlock`, `SmallSizes`, `EmptyUnknown`, that no known encoding is
  the empty string (a value that does not decode is kept as empty), and for the
  second `Roomy`, that strings and the table stay below 2^28. `Hypotheses` has all
  four, for the constants of the run `codec`.

`HeaderBlocksProofs.tla`, for any paths, encodings, services and limits, under
the assumption `RefusedInserts = FALSE` that the run `header_blocks_refused`
shows to be necessary:

* `InvHolds`: the decoder's table has an entry for each of the client's, each
  entry of a path points into the route cache at a route of that path (or is the
  entry the current block will push), so do the remembered paths, and
  `next_cache_index` is the length of the cache, plus one between the decoding
  of a new path and the push of its route.
* `RouteAsSentHolds`, `ClosedForUnknownOnlyHolds`.
* `CacheIndicesFitHolds`: every cache index stored in the decoder's table or with
  the remembered paths is below `next_cache_index`, which is the length of the cache
  or, while the cache awaits the route of a new path, one more.
* `EncodingAsSentHolds`, for a client that sends only encodings the server knows
  (`Known = Encodings`), which the run `header_blocks_encoding` shows to be
  necessary. The decoder takes a name in its table for `grpc-encoding` by the
  encoding it remembers there, so the invariant (`EncodingInv`) is that each entry
  has the encoding of the client's `grpc-encoding` entry and no other entry any;
  then every name is read as it is meant (`NameReadAsMeant`).
* `EveryLiteralInsertedHolds`, from both: between blocks the two tables are equally
  long, and each entry of the decoder's remembers the client's at the same place:
  of a path where in the cache its route is, of a `grpc-encoding` its value, and of
  any other field neither.

`ServerProofs.tla`, for any number of threads and connections and any limit,
from `ServerAssumption`:

* `Invariant`: `IInv`, the properties below and what they need to be inductive.
  `Registered`: a thread is among the balancer's workers, once, from the moment it
  has registered, so that whoever accepts has somebody to dispatch to.
  `TasksServed`: only a thread that serves has live connections, so that no end of a
  connection disturbs the count of another. `Apart`: a connection in a queue or
  being sent is not also live, so that taking it up counts a new one. `Exclusive`:
  at most one thread is inside `dispatch`, which is the mutex. `Rotation`: the
  counter is the number of dispatches, and the i-th went, or is going, where it
  pointed (`Aimed`), among a prefix of today's workers.
* `TypeCorrect`: no count goes below zero, which needs `Counted`.
* `CountedHolds`.
* `RoundRobinHolds`: two counters less than n apart differ modulo n (`Moduli`), and
  the workers at different positions are different (`Registered`). That the sends
  are in the order of the counters needs `Exclusive`.

`AnswersProofs.tla`, for any keys, values, hash function, number of shards and
operations, and any client table of two entries or more (`ShardsAssumption`,
`OperationsAssumption`, `TableAssumption`; `NoneAssumption` only says that `None` is
none of the values it is told apart from):

* The encoder and the client's table are in one of three pairs of states
  (`Follows`): nothing indexed, the content type, or the content type and status
  zero in front of it. A block takes such a pair to such a pair, and what the
  client reads in it does not depend on which (`HeadingFacts`, `BuiltSays`). Every
  response begins with its content type, so status zero is never the first entry:
  three pairs and not four.
* `AInv`, the inductive invariant: a request without a response is with its
  handler, in its shard's queue or in its hands, once (`Places`); a shard has only
  keys that hash to it (`OwnKeys`), so that the union of the shards is a function;
  the jobs are the responses, one each (`Jobs`); a stream that has ended has been
  read with all of its response (`ReadOf`); and while the writer runs, the table
  matches and nothing is read of the jobs that are left (`Writes`).
* `ClientFollowsHolds`, `HeadingsHold`.
* `LinearizableHolds`: `Spec => Linearizable`, the refinement of `Store`, one lemma
  per action: `Respond` is where a request takes effect, `WriteJob` where its result
  is known, and both need `AInv`.
* `NoneForgottenHolds`: what `AInv` does not say is that a request is somewhere at
  all. `KeptStep` shows that it is handed from place to place, also from a handler
  whose shard is gone to the refusal it sends.

`SequenceLemmas.tla` has what these proofs need of data. Induction is stated about
a set of numbers (`SetInduction`) and recursion about a function of steps
(`NatRecursion`), because the provers here cannot instantiate a predicate. The
rest is about sequences: what `FlattenSeq` gives, from either end
(`FlattenProperties`, `FlattenTails`, `Meeting`), and how sequences are cut
(`Parts`, `SameCut`, `Piece`).

Only model-checked: liveness (`AnswerReachesWire`, `WriterFinishes`,
`EveryFrameActs`, `QueueDrains`), which needs fairness and ENABLED; and `TablesFit`,
a finite fact about two given tables of 257 and 4096 entries, in which there is no
constant to generalise over: TLC evaluates it completely, as a part of
`Hypotheses`, whose other parts are facts about the constants of one run. All other
properties of the passing runs are theorems or, for `TypeOK` of `HeaderBlocks`, a
part of an invariant that is one.

## Not modelled, and why

* The octets of frames written (`build_head`, `build_response_headers` and the
  like): fixed layouts without state. A length of 16 MiB or more is cut to 24 bits
  there; `Responses` has no lengths.
* `prost` messages and decompression: libraries. `Decodable` is a free choice above
  the minimal length.
* Client settings and send windows: the code reads and ignores them.
* `accept_loop`: nothing in the crate calls it; it is `balanced_loop` without the
  balancer.
* `pajamax-build`: text generation at build time. What it generates is the
  handler of `Connection` and the request enum, handler and shard task of
  `Dispatch`. (Local mode routes by `proto_name`, dispatch mode by `name`, which
  differ for services not named in CamelCase.)
* In `FrameReader` a HEADERS frame always opens its stream for a body, and a body is
  complete by its length: END_STREAM and END_HEADERS on HEADERS are `Connection`'s
  matter, where a message may also fail to be decompressed, by choice.
* `main` of the dictionary example accepts connections and drops them; `Answers`
  joins its service to a connection of the crate instead.
* The runtime: `compio` catching the panic of a spawned task, and dropping the
  tasks of a thread that ends, is taken from how the code uses it.

## Plan

1. (done) `Connection`, `HeaderBlocks`, `Server` with their runs; type
   correctness, `OneAnswer`, `StreamsBounded` and the routing theorems.
2. (done) `FrameReader` and `Delivery`; `Service`, with the refinement checked and
   proved; the codec; `Dispatch`, `Responses`, `Answers` and `Store`.
3. Proofs: (done) `Server`, `EncodingAsSent` for `HeaderBlocks`,
   `TableFollowsPeer`, `RequestIntact` and `CreditReturned` for `Connection`, the
   refinements of `Delivery` and `Store`, the invariants of `Answers`, all of
   `HpackBlock`, and Huffman coding for every text, from `TablesFit`. Nothing of the
   plan is left; what stays with TLC is listed at the end of Proofs.
