------------------------------ MODULE Dispatch ------------------------------
(***************************************************************************)
(* Dispatch mode: the handler that pajamax-build generates decodes a       *)
(* request and sends it to the channel of a shard (dispatch.rs); the shard *)
(* task takes one after the other, runs the method and sends the answer to *)
(* the connection's response channel.  The service is the dictionary of    *)
(* examples/src/dict_store.rs.                                             *)
(*                                                                         *)
(* A request is known by its stream.  All tasks run on one thread and      *)
(* interleave at awaits.  A shard task that panics is gone, with its       *)
(* dictionary, the request in hand and its queue; senders then fail.       *)
(***************************************************************************)
EXTENDS Integers, SequencesExt

CONSTANTS
    Requests,     \* the streams requests come on
    Keys,
    Values,
    None,         \* Rust's None
    NumShards,    \* shard tasks
    hash_key,     \* key -> its hash
    Operations    \* what requests ask for

ASSUME ShardsAssumption ==
    /\ NumShards \in Nat \ {0}
    /\ hash_key \in [Keys -> Nat]
    /\ None \notin Values

Shards == 0 .. NumShards - 1

\* The request enum of the generated code.
RequestType ==
    [op : {"get", "delete"}, key : Keys]
    \cup [op : {"set"}, key : Keys, value : Values]
    \cup [op : {"list"}, shard : Nat]

ASSUME OperationsAssumption == Operations \subseteq RequestType

\* Response: Ok of a reply or Err of a status.
ResponseType ==
    [ok : BOOLEAN, code : Nat,
     body : Values \cup {None} \cup SUBSET (Keys \X Values)]

\* None is told apart from what an Option may hold.
ASSUME NoneAssumption == None \notin Nat \cup RequestType \cup ResponseType

VARIABLES
    requests,   \* stream -> the request that arrived on it
    handlers,   \* streams with a running handler task
    queue,      \* shard -> its request channel
    running,    \* shard -> the request it is handling, if any
    dict,       \* shard -> its dictionary, key -> value
    alive,      \* shards whose task runs
    chan,       \* every job sent to the response channel, in order
    writer,     \* whether the writer task takes jobs
    results,    \* history: stream -> the response made for it
    abandoned   \* history: streams nobody will answer: the message did not
                \* decode, or was with a shard when that panicked

dispatch_vars ==
    <<requests, handlers, queue, running, dict, alive, chan, results,
      abandoned>>

NOT_FOUND   == 5
UNAVAILABLE == 14

Reply(body)  == [ok |-> TRUE, code |-> 0, body |-> body]
Status(code) == [ok |-> FALSE, code |-> code, body |-> None]

DispatchInit ==
    /\ requests = [r \in Requests |-> None]
    /\ handlers = {}
    /\ queue = [s \in Shards |-> <<>>]
    /\ running = [s \in Shards |-> {}]
    /\ dict = [s \in Shards |-> [k \in {} |-> None]]
    /\ alive = Shards
    /\ chan = <<>>
    /\ results = [r \in Requests |-> None]
    /\ abandoned = {}

\* send_response_box: the response is lost if the writer has gone.
send_response_box(r, response) ==
    /\ chan' = IF writer = "running"
                 THEN Append(chan, [sid |-> r, response |-> response]) ELSE chan
    /\ results' = [results EXCEPT ![r] = response]

-----------------------------------------------------------------------------
(* The handler task                                                        *)

\* Mutant of dispatch_to: deletions go to the shard they name by key order.
dispatch_toSplit(request) ==
    CASE request.op \in {"get", "set"} -> hash_key[request.key] % NumShards
      [] request.op = "delete" -> (hash_key[request.key] + 1) % NumShards
      [] request.op = "list" -> request.shard % NumShards

dispatch_to(request) ==
    CASE request.op \in {"get", "set", "delete"} ->
             hash_key[request.key] % NumShards
      [] request.op = "list" -> request.shard % NumShards

\* The connection task hands a complete request to a new handler task.
\* Streams are numbered in the order in which that happens.
Arrive(r, request) ==
    /\ requests[r] = None
    /\ \A q \in Requests : q < r => requests[q] # None
    /\ requests' = [requests EXCEPT ![r] = request]
    /\ handlers' = handlers \cup {r}
    /\ UNCHANGED <<queue, running, dict, alive, chan, results, abandoned>>

\* Mutant of Dispatch: a send that fails is logged, and not answered.
DispatchSilent(r) ==
    LET s == dispatch_to(requests[r]) IN
    /\ r \in handlers
    /\ handlers' = handlers \ {r}
    /\ queue' = IF s \in alive THEN [queue EXCEPT ![s] = Append(@, r)] ELSE queue
    /\ UNCHANGED <<requests, running, dict, alive, chan, results, abandoned>>

\* handle: nothing is awaited between the decoding and the send.
Dispatch(r) ==
    LET s == dispatch_to(requests[r]) IN
    /\ r \in handlers
    /\ handlers' = handlers \ {r}
    /\ IF s \in alive
         THEN /\ queue' = [queue EXCEPT ![s] = Append(@, r)]
              /\ UNCHANGED <<chan, results>>
         ELSE /\ send_response_box(r, Status(UNAVAILABLE))
              /\ UNCHANGED queue
    /\ UNCHANGED <<requests, running, dict, alive, abandoned>>

\* The message does not decode: the handler returns, nobody answers.
HandlerFails(r) ==
    /\ r \in handlers
    /\ handlers' = handlers \ {r}
    /\ abandoned' = abandoned \cup {r}
    /\ UNCHANGED <<requests, queue, running, dict, alive, chan, results>>

-----------------------------------------------------------------------------
(* The shard task                                                          *)

Lookup(d, key) ==
    IF key \in DOMAIN d THEN Reply(d[key]) ELSE Status(NOT_FOUND)

set(d, entry) ==
    [reply |-> Reply(IF entry.key \in DOMAIN d THEN d[entry.key] ELSE None),
     dict  |-> [k \in DOMAIN d \cup {entry.key} |->
                  IF k = entry.key THEN entry.value ELSE d[k]]]

get(d, request) == [reply |-> Lookup(d, request.key), dict |-> d]

delete(d, request) ==
    [reply |-> Lookup(d, request.key),
     dict  |-> [k \in DOMAIN d \ {request.key} |-> d[k]]]

list_shard(d) == [reply |-> Reply({<<k, d[k]>> : k \in DOMAIN d}), dict |-> d]

handle_request(d, request) ==
    CASE request.op = "get" -> get(d, request)
      [] request.op = "set" -> set(d, request)
      [] request.op = "delete" -> delete(d, request)
      [] request.op = "list" -> list_shard(d)

\* shard_routine: req_rx.recv().
Receive(s) ==
    /\ s \in alive
    /\ running[s] = {}
    /\ queue[s] # <<>>
    /\ queue' = [queue EXCEPT ![s] = Tail(@)]
    /\ running' = [running EXCEPT ![s] = {Head(queue[s])}]
    /\ UNCHANGED <<requests, handlers, dict, alive, chan, results, abandoned>>

\* The method returns, and its response is sent.
Respond(s) ==
    \E r \in running[s] :
        LET done == handle_request(dict[s], requests[r])
        IN  /\ dict' = [dict EXCEPT ![s] = done.dict]
            /\ running' = [running EXCEPT ![s] = {}]
            /\ send_response_box(r, done.reply)
            /\ UNCHANGED <<requests, handlers, queue, alive, abandoned>>

\* The method panics, and the task ends.  Nobody reads its dictionary again,
\* and nobody answers what it was handling or had yet to receive.
ShardPanics(s) ==
    /\ running[s] # {}
    /\ alive' = alive \ {s}
    /\ running' = [running EXCEPT ![s] = {}]
    /\ queue' = [queue EXCEPT ![s] = <<>>]
    /\ abandoned' = abandoned \cup running[s] \cup ToSet(queue[s])
    /\ UNCHANGED <<requests, handlers, dict, chan, results>>

DispatchNext ==
    \/ \E r \in Requests :
         \/ \E request \in Operations : Arrive(r, request)
         \/ Dispatch(r)
         \/ HandlerFails(r)
    \/ \E s \in Shards : Receive(s) \/ Respond(s) \/ ShardPanics(s)
=============================================================================
