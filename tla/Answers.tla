------------------------------- MODULE Answers -------------------------------
(***************************************************************************)
(* A dispatch-mode service from the arrival of requests to what the client *)
(* reads: Dispatch and Responses, joined at the response channel, shown to *)
(* implement Store.                                                        *)
(***************************************************************************)
EXTENDS Dispatch

CONSTANT ClientTable   \* see Responses

\* The encoder takes for granted that its two entries are never evicted.
ASSUME TableAssumption == ClientTable \in Nat /\ ClientTable >= 2

VARIABLES taken, encoder, table, answers, confused

Wire == INSTANCE Responses

response_vars == <<taken, writer, encoder, table, answers, confused>>
vars == <<dispatch_vars, response_vars>>

Init == DispatchInit /\ Wire!ResponseInit(Requests)

Serve == DispatchNext /\ UNCHANGED response_vars
Write == Wire!ResponseNext /\ UNCHANGED dispatch_vars

Next == Serve \/ Write

Spec == Init /\ [][Next]_vars

-----------------------------------------------------------------------------
(* Properties                                                              *)

\* A reply is ok when its trailers say status zero.
AnswerRead(r) ==
    [ok   |-> Wire!Header(answers[r], "grpc-status") = 0,
     code |-> Wire!Header(answers[r], "grpc-status"),
     body |-> IF answers[r].body = <<>> THEN None ELSE Last(answers[r].body)]

\* The refinement mapping.  A request has been answered when the client has
\* read the end of its stream, and its result is then what the client read.
StoreOf(key) ==
    LET d == dict[hash_key[key] % NumShards]
    IN  IF key \in DOMAIN d THEN d[key] ELSE None

StatusOf(r) ==
    CASE answers[r].ended -> "answered"
      [] ~answers[r].ended /\ results[r] # None -> "applied"
      [] results[r] = None /\ requests[r] # None -> "invoked"
      [] requests[r] = None -> "new"

Promise == INSTANCE Store WITH
    Parts  <- Shards,
    Part   <- [key \in Keys |-> hash_key[key] % NumShards],
    PartOf <- [o \in Operations |-> dispatch_to(o)],
    store  <- [key \in Keys |-> StoreOf(key)],
    status <- [r \in Requests |-> StatusOf(r)],
    asked  <- requests,
    result <- [r \in Requests |->
                 IF answers[r].ended THEN AnswerRead(r) ELSE results[r]],
    down   <- Shards \ alive

\* A client that reads an answer reads the result of its request on one
\* dictionary, as if requests were executed one at a time: whatever handler
\* tasks, shards and the writer interleave, whichever headers earlier answers
\* have put into the tables, and with shards that panic; and a request is only
\* refused when its shard is gone, and then has had no effect.
Linearizable == Promise!Spec

\* The client never meets an index outside its table, nor a frame on a stream
\* that has ended.
ClientFollows == ~confused

\* What an answer says does not depend on the ones before it: its headers
\* decode to the status line, the content type and one grpc-status.
Headings ==
    \A r \in Requests :
        answers[r].ended =>
            /\ Wire!Header(answers[r], ":status") = 200
            /\ Wire!Header(answers[r], "content-type") = "application/grpc"
            /\ \E i \in DOMAIN answers[r].fields :
                   \A j \in DOMAIN answers[r].fields :
                       answers[r].fields[j].name = "grpc-status" <=> j = i
            /\ Len(answers[r].body) = IF AnswerRead(r).ok THEN 1 ELSE 0

\* Every request that has arrived is with its handler task, in its shard's
\* channel or in its shard's hands, until its answer is made.  It goes without
\* one only if its message does not decode or its shard panics while it has
\* it; one that comes for a shard that is gone is answered too, UNAVAILABLE.
NoneForgotten ==
    \A r \in Requests : requests[r] # None =>
        LET s == dispatch_to(requests[r])
        IN  \/ r \in handlers \cup abandoned
            \/ r \in ToSet(queue[s]) \cup running[s]
            \/ results[r] # None
=============================================================================
