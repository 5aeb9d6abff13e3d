----------------------------- MODULE Connection -----------------------------
(***************************************************************************)
(* One HTTP/2 connection of pajamax: the connection task                   *)
(* (handle_connection and process_frame in connection.rs), the handler     *)
(* tasks it spawns, the unbounded response channel and the writer task     *)
(* (response_end.rs).                                                      *)
(*                                                                         *)
(* Granularity.  The frame is the unit of input: how the bytes of frames   *)
(* are cut into reads is not modelled here, only how many whole frames one *)
(* read completes.  All tasks of a connection run on one thread and only   *)
(* interleave at awaits.  The connection task awaits nothing between two   *)
(* reads, so while it works through the frames of one read (rd = "busy")   *)
(* neither a handler nor the writer takes a step.                          *)
(*                                                                         *)
(* Data.  A request body is the sequence of its fragments <<k, n>>: n      *)
(* bytes that the k-th frame contributed.  A header block is only its      *)
(* stream; whether its route resolves is a free choice here.               *)
(***************************************************************************)
EXTENDS Integers, SequencesExt

CONSTANTS
    Frames,      \* the frames the peer may send
    MaxStreams,  \* config.max_concurrent_streams
    GrpcPrefix,  \* length of the gRPC message prefix (5 in the code)
    MaxFrames    \* bound: frames received on the connection

Kinds == {"Data", "Headers", "Reset", "Settings", "Ping", "GoAway",
          "WindowUpdate", "Continuation", "Other"}

END_STREAM  == 1    \* also ACK
END_HEADERS == 4
PADDED      == 8
PRIORITY    == 32

\* A frame as read off the wire: pad is the first payload byte of a padded
\* frame and inc the increment a WINDOW_UPDATE carries.
FrameType == [kind : Kinds, sid : Nat, len : Nat, pad : Nat, inc : Nat,
              flags : SUBSET {END_STREAM, END_HEADERS, PADDED, PRIORITY}]

ASSUME FramesAssumption == Frames \subseteq FrameType
ASSUME BoundsAssumption == /\ MaxStreams \in Nat
                           /\ GrpcPrefix \in Nat
                           /\ MaxFrames \in Nat

StreamIds == {f.sid : f \in Frames}

VARIABLES
    rd,                     \* where the connection task is
    streams,                \* requests whose body is still arriving
    continuation_buf,       \* Option: a header block that has not ended
    last_client_stream_id,
    data_len,               \* DATA bytes completed in the current read
    stream_data_lens,       \* ... and per frame, as <<stream, length>>
    handlers,               \* running handler tasks
    dropped,                \* history: streams whose handler sent no response
    chan,                   \* every job sent to the response channel, in order
    taken,                  \* how many of them the writer has written
    writer,                 \* where the writer task is
    heard                   \* history: the frames received so far

vars == <<rd, streams, continuation_buf, last_client_stream_id, data_len,
          stream_data_lens, handlers, dropped, chan, taken, writer, heard>>
table  == <<streams, continuation_buf, last_client_stream_id>>
window == <<data_len, stream_data_lens>>
tasks  == <<handlers, dropped>>
output == <<chan, taken, writer>>

Ended == {"returned", "panic"}
Fragments == Seq(Nat \X Nat)

\* A unit of work for the writer: RespJob.  Reply and Status are one kind, the
\* three uses the code makes of RespJob::Write are told apart.
JobKinds == {"Response", "Reset", "SettingsAck", "PingAck",
             "WindowUpdate"}
JobType == [kind : JobKinds, sid : Nat, len : Nat, lens : Seq(Nat \X Nat)]
Job(kind, sid) == [kind |-> kind, sid |-> sid, len |-> 0, lens |-> <<>>]
Credit(len, lens) ==
    [kind |-> "WindowUpdate", sid |-> 0, len |-> len, lens |-> lens]

TypeOK ==
    /\ rd \in {"handshake", "await", "busy"} \cup Ended
    /\ streams \in Seq([id : Nat, data : Fragments])
    /\ continuation_buf \in SUBSET [sid : Nat, end_stream : BOOLEAN]
    /\ last_client_stream_id \in Nat
    /\ data_len \in Nat
    /\ stream_data_lens \in Seq(Nat \X Nat)
    /\ handlers \in SUBSET [id : Nat, data : Fragments]
    /\ dropped \in SUBSET Nat
    /\ chan \in Seq(JobType)
    /\ taken \in 0 .. Len(chan)
    /\ writer \in {"none", "running", "failed", "done"}
    /\ heard \in Seq(Frames)

Init ==
    /\ rd = "handshake"
    /\ streams = <<>>
    /\ continuation_buf = {}
    /\ last_client_stream_id = 0
    /\ data_len = 0
    /\ stream_data_lens = <<>>
    /\ handlers = {}
    /\ dropped = {}
    /\ chan = <<>>
    /\ taken = 0
    /\ writer = "none"
    /\ heard = <<>>

-----------------------------------------------------------------------------
(* Frame accessors (http2.rs)                                              *)

is_end_stream(f)  == END_STREAM \in f.flags
is_ack(f)         == END_STREAM \in f.flags
is_end_headers(f) == END_HEADERS \in f.flags
is_padded(f)      == PADDED \in f.flags
is_priority(f)    == PRIORITY \in f.flags

\* Mutants of Stripped: only the length byte is stripped; the padding of an
\* unpadded frame is stripped too.
StrippedKeepsPadding(f) == IF is_padded(f) THEN f.len - 1 ELSE f.len
StrippedAlways(f)       == f.len - 1 - f.pad

\* strip_data_padding: whether the padding is accepted, and what is left.
PaddingOk(f) == is_padded(f) => f.len > 1 + f.pad
Stripped(f)  == IF is_padded(f) THEN f.len - 1 - f.pad ELSE f.len

\* strip_headers: the priority block needs five more bytes.
HeadersOk(f) == PaddingOk(f) /\ (is_priority(f) => Stripped(f) >= 5)

-----------------------------------------------------------------------------
(* Helpers of the connection task                                          *)

\* resp_tx.send: the job is lost once the writer has dropped the receiver,
\* and every sender ignores that.
Send(job) ==
    chan' = IF writer = "running" THEN Append(chan, job) ELSE chan

\* streams.iter().position(..): the first entry of the stream, if any.
Position(sid) ==
    {i \in DOMAIN streams :
        streams[i].id = sid /\ \A j \in 1 .. i-1 : streams[j].id # sid}

\* compio::runtime::spawn of the service's handle().
Spawn(sid, data) ==
    handlers' = handlers \cup {[id |-> sid, data |-> data]}

\* Number of bytes of a body.
Bytes(data) == FoldLeft(LAMBDA n, fragment : n + fragment[2], 0, data)

\* decode_grpc_message: a body shorter than the prefix is always an error; a
\* longer one may be (compressed without grpc-encoding, bad compression).
Decodable(data) == Bytes(data) >= GrpcPrefix

\* Mutants: a stream id may be used again; the limit is off by one.
NewStreamIdReused(sid) == sid % 2 = 1 /\ sid >= last_client_stream_id
AtLimitLate == Len(streams) > MaxStreams

\* The guard of a new stream and its count against the limit.
NewStreamId(sid) == sid % 2 = 1 /\ sid > last_client_stream_id
AtLimit == Len(streams) >= MaxStreams

\* The next frame of the current read.
Receive(f) ==
    /\ rd = "busy"
    /\ Len(heard) < MaxFrames
    /\ heard' = Append(heard, f)

-----------------------------------------------------------------------------
(* The connection task between frames                                      *)

\* handshake, then the writer task is spawned; on a failed handshake the
\* task returns before there is a writer.
Handshake ==
    /\ rd = "handshake"
    /\ \/ rd' = "await" /\ writer' = "running"
       \/ rd' = "returned" /\ UNCHANGED writer
    /\ UNCHANGED <<table, window, tasks, chan, taken, heard>>

\* Mutant of BeginRead: the accounting of the previous read is kept.
BeginReadKeepsLengths ==
    /\ rd = "await"
    /\ rd' = "busy"
    /\ UNCHANGED <<window, table, tasks, output, heard>>

BeginRead ==
    /\ rd = "await"
    /\ rd' = "busy"
    /\ data_len' = 0
    /\ stream_data_lens' = <<>>
    /\ UNCHANGED <<table, tasks, output, heard>>

\* End of file, or a failed read.
ReadClosed ==
    /\ rd = "await"
    /\ rd' = "returned"
    /\ UNCHANGED <<table, window, tasks, output, heard>>

\* All frames of the read are processed: return the window they used.
EndRead ==
    /\ rd = "busy"
    /\ rd' = "await"
    /\ IF data_len > 0
         THEN /\ Send(Credit(data_len, stream_data_lens))
              /\ stream_data_lens' = <<>>
         ELSE UNCHANGED <<chan, stream_data_lens>>
    /\ UNCHANGED <<data_len, table, tasks, taken, writer, heard>>

-----------------------------------------------------------------------------
(* DATA frames                                                             *)

\* What both DATA paths do with the n body bytes of frame f: account for the
\* whole payload, then append, and on END_STREAM hand the request over.
ReceiveData(f, n) ==
    /\ data_len' = data_len + f.len
    /\ stream_data_lens' = Append(stream_data_lens, <<f.sid, f.len>>)
    /\ \/ /\ Position(f.sid) = {}
          /\ UNCHANGED <<rd, streams, handlers>>
       \/ \E i \in Position(f.sid) :
            LET data == Append(streams[i].data, <<Len(heard) + 1, n>>)
            IN  \/ /\ ~is_end_stream(f)
                   /\ streams' = [streams EXCEPT ![i].data = data]
                   /\ UNCHANGED <<rd, handlers>>
                \/ /\ is_end_stream(f)
                   /\ streams' = RemoveAt(streams, i)
                   /\ \/ /\ Decodable(data)
                         /\ Spawn(f.sid, data)
                         /\ UNCHANGED rd
                      \/ /\ rd' = "returned"
                         /\ UNCHANGED handlers
    /\ UNCHANGED <<continuation_buf, last_client_stream_id, dropped, output>>

\* Non-empty unpadded DATA is handled where its payload is read and never
\* reaches process_frame.
FastPath(f) == f.kind = "Data" /\ ~is_padded(f) /\ f.len > 0

FastData(f) ==
    /\ Receive(f)
    /\ FastPath(f)
    /\ ReceiveData(f, f.len)

-----------------------------------------------------------------------------
(* process_frame                                                           *)

\* When expecting CONTINUATION, only that of the same stream passes.
ContinuationGate(f) ==
    \A c \in continuation_buf : f.kind = "Continuation" /\ f.sid = c.sid

StreamZeroRule(f) ==
    /\ f.kind \in {"Data", "Headers"} => f.sid # 0
    /\ f.kind \in {"Settings", "Ping", "GoAway"} => f.sid = 0

\* The checks each kind of frame makes on its own content.
ContentRule(f) ==
    /\ f.kind = "Data" => PaddingOk(f)
    /\ f.kind = "Headers" =>
         NewStreamId(f.sid) /\ (AtLimit \/ HeadersOk(f))
    /\ f.kind = "Continuation" => continuation_buf # {}
    /\ f.kind = "GoAway" => f.len >= 8
    /\ f.kind \in {"Reset", "WindowUpdate"} => f.len = 4
    /\ f.kind = "WindowUpdate" => f.inc > 0

Accepted(f) == ContinuationGate(f) /\ StreamZeroRule(f) /\ ContentRule(f)

\* A frame given to process_frame that passes its checks.
Process(f, kind) ==
    /\ Receive(f)
    /\ f.kind = kind
    /\ ~FastPath(f)
    /\ Accepted(f)

\* Every Err return of process_frame's checks: the connection task ends, and
\* its local state with it.
RejectFrame(f) ==
    /\ Receive(f)
    /\ ~FastPath(f)
    /\ ~Accepted(f)
    /\ rd' = "returned"
    /\ UNCHANGED <<table, window, tasks, output>>

\* Padded or empty DATA.
Data(f) ==
    /\ Process(f, "Data")
    /\ ReceiveData(f, Stripped(f))

\* A complete header block: resolve_route, then spawn or wait for the body.
OpenStream(sid, end_stream) ==
    \/ /\ rd' = "returned"
       /\ UNCHANGED <<streams, handlers>>
    \/ /\ end_stream
       /\ Spawn(sid, <<>>)
       /\ UNCHANGED <<rd, streams>>
    \/ /\ ~end_stream
       /\ streams' = Append(streams, [id |-> sid, data |-> <<>>])
       /\ UNCHANGED <<rd, handlers>>

\* A stream over the limit is refused, before its header block is looked at.
HeadersRefused(f) ==
    /\ Process(f, "Headers")
    /\ AtLimit
    /\ last_client_stream_id' = f.sid
    /\ Send(Job("Reset", f.sid))
    /\ UNCHANGED <<rd, streams, continuation_buf, window, tasks, taken, writer>>

Headers(f) ==
    /\ Process(f, "Headers")
    /\ ~AtLimit
    /\ last_client_stream_id' = f.sid
    /\ \/ /\ ~is_end_headers(f)
          /\ continuation_buf' =
               {[sid |-> f.sid, end_stream |-> is_end_stream(f)]}
          /\ UNCHANGED <<rd, streams, handlers>>
       \/ /\ is_end_headers(f)
          /\ OpenStream(f.sid, is_end_stream(f))
          /\ UNCHANGED continuation_buf
    /\ UNCHANGED <<window, dropped, output>>

Continuation(f) ==
    /\ Process(f, "Continuation")
    /\ \E c \in continuation_buf :
         \/ /\ ~is_end_headers(f)
            /\ UNCHANGED <<rd, streams, continuation_buf, handlers>>
         \/ /\ is_end_headers(f)
            /\ continuation_buf' = {}
            /\ OpenStream(c.sid, c.end_stream)
    /\ UNCHANGED <<last_client_stream_id, window, dropped, output>>

\* The settings of the client are only traced.
Settings(f) ==
    /\ Process(f, "Settings")
    /\ ~is_ack(f)
    /\ Send(Job("SettingsAck", 0))
    /\ UNCHANGED <<rd, table, window, tasks, taken, writer>>

\* build_ping_ack copies the payload into eight bytes and panics on any other
\* length.
Ping(f) ==
    /\ Process(f, "Ping")
    /\ ~is_ack(f)
    /\ \/ /\ f.len = 8
          /\ Send(Job("PingAck", 0))
          /\ UNCHANGED rd
       \/ /\ f.len # 8
          /\ rd' = "panic"
          /\ UNCHANGED chan
    /\ UNCHANGED <<table, window, tasks, taken, writer>>

GoAway(f) ==
    /\ Process(f, "GoAway")
    /\ rd' = "returned"
    /\ UNCHANGED <<table, window, tasks, output>>

\* Mutant of Reset: the stream's entry stays.
ResetKeepsStream(f) ==
    /\ Process(f, "Reset")
    /\ UNCHANGED <<rd, table, window, tasks, output>>

\* The stream is forgotten; a handler that already runs is not stopped.
Reset(f) ==
    /\ Process(f, "Reset")
    /\ \/ /\ Position(f.sid) = {}
          /\ UNCHANGED streams
       \/ \E i \in Position(f.sid) : streams' = RemoveAt(streams, i)
    /\ UNCHANGED <<rd, continuation_buf, last_client_stream_id, window, tasks,
                   output>>

\* The window the client grants, acknowledgements and all other kinds of
\* frames change nothing.
IgnoreFrame(f) ==
    /\ \/ Process(f, "WindowUpdate")
       \/ Process(f, "Settings") /\ is_ack(f)
       \/ Process(f, "Ping") /\ is_ack(f)
       \/ Process(f, "Other")
    /\ UNCHANGED <<rd, table, window, tasks, output>>

ReceiveFrame(f) ==
    \/ FastData(f)
    \/ RejectFrame(f)
    \/ Data(f)
    \/ HeadersRefused(f)
    \/ Headers(f)
    \/ Continuation(f)
    \/ Settings(f)
    \/ Ping(f)
    \/ GoAway(f)
    \/ Reset(f)
    \/ IgnoreFrame(f)

-----------------------------------------------------------------------------
(* Handler tasks and the writer task                                       *)

\* handle() sends the reply or the status the method returned ...
HandlerReplies(h) ==
    /\ rd # "busy"
    /\ handlers' = handlers \ {h}
    /\ Send(Job("Response", h.id))
    /\ UNCHANGED <<rd, table, window, dropped, taken, writer, heard>>

\* ... or returns early, because the request does not decode or it panics.
HandlerFails(h) ==
    /\ rd # "busy"
    /\ handlers' = handlers \ {h}
    /\ dropped' = dropped \cup {h.id}
    /\ UNCHANGED <<rd, table, window, output, heard>>

HandlerEnds(sid) ==
    \E h \in handlers : h.id = sid /\ (HandlerReplies(h) \/ HandlerFails(h))

\* Take the next job, turn it into frames and write them all.
WriteJob ==
    /\ writer = "running"
    /\ rd # "busy"
    /\ taken < Len(chan)
    /\ taken' = taken + 1
    /\ UNCHANGED <<rd, table, window, tasks, chan, writer, heard>>

\* A failed write ends the writer and drops the receiver; nobody tells the
\* connection task.
WriteFails ==
    /\ writer = "running"
    /\ rd # "busy"
    /\ taken < Len(chan)
    /\ writer' = "failed"
    /\ UNCHANGED <<rd, table, window, tasks, chan, taken, heard>>

\* Mutants of SendersGone: the handlers' clones are not waited for; one is
\* leaked by a handler that fails.
SendersGoneEarly  == rd \in Ended
SendersGoneLeaked == rd \in Ended /\ handlers = {} /\ dropped = {}

\* Every clone of resp_tx is held by the connection task or by a handler.
SendersGone == rd \in Ended /\ handlers = {}

\* recv() returns None.
WriterDone ==
    /\ writer = "running"
    /\ SendersGone
    /\ taken = Len(chan)
    /\ writer' = "done"
    /\ UNCHANGED <<rd, table, window, tasks, chan, taken, heard>>

Next ==
    \/ Handshake
    \/ BeginRead
    \/ ReadClosed
    \/ EndRead
    \/ \E f \in Frames : ReceiveFrame(f)
    \/ \E sid \in StreamIds : HandlerEnds(sid)
    \/ WriteJob
    \/ WriteFails
    \/ WriterDone

Spec == Init /\ [][Next]_vars

\* What the executor and the application owe: a read that began is worked
\* through, every task that is ready runs again and again (a busy reader only
\* holds the others up until its next await), and every method returns.
FairSpec ==
    /\ Spec
    /\ WF_vars(EndRead)
    /\ \A sid \in StreamIds : SF_vars(HandlerEnds(sid))
    /\ SF_vars(WriteJob \/ WriteFails)
    /\ WF_vars(WriterDone)

-----------------------------------------------------------------------------
(* Properties                                                              *)

\* The frame that ends a stream's life in the direction of the client: a
\* response with END_STREAM, or the RST_STREAM of a refused stream.
IsFinal(job) == job.kind \in {"Response", "Reset"}

\* No stream is answered twice, whatever the client sends and however slow
\* the handlers are: a stream gets at most one of a reply, a status and a
\* refusal, and none while its handler still runs, and no two handlers run
\* for one stream.  Rests on the stream id check of process_frame and on the
\* removal from `streams` before a handler is spawned.
OneAnswer ==
    /\ \A i, j \in DOMAIN chan :
         IsFinal(chan[i]) /\ IsFinal(chan[j]) /\ chan[i].sid = chan[j].sid
            => i = j
    /\ \A h \in handlers, i \in DOMAIN chan :
         IsFinal(chan[i]) => chan[i].sid # h.id
    /\ \A g, h \in handlers : g.id = h.id => g = h

\* The limit holds although it is checked when a header block begins and the
\* stream is only entered into `streams` when the block ends.
StreamsBounded ==
    Len(streams) + (IF continuation_buf = {} THEN 0 ELSE 1) <= MaxStreams

\* The header block of a stream ended with the k-th frame.
BlockEnds(sid, k) ==
    /\ heard[k].kind \in {"Headers", "Continuation"}
    /\ heard[k].sid = sid
    /\ END_HEADERS \in heard[k].flags

\* The frames after the header block that carry the body of a request.
BodyFrames(sid) ==
    {k \in DOMAIN heard :
        /\ heard[k].kind = "Data"
        /\ heard[k].sid = sid
        /\ \E j \in 1 .. k-1 : BlockEnds(sid, j)}

\* The bytes the k-th frame contributes to a body: its payload without the
\* padding and the padding's length byte.
Contribution(k) ==
    <<k, heard[k].len - (IF PADDED \in heard[k].flags
                           THEN heard[k].pad + 1 ELSE 0)>>

IsBody(sid, data) ==
    /\ {data[i] : i \in DOMAIN data} = {Contribution(k) : k \in BodyFrames(sid)}
    /\ \A i, j \in DOMAIN data : i < j => data[i][1] < data[j][1]

\* The client has ended its half of the stream.
EndHeard(sid) ==
    \E k \in DOMAIN heard :
        /\ heard[k].kind \in {"Headers", "Data"}
        /\ heard[k].sid = sid
        /\ END_STREAM \in heard[k].flags

\* A handler is only spawned for a request the client has ended, and it is
\* given exactly the bytes of the request's DATA frames, in order and without
\* padding, whichever of the two DATA paths they took and whatever frames of
\* other streams came between them.
RequestIntact ==
    [][\A h \in handlers' \ handlers :
          IsBody(h.id, h.data)' /\ EndHeard(h.id)']_vars

\* A request whose header block has ended and whose body is still to come.
HalfOpen(sid) ==
    \E k \in DOMAIN heard :
        /\ BlockEnds(sid, k)
        /\ ~ \E j \in 1 .. k :
               /\ heard[j].kind = "Headers"
               /\ heard[j].sid = sid
               /\ END_STREAM \in heard[j].flags
        /\ ~ \E j \in k+1 .. Len(heard) :
               /\ heard[j].sid = sid
               /\ \/ heard[j].kind = "Reset"
                  \/ heard[j].kind = "Data" /\ END_STREAM \in heard[j].flags

Refused == {chan[i].sid : i \in {j \in DOMAIN chan : chan[j].kind = "Reset"}}

\* `streams` holds the client's half-open streams and nothing else: no entry
\* outlives the END_STREAM or RST_STREAM that ends it (it would count against
\* the limit for ever), and none is lost while the client still sends.
TableFollowsPeer ==
    (rd \in {"await", "busy"} /\ writer = "running") =>
        {streams[i].id : i \in DOMAIN streams}
          = {sid \in StreamIds : HalfOpen(sid) /\ sid \notin Refused}

\* writer_task on RespJob::WindowUpdate: the connection's WINDOW_UPDATE, then
\* one per DATA frame, as <<stream, increment>>.
Grants(job) ==
    IF job.kind = "WindowUpdate" /\ job.len > 0
      THEN <<<<0, job.len>>>> \o job.lens ELSE <<>>

\* The sum of a sequence of numbers.
Total(nums) ==
    LET sum[k \in 0 .. Len(nums)] ==
            IF k = 0 THEN 0 ELSE sum[k - 1] + nums[k]
    IN  sum[Len(nums)]

\* What a sequence of pairs <<stream, number>> has for a stream.
Share(pairs, sid) ==
    Total([k \in DOMAIN pairs |-> IF pairs[k][1] = sid THEN pairs[k][2] ELSE 0])

Granted(sid) == Total([i \in DOMAIN chan |-> Share(Grants(chan[i]), sid)])

\* Flow-controlled bytes received on a stream, padding included; stream 0
\* stands for the connection.
UsedBy(f, sid) == IF f.kind = "Data" /\ sid \in {0, f.sid} THEN f.len ELSE 0
Used(sid) == Total([k \in DOMAIN heard |-> UsedBy(heard[k], sid)])

\* process_frame refuses DATA on stream 0, but unpadded DATA does not reach
\* it: the read loop takes it, and its bytes are granted twice on stream 0,
\* as the connection's and as the frame's.
DataOnStreams == \A k \in DOMAIN heard : heard[k].kind = "Data" => heard[k].sid # 0

\* Whenever the connection waits for input, it has returned exactly the
\* window that DATA has used up, on every stream, and on the connection of a
\* client that sends DATA on streams only: no byte is credited twice or
\* forgotten, whether the stream is open, refused, reset or long answered.
CreditReturned ==
    (rd = "await" /\ writer = "running") =>
        \A sid \in StreamIds \cup {0} :
            (sid = 0 => DataOnStreams) => Granted(sid) = Used(sid)

\* The life of a stream, read off the state of its connection.
HasJob(kind, sid) == \E i \in DOMAIN chan : chan[i].kind = kind /\ chan[i].sid = sid

IsReceived(sid) ==
    /\ rd \notin Ended
    /\ \/ \E i \in DOMAIN streams : streams[i].id = sid
       \/ \E c \in continuation_buf : c.sid = sid

LifeOf(sid) ==
    IF sid > last_client_stream_id THEN "idle"
    ELSE IF HasJob("Response", sid) THEN "answered"
    ELSE IF HasJob("Reset", sid) THEN "refused"
    ELSE IF sid \in dropped THEN "dropped"
    ELSE IF \E h \in handlers : h.id = sid THEN "running"
    ELSE IF IsReceived(sid) THEN "receiving"
    ELSE "over"

Lives == INSTANCE Service WITH
    Streams <- StreamIds \ {0},
    life    <- [sid \in StreamIds \ {0} |-> LifeOf(sid)],
    closed  <- (rd \in Ended)

\* Every stream lives once: it opens at most once and above all streams that
\* were opened, it never turns back, and what it has come to when the
\* connection ends is final, but for the handlers still running.
Lifecycle == Lives!Spec

\* The final frame of the stream has been written to the socket.
Answered(sid) == \E i \in 1 .. taken : IsFinal(chan[i]) /\ chan[i].sid = sid

\* A request that was handed over is answered on the wire, unless its handler
\* gave up or the socket failed: also when the client closes its end, errs or
\* says GOAWAY while the handler runs.
AnswerReachesWire ==
    \A sid \in StreamIds :
        (\E h \in handlers : h.id = sid)
          ~> (Answered(sid) \/ sid \in dropped \/ writer = "failed")

\* The writer task, and with it the socket, does not outlive the connection:
\* once the connection task has returned, however it did, the writer ends.
WriterFinishes == (rd \in Ended) ~> (writer # "running")

\* What connection.rs demands of a client's WINDOW_UPDATE ("increment must be
\* non-zero"), asked of the frames this server writes.
NoZeroIncrement ==
    \A i \in 1 .. taken : \A k \in DOMAIN Grants(chan[i]) :
        Grants(chan[i])[k][2] > 0

\* "When expecting CONTINUATION, reject any other frame type."
ContinuationExclusive ==
    [][ (continuation_buf # {} /\ heard' # heard
           /\ Last(heard').kind # "Continuation") => rd' = "returned" ]_vars
=============================================================================
