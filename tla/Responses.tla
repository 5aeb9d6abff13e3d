------------------------------ MODULE Responses ------------------------------
(***************************************************************************)
(* Answers on the wire: the writer task (response_end.rs) takes jobs from  *)
(* the response channel, builds their frames (http2.rs) and compresses     *)
(* their headers (hpack_encoder.rs); the client decompresses and reads.    *)
(*                                                                         *)
(* The encoder keeps no table.  It counts the entries it has made and      *)
(* remembers the ranks of two of them; an index is the distance of a rank  *)
(* from the count.  The client keeps a table, as HPACK has it.             *)
(*                                                                         *)
(* Header fields are representations rather than octets (HpackInteger has  *)
(* those), a reply's message is its value.                                 *)
(***************************************************************************)
EXTENDS Integers, SequencesExt

CONSTANTS
    None,           \* Rust's None
    ClientTable     \* entries the client's dynamic table can hold

VARIABLES
    chan,      \* the response channel: every job ever sent
    taken,     \* how many jobs the writer has taken and written
    writer,    \* "running" or "failed"
    encoder,   \* Encoder
    table,     \* the client's dynamic table, newest entry first
    answers,   \* stream -> what the client has read on it
    confused   \* the client has met an index or a frame that makes no sense

response_vars ==
    <<taken, writer, encoder, table, answers, confused>>

-----------------------------------------------------------------------------
(* The header encoder                                                      *)

new == [dynamic_table_size |-> 0,
        rank_grpc_status_zero |-> None, rank_content_type |-> None]

\* A header block under construction: the encoder and the fields so far.
Begin(enc) == [enc |-> enc, out |-> <<>>]
Put(block, field) == [block EXCEPT !.out = Append(@, field)]

Index(i)           == [kind |-> "indexed", index |-> i]
Insert(name, val)  == [kind |-> "insert", name |-> name, value |-> val]
Plain(name, val)   == [kind |-> "literal", name |-> name, value |-> val]
NameAt(i, val)     == [kind |-> "named", index |-> i, value |-> val]

\* Mutant of dynamic_index: the newest entry is taken for number 61.
dynamic_index_early(enc, rank) == enc.dynamic_table_size - rank + 61

\* Mutant of dynamic_index: every entry is taken for the newest.
dynamic_index_newest(enc, rank) == 62

dynamic_index(enc, rank) == enc.dynamic_table_size - rank + 62

encode_and_index_header(block, name, val) ==
    [Put(block, Insert(name, val)) EXCEPT !.enc.dynamic_table_size = @ + 1]

encode_status_200(block) == Put(block, Index(8))

encode_content_type(block) ==
    LET rank == block.enc.rank_content_type
        inserted == encode_and_index_header(block, "content-type",
                                            "application/grpc")
    IN  IF rank # None
          THEN Put(block, Index(dynamic_index(block.enc, rank)))
          ELSE [inserted EXCEPT
                  !.enc.rank_content_type = inserted.enc.dynamic_table_size]

encode_grpc_accept_encoding(block) ==
    Put(block, Plain("grpc-accept-encoding", "gzip,deflate,zstd"))

encode_grpc_status_zero(block) ==
    LET rank == block.enc.rank_grpc_status_zero
        inserted == encode_and_index_header(block, "grpc-status", 0)
    IN  IF rank # None
          THEN Put(block, Index(dynamic_index(block.enc, rank)))
          ELSE [inserted EXCEPT
                  !.enc.rank_grpc_status_zero = inserted.enc.dynamic_table_size]

\* Only the name is taken from the entry of status zero.
encode_grpc_status_nonzero(block, code) ==
    LET rank == block.enc.rank_grpc_status_zero
    IN  IF rank # None
          THEN Put(block, NameAt(dynamic_index(block.enc, rank), code))
          ELSE Put(block, Plain("grpc-status", code))

encode_grpc_message(block, message) ==
    Put(block, Plain("grpc-message", message))

-----------------------------------------------------------------------------
(* Frames                                                                  *)

\* A frame carries header fields or a message.
Headers(block, end) == [fields |-> block.out, body |-> <<>>, end |-> end]
Data(message) == [fields |-> <<>>, body |-> <<message>>, end |-> FALSE]

\* What a job becomes: its frames, and the encoder after them.
Built(frames, enc) == [frames |-> frames, enc |-> enc]

ReplyHead(enc) ==
    encode_grpc_accept_encoding(
        encode_content_type(encode_status_200(Begin(enc))))

build_response(enc, body) ==
    LET head == ReplyHead(enc)
        trailers == encode_grpc_status_zero(Begin(head.enc))
    IN  Built(<<Headers(head, FALSE), Data(body),
                Headers(trailers, TRUE)>>, trailers.enc)

\* A status takes one frame, which ends the stream.
build_status(enc, code) ==
    LET head == encode_grpc_message(
                  encode_grpc_status_nonzero(ReplyHead(enc), code), "")
    IN  Built(<<Headers(head, TRUE)>>, head.enc)

Build(job) ==
    IF job.response.ok
      THEN build_response(encoder, job.response.body)
      ELSE build_status(encoder, job.response.code)

-----------------------------------------------------------------------------
(* The client                                                              *)

Pair(name, val) == [name |-> name, value |-> val]

\* A field that the client cannot read.
Unknown == Pair("unknown", None)

\* What an index stands for; of the static table only 8 occurs.
At(t, i) ==
    IF i = 8 THEN Pair(":status", 200)
    ELSE IF i - 61 \in DOMAIN t THEN t[i - 61] ELSE Unknown

\* An insertion puts an entry in front, and what the table cannot hold falls
\* off its end.
Entered(t, rep) ==
    LET full == <<Pair(rep.name, rep.value)>> \o t
    IN  IF rep.kind = "insert"
          THEN SubSeq(full, 1, Min({Len(full), ClientTable})) ELSE t

\* The client's table after n of some representations.
Tables(t, reps) ==
    LET after[n \in 0 .. Len(reps)] ==
            IF n = 0 THEN t ELSE Entered(after[n - 1], reps[n])
    IN  after

\* The field of one representation, read with table t.
Field(rep, t) ==
    CASE rep.kind \in {"literal", "insert"} -> Pair(rep.name, rep.value)
      [] rep.kind = "indexed" -> At(t, rep.index)
      [] rep.kind = "named" -> Pair(At(t, rep.index).name, rep.value)

Fields(t, reps) ==
    LET tables == Tables(t, reps)
    IN  [i \in DOMAIN reps |-> Field(reps[i], tables[i - 1])]

\* What has been read on a stream.
Nothing == [fields |-> <<>>, body |-> <<>>, ended |-> FALSE]

\* The client reads the frames of a stream in the order in which they are
\* written.  No part of the server sees when it does, so it does at once.
Read(sid, frames) ==
    LET reps == FlattenSeq([i \in DOMAIN frames |-> frames[i].fields])
        fields == Fields(table, reps)
        body == FlattenSeq([i \in DOMAIN frames |-> frames[i].body])
        Ends(i) == frames[i].end
    IN  /\ table' = Tables(table, reps)[Len(reps)]
        /\ answers' = [answers EXCEPT
                ![sid].fields = @ \o fields,
                ![sid].body = @ \o body,
                ![sid].ended = @ \/ \E i \in DOMAIN frames : Ends(i)]
        /\ confused' = \/ confused
                       \/ frames # <<>> /\ answers[sid].ended
                       \/ \E i \in 1 .. Len(frames) - 1 : Ends(i)
                       \/ \E i \in DOMAIN fields : fields[i].name = Unknown.name

\* The value of a header on a stream, or None.
Header(answer, name) ==
    LET found == {i \in DOMAIN answer.fields : answer.fields[i].name = name}
    IN  IF found = {} THEN None ELSE answer.fields[Min(found)].value

-----------------------------------------------------------------------------
(* The writer task                                                         *)

WriteJob ==
    /\ writer = "running"
    /\ taken < Len(chan)
    /\ taken' = taken + 1
    /\ LET built == Build(chan[taken + 1])
       IN  /\ encoder' = built.enc
           /\ Read(chan[taken + 1].sid, built.frames)
    /\ UNCHANGED <<chan, writer>>

\* Some of the job's frames may have left.
WriteFails ==
    /\ writer = "running"
    /\ taken < Len(chan)
    /\ writer' = "failed"
    /\ LET frames == Build(chan[taken + 1]).frames
       IN  \E n \in 0 .. Len(frames) :
               Read(chan[taken + 1].sid, SubSeq(frames, 1, n))
    /\ UNCHANGED <<chan, taken, encoder>>

ResponseInit(sids) ==
    /\ taken = 0
    /\ writer = "running"
    /\ encoder = new
    /\ table = <<>>
    /\ answers = [sid \in sids |-> Nothing]
    /\ confused = FALSE

ResponseNext == WriteJob \/ WriteFails
=============================================================================
