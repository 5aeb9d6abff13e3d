----------------------------- MODULE FrameReader -----------------------------
(***************************************************************************)
(* The streaming frame parser of the connection task (the read loop of     *)
(* handle_connection in connection.rs): the octets of frames come cut into *)
(* reads at any place, and the parser keeps what it needs of a frame from  *)
(* one read to the next.  It implements Delivery.                          *)
(*                                                                         *)
(* The payload of a non-empty unpadded DATA frame goes straight to the     *)
(* body of its stream, a piece per read; every other payload is collected  *)
(* in control_buf and given to process_frame.  Which frames process_frame  *)
(* refuses is Connection's subject: here a client sends frames it accepts, *)
(* and a HEADERS frame stands for a header block whose route resolves.     *)
(***************************************************************************)
EXTENDS Integers, SequencesExt

CONSTANTS
    Conversations,   \* what a client may send: sequences of frames
    GrpcPrefix       \* length of the gRPC message prefix (5 in the code)

Octet == 0 .. 255

\* The lengths and stream ids that the header of a frame has room for.
Length   == {n \in Nat : n <= 16777215}
StreamId == {n \in Nat : n <= 2147483647}

Kinds == {"Data", "Headers", "Reset", "Ping"}

\* A frame as its sender means it.
FrameType == [kind : Kinds, sid : StreamId, end : BOOLEAN, padded : BOOLEAN,
              payload : Seq(Octet)]

ASSUME ConversationsAssumption ==
    \A c \in Conversations : c \in Seq(FrameType) /\ \A i \in DOMAIN c :
        /\ Len(c[i].payload) \in Length
        /\ c[i].padded => /\ c[i].kind = "Data" /\ c[i].payload # <<>>
                          /\ Len(c[i].payload) > 1 + c[i].payload[1]
        /\ c[i].kind = "Ping" => Len(c[i].payload) = 8
        /\ c[i].kind = "Reset" => Len(c[i].payload) = 4

ASSUME PrefixAssumption == GrpcPrefix \in Nat

VARIABLES
    sent,              \* the frames the client sends
    wire,              \* octets of them not read yet
    rd,                \* "await" a read, "busy" with one, or "returned"
    read_buf,          \* what is left of the current read
    state,             \* ParseState
    header_buf,        \* the octets of a header that has not ended
    cur,               \* the header of the current frame
    cur_payload_read,
    control_buf,
    streams,           \* open stream -> body so far
    spawned,           \* requests given to handlers, in order
    pongs,             \* payloads of the PING acknowledgements
    data_len,          \* DATA octets completed in the current read
    granted,           \* DATA octets given back by WINDOW_UPDATE jobs
    acted              \* history: frames that have been processed

vars == <<sent, wire, rd, read_buf, state, header_buf, cur, cur_payload_read,
          control_buf, streams, spawned, pongs, data_len, granted, acted>>
parser == <<state, header_buf, cur, cur_payload_read, control_buf>>
effect == <<streams, spawned, pongs, data_len, acted>>

-----------------------------------------------------------------------------
(* Frames as octets                                                        *)

HEAD_SIZE == 9

Number == [Data |-> 0, Headers |-> 1, Reset |-> 3, Ping |-> 6]

\* Of the other numbers none stands for a kind that this module's client uses.
FrameKind(byte) ==
    IF \E k \in Kinds : Number[k] = byte
      THEN CHOOSE k \in Kinds : Number[k] = byte ELSE "Unknown"

\* END_STREAM is bit 0 of the flags and PADDED bit 3.
is_end_stream(flags) == flags % 2 = 1
is_padded(flags)     == (flags \div 8) % 2 = 1

\* FrameHeader::parse.
parse(buf) ==
    [len   |-> 65536 * buf[1] + 256 * buf[2] + buf[3],
     kind  |-> FrameKind(buf[4]),
     flags |-> buf[5],
     sid   |-> 16777216 * (buf[6] % 128) + 65536 * buf[7] + 256 * buf[8] + buf[9]]

\* The client's side of it.
Octets(frame) ==
    LET n == Len(frame.payload)
        s == frame.sid
        flags == (IF frame.end THEN 1 ELSE 0) + (IF frame.padded THEN 8 ELSE 0)
    IN  <<n \div 65536, (n \div 256) % 256, n % 256,
          Number[frame.kind], flags,
          s \div 16777216, (s \div 65536) % 256, (s \div 256) % 256, s % 256>>
            \o frame.payload

Init ==
    /\ sent \in Conversations
    /\ wire = FlattenSeq([i \in DOMAIN sent |-> Octets(sent[i])])
    /\ rd = "await"
    /\ read_buf = <<>>
    /\ state = "Header"
    /\ header_buf = <<>>
    /\ cur = [len |-> 0, kind |-> "Unknown", flags |-> 0, sid |-> 0]
    /\ cur_payload_read = 0
    /\ control_buf = <<>>
    /\ streams = [sid \in {} |-> <<>>]
    /\ spawned = <<>>
    /\ pongs = <<>>
    /\ data_len = 0
    /\ granted = 0
    /\ acted = 0

-----------------------------------------------------------------------------
(* What a complete frame does                                              *)

Close(sid) == [s \in DOMAIN streams \ {sid} |-> streams[s]]

\* A DATA frame is complete; data is the body with it.  decode_grpc_message
\* refuses a body shorter than the prefix.
DataComplete(frame, data) ==
    LET sid == frame.sid IN
    /\ data_len' = data_len + frame.len
    /\ \/ /\ sid \notin DOMAIN streams
          /\ UNCHANGED <<rd, streams, spawned>>
       \/ /\ sid \in DOMAIN streams /\ ~is_end_stream(frame.flags)
          /\ streams' = [streams EXCEPT ![sid] = data]
          /\ UNCHANGED <<rd, spawned>>
       \/ /\ sid \in DOMAIN streams /\ is_end_stream(frame.flags)
          /\ streams' = Close(sid)
          /\ \/ /\ Len(data) >= GrpcPrefix
                /\ spawned' = Append(spawned, <<sid, data>>)
                /\ UNCHANGED rd
             \/ /\ Len(data) < GrpcPrefix
                /\ rd' = "returned"
                /\ UNCHANGED spawned
    /\ UNCHANGED pongs

strip_data_padding(flags, buf) ==
    IF is_padded(flags) THEN SubSeq(buf, 2, Len(buf) - buf[1]) ELSE buf

DataFrame(frame, payload) ==
    DataComplete(frame, streams[frame.sid]
                            \o strip_data_padding(frame.flags, payload))

HeadersFrame(frame) ==
    /\ streams' = [s \in DOMAIN streams \cup {frame.sid} |->
                     IF s = frame.sid THEN <<>> ELSE streams[s]]
    /\ UNCHANGED <<rd, spawned, pongs, data_len>>

ResetFrame(frame) ==
    /\ streams' = Close(frame.sid)
    /\ UNCHANGED <<rd, spawned, pongs, data_len>>

\* The acknowledgement carries the octets of the PING.
PingFrame(payload) ==
    /\ pongs' = Append(pongs, payload)
    /\ UNCHANGED <<rd, streams, spawned, data_len>>

process_frame(frame, payload) ==
    /\ acted' = acted + 1
    /\ \/ frame.kind = "Data" /\ DataFrame(frame, payload)
       \/ frame.kind = "Headers" /\ HeadersFrame(frame)
       \/ frame.kind = "Reset" /\ ResetFrame(frame)
       \/ frame.kind = "Ping" /\ PingFrame(payload)

-----------------------------------------------------------------------------
(* The read loop                                                           *)

\* A read takes any number of the octets that have arrived.
Read ==
    /\ rd = "await"
    /\ \E n \in 1 .. Len(wire) :
         /\ read_buf' = SubSeq(wire, 1, n)
         /\ wire' = SubSeq(wire, n + 1, Len(wire))
    /\ rd' = "busy"
    /\ data_len' = 0
    /\ UNCHANGED <<sent, parser, streams, spawned, pongs, granted, acted>>

\* Mutants: an empty payload is waited for like any other; padding is not
\* looked at before DATA is taken for a body.
NoPayloadNever(frame) == FALSE
DirectAll(frame) == frame.kind = "Data"

NoPayload(frame) == frame.len = 0

\* The payload of the frame is not collected.
Direct(frame) == frame.kind = "Data" /\ ~is_padded(frame.flags)

Rest(n) == SubSeq(read_buf, n + 1, Len(read_buf))

ParseHeader ==
    LET take == Min({HEAD_SIZE - Len(header_buf), Len(read_buf)})
        header == header_buf \o SubSeq(read_buf, 1, take)
        frame == parse(header)
    IN  /\ rd = "busy" /\ state = "Header" /\ read_buf # <<>>
        /\ read_buf' = Rest(take)
        /\ \/ /\ Len(header) < HEAD_SIZE
              /\ header_buf' = header
              /\ UNCHANGED <<rd, state, cur, cur_payload_read, control_buf,
                             effect>>
           \/ /\ Len(header) = HEAD_SIZE
              /\ header_buf' = <<>>
              /\ cur' = frame
              /\ cur_payload_read' = 0
              /\ \/ /\ NoPayload(frame)
                    /\ process_frame(frame, <<>>)
                    /\ UNCHANGED <<state, control_buf>>
                 \/ /\ ~NoPayload(frame)
                    /\ state' = "Payload"
                    /\ control_buf' = IF Direct(frame) THEN control_buf ELSE <<>>
                    /\ UNCHANGED <<rd, effect>>
        /\ UNCHANGED <<sent, wire, granted>>

\* Mutant of Remaining: what earlier reads have brought is not counted.
RemainingAll == cur.len

Remaining == cur.len - cur_payload_read

ParsePayload ==
    LET take == Min({Remaining, Len(read_buf)})
        piece == SubSeq(read_buf, 1, take)
        sid == cur.sid
    IN  /\ rd = "busy" /\ state = "Payload" /\ read_buf # <<>>
        /\ read_buf' = Rest(take)
        /\ cur_payload_read' = cur_payload_read + take
        /\ control_buf' = IF Direct(cur) THEN control_buf ELSE control_buf \o piece
        /\ \/ /\ cur_payload_read' < cur.len
              /\ streams' = IF Direct(cur) /\ sid \in DOMAIN streams
                              THEN [streams EXCEPT ![sid] = @ \o piece]
                              ELSE streams
              /\ UNCHANGED <<rd, state, spawned, pongs, data_len, acted>>
           \/ /\ cur_payload_read' >= cur.len
              /\ state' = "Header"
              /\ \/ /\ Direct(cur)
                    /\ acted' = acted + 1
                    /\ DataComplete(cur, streams[sid] \o piece)
                 \/ /\ ~Direct(cur)
                    /\ process_frame(cur, control_buf')
        /\ UNCHANGED <<sent, wire, header_buf, cur, granted>>

\* The octets of the read are used up: give the window back.
EndRead ==
    /\ rd = "busy"
    /\ read_buf = <<>>
    /\ rd' = "await"
    /\ granted' = granted + data_len
    /\ UNCHANGED <<sent, wire, read_buf, parser, effect>>

Next == Read \/ ParseHeader \/ ParsePayload \/ EndRead

\* The octets that were sent arrive, and the connection task runs.
Spec == Init /\ [][Next]_vars /\ WF_vars(Next)

-----------------------------------------------------------------------------
(* Properties                                                              *)

TypeOK ==
    /\ rd \in {"await", "busy", "returned"}
    /\ state \in {"Header", "Payload"}
    /\ wire \in Seq(Octet) /\ read_buf \in Seq(Octet)
    /\ header_buf \in Seq(Octet) /\ Len(header_buf) < HEAD_SIZE
    /\ control_buf \in Seq(Octet)
    /\ cur_payload_read \in 0 .. cur.len
    /\ acted \in 0 .. Len(sent)
    /\ data_len \in Nat /\ granted \in Nat
    /\ \A sid \in DOMAIN streams : streams[sid] \in Seq(Octet)

\* A body without the pieces of a frame that is still arriving.
BodyOf(sid) ==
    IF state = "Payload" /\ Direct(cur) /\ cur.sid = sid
      THEN SubSeq(streams[sid], 1, Len(streams[sid]) - cur_payload_read)
      ELSE streams[sid]

Promise == INSTANCE Delivery WITH
    bodies   <- [sid \in DOMAIN streams |-> BodyOf(sid)],
    requests <- spawned,
    used     <- granted + (IF rd = "await" THEN 0 ELSE data_len),
    closed   <- (rd = "returned")

\* Wherever the reads cut the octets, through headers, padding or payloads,
\* the frames take effect whole, once and in order: the same bodies, requests
\* and PING payloads, and the same octets given back to the client's window.
WholeFrames == Promise!Spec

\* Every frame that has been sent takes effect, unless the connection is
\* closed: the parser never waits for octets that nobody sends.
EveryFrameActs == <>(acted = Len(sent) \/ rd = "returned")
=============================================================================
