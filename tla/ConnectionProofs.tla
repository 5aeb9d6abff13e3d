-------------------------- MODULE ConnectionProofs --------------------------
(***************************************************************************)
(* Proofs about Connection, for every set of frames, every limit and every *)
(* number of frames.  The first part ends with the theorem that it         *)
(* implements Service: each stream of a connection lives once.  The second *)
(* part relates what a connection holds to all that the client has sent:   *)
(* the table follows the client's half-open streams, a handler gets the    *)
(* body its client sent, and what DATA used of the windows is returned.    *)
(***************************************************************************)
EXTENDS Connection, SequenceLemmas, TLAPS

(* What `VecDeque::remove` leaves: one entry less, the others in order. *)
LEMMA RemoveAtProperties ==
    ASSUME NEW S, NEW s \in Seq(S), NEW i \in DOMAIN s
    PROVE  /\ RemoveAt(s, i) \in Seq(S)
           /\ Len(RemoveAt(s, i)) = Len(s) - 1
           /\ \A j \in 1 .. Len(s) - 1 :
                RemoveAt(s, i)[j] = IF j < i THEN s[j] ELSE s[j + 1]
<1> DEFINE front == SubSeq(s, 1, i-1)
           back  == SubSeq(s, i+1, Len(s))
<1>1. /\ Len(s) \in Nat
      /\ i \in 1 .. Len(s)
  BY LenProperties
<1>2. /\ front \in Seq(S)
      /\ Len(front) = i - 1
      /\ \A j \in 1 .. i-1 : front[j] = s[j]
  BY <1>1, SubSeqProperties
<1>3. /\ back \in Seq(S)
      /\ Len(back) = Len(s) - i
      /\ \A j \in 1 .. Len(s) - i : back[j] = s[j + i]
  BY <1>1, SubSeqProperties
<1>4. RemoveAt(s, i) = front \o back
  BY DEF RemoveAt
<1> HIDE DEF front, back
<1>5. /\ front \o back \in Seq(S)
      /\ Len(front \o back) = Len(s) - 1
      /\ \A j \in 1 .. Len(s) - 1 :
           (front \o back)[j] = IF j <= i - 1 THEN front[j] ELSE back[j - (i - 1)]
  <2>1. /\ front \o back \in Seq(S)
        /\ Len(front \o back) = Len(front) + Len(back)
        /\ \A j \in 1 .. Len(front) + Len(back) :
             (front \o back)[j] =
               IF j <= Len(front) THEN front[j] ELSE back[j - Len(front)]
    BY <1>2, <1>3, ConcatProperties
  <2>2. Len(front) = i - 1 /\ Len(front) + Len(back) = Len(s) - 1
    BY <1>1, <1>2, <1>3
  <2> QED
    BY <2>1, <2>2, Zenon
<1>6. ASSUME NEW j \in 1 .. Len(s) - 1
      PROVE  (front \o back)[j] = IF j < i THEN s[j] ELSE s[j + 1]
  <2>1. CASE j < i
    BY <1>1, <1>2, <1>5, <2>1
  <2>2. CASE ~(j < i)
    <3>1. (front \o back)[j] = back[j - (i - 1)]
      BY <1>1, <1>5, <2>2
    <3>2. j - (i - 1) \in 1 .. Len(s) - i /\ (j - (i - 1)) + i = j + 1
      BY <1>1, <2>2
    <3> QED
      BY <1>3, <3>1, <3>2, <2>2
  <2> QED
    BY <2>1, <2>2
<1> QED
  BY <1>4, <1>5, <1>6

-----------------------------------------------------------------------------
(* Types                                                                   *)

LEMMA FrameFields ==
    ASSUME NEW f \in Frames
    PROVE  /\ f.kind \in Kinds
           /\ f.sid \in Nat /\ f.len \in Nat /\ f.pad \in Nat /\ f.inc \in Nat
BY FramesAssumption DEF FrameType

(* A send keeps what the channel holds and appends at most the new job. *)
LEMMA SendType ==
    ASSUME TypeOK, NEW job \in JobType, Send(job)
    PROVE  chan' \in Seq(JobType) /\ taken \in 0 .. Len(chan')
<1>1. /\ Append(chan, job) \in Seq(JobType)
      /\ Len(Append(chan, job)) = Len(chan) + 1
      /\ Len(chan) \in Nat
  BY AppendProperties, LenProperties DEF TypeOK
<1> QED
  BY <1>1 DEF Send, TypeOK

LEMMA JobTypes ==
    /\ \A kind \in JobKinds, sid \in Nat : Job(kind, sid) \in JobType
    /\ \A len \in Nat, lens \in Seq(Nat \X Nat) : Credit(len, lens) \in JobType
<1>1. <<>> \in Seq(Nat \X Nat)
  BY EmptySeq
<1> QED
  BY <1>1 DEF Job, Credit, JobType, JobKinds

LEMMA PositionType ==
    ASSUME TypeOK, NEW sid, NEW i \in Position(sid)
    PROVE  i \in DOMAIN streams /\ streams[i].id = sid
BY DEF Position

(* Accounting for a DATA frame and appending its fragment keeps the types. *)
LEMMA ReceiveDataType ==
    ASSUME TypeOK, NEW f \in Frames, NEW n \in Nat, Receive(f), ReceiveData(f, n)
    PROVE  TypeOK'
<1> USE FrameFields
<1>1. heard' \in Seq(Frames) /\ Len(heard) + 1 \in Nat
  BY AppendProperties, LenProperties DEF TypeOK, Receive
<1>2. data_len' \in Nat
  BY DEF TypeOK, ReceiveData
<1>3. stream_data_lens' \in Seq(Nat \X Nat)
  <2>1. <<f.sid, f.len>> \in Nat \X Nat
    OBVIOUS
  <2> QED
    BY <2>1, AppendProperties DEF TypeOK, ReceiveData
<1> DEFINE Goal == /\ streams' \in Seq([id : Nat, data : Fragments])
                   /\ handlers' \in SUBSET [id : Nat, data : Fragments]
                   /\ rd' \in {"handshake", "await", "busy"} \cup Ended
<1>4. Goal
  <2>1. CASE Position(f.sid) = {} /\ UNCHANGED <<rd, streams, handlers>>
    BY <2>1 DEF TypeOK
  <2>2. ASSUME NEW i \in Position(f.sid)
        PROVE  /\ i \in DOMAIN streams
               /\ streams[i] \in [id : Nat, data : Fragments]
               /\ Append(streams[i].data, <<Len(heard) + 1, n>>) \in Fragments
    <3>1. i \in DOMAIN streams
      BY PositionType
    <3>2. streams[i] \in [id : Nat, data : Fragments]
      <4>1. i \in 1 .. Len(streams)
        BY <3>1, LenProperties DEF TypeOK
      <4> QED
        BY <4>1, ElementOfSeq DEF TypeOK
    <3>3. <<Len(heard) + 1, n>> \in Nat \X Nat
      BY <1>1
    <3>4. Append(streams[i].data, <<Len(heard) + 1, n>>) \in Fragments
      BY <3>2, <3>3, AppendProperties DEF Fragments
    <3> QED
      BY <3>1, <3>2, <3>4
  <2>3. ASSUME NEW i \in Position(f.sid), NEW data \in Fragments,
               streams' = [streams EXCEPT ![i].data = data],
               UNCHANGED <<rd, handlers>>
        PROVE  Goal
    <3>1. [streams[i] EXCEPT !.data = data] \in [id : Nat, data : Fragments]
      BY <2>2
    <3>2. streams' = [streams EXCEPT ![i] = [streams[i] EXCEPT !.data = data]]
      BY <2>3
    <3>3. streams' \in Seq([id : Nat, data : Fragments])
      BY <2>2, <3>1, <3>2, ExceptSeq DEF TypeOK
    <3> QED
      BY <2>3, <3>3 DEF TypeOK
  <2>4. ASSUME NEW i \in Position(f.sid), NEW data \in Fragments,
               streams' = RemoveAt(streams, i),
               \/ Spawn(f.sid, data) /\ UNCHANGED rd
               \/ rd' = "returned" /\ UNCHANGED handlers
        PROVE  Goal
    <3>1. streams' \in Seq([id : Nat, data : Fragments])
      BY <2>2, <2>4, RemoveAtProperties DEF TypeOK
    <3> QED
      BY <2>4, <3>1 DEF TypeOK, Spawn, Ended
  <2> QED
    BY <2>1, <2>2, <2>3, <2>4 DEF ReceiveData
<1> QED
  BY <1>1, <1>2, <1>3, <1>4 DEF TypeOK, ReceiveData, output

(* resolve_route's three outcomes keep the types. *)
LEMMA OpenStreamType ==
    ASSUME TypeOK, NEW sid \in Nat, NEW end_stream, OpenStream(sid, end_stream)
    PROVE  /\ streams' \in Seq([id : Nat, data : Fragments])
           /\ handlers' \in SUBSET [id : Nat, data : Fragments]
           /\ rd' \in {"handshake", "await", "busy"} \cup Ended
<1>1. [id |-> sid, data |-> <<>>] \in [id : Nat, data : Fragments]
  BY EmptySeq DEF Fragments
<1>2. Append(streams, [id |-> sid, data |-> <<>>])
        \in Seq([id : Nat, data : Fragments])
  BY <1>1, AppendProperties DEF TypeOK
<1>3. handlers \cup {[id |-> sid, data |-> <<>>]}
        \in SUBSET [id : Nat, data : Fragments]
  BY <1>1 DEF TypeOK
<1> QED
  BY <1>2, <1>3 DEF TypeOK, OpenStream, Spawn, Ended

(* Every kind of frame keeps the types. *)
LEMMA ReceiveFrameType ==
    ASSUME TypeOK, NEW f \in Frames, ReceiveFrame(f)
    PROVE  TypeOK'
<1> USE FrameFields
<1>1. Receive(f) /\ heard' \in Seq(Frames)
  <2>1. Receive(f)
    BY DEF ReceiveFrame, FastData, RejectFrame, Process, Data, HeadersRefused,
           Headers, Continuation, Settings, Ping, GoAway, Reset, IgnoreFrame
  <2> QED
    BY <2>1, AppendProperties DEF TypeOK, Receive
<1>2. CASE FastData(f)
  BY <1>1, <1>2, ReceiveDataType DEF FastData
<1>3. CASE RejectFrame(f)
  BY <1>1, <1>3 DEF RejectFrame, TypeOK, table, window, tasks, output, Ended
<1>4. CASE Data(f)
  <2>1. Stripped(f) \in Nat
    BY <1>4 DEF Data, Process, Accepted, ContentRule, PaddingOk, Stripped
  <2> QED
    BY <1>1, <1>4, <2>1, ReceiveDataType DEF Data
<1>5. CASE HeadersRefused(f)
  <2>1. Job("Reset", f.sid) \in JobType
    BY JobTypes DEF JobKinds
  <2>2. chan' \in Seq(JobType) /\ taken \in 0 .. Len(chan')
    BY <1>5, <2>1, SendType DEF HeadersRefused
  <2> QED
    BY <1>1, <1>5, <2>2 DEF HeadersRefused, TypeOK, window, tasks
<1>6. CASE Headers(f)
  <2>1. CASE /\ continuation_buf' =
                  {[sid |-> f.sid, end_stream |-> is_end_stream(f)]}
             /\ UNCHANGED <<rd, streams, handlers>>
    BY <1>1, <1>6, <2>1 DEF Headers, TypeOK, window, output, is_end_stream
  <2>2. CASE /\ OpenStream(f.sid, is_end_stream(f))
             /\ UNCHANGED continuation_buf
    BY <1>1, <1>6, <2>2, OpenStreamType DEF Headers, TypeOK, window, output
  <2> QED
    BY <1>6, <2>1, <2>2 DEF Headers
<1>7. CASE Continuation(f)
  <2> PICK c \in continuation_buf :
         \/ UNCHANGED <<rd, streams, continuation_buf, handlers>>
         \/ /\ continuation_buf' = {}
            /\ OpenStream(c.sid, c.end_stream)
    BY <1>7 DEF Continuation
  <2>1. c.sid \in Nat
    BY DEF TypeOK
  <2>2. CASE UNCHANGED <<rd, streams, continuation_buf, handlers>>
    BY <1>1, <1>7, <2>2 DEF Continuation, TypeOK, window, output
  <2>3. CASE continuation_buf' = {} /\ OpenStream(c.sid, c.end_stream)
    BY <1>1, <1>7, <2>1, <2>3, OpenStreamType
    DEF Continuation, TypeOK, window, output
  <2> QED
    BY <2>2, <2>3
<1>8. CASE Settings(f)
  <2>1. Job("SettingsAck", 0) \in JobType
    BY JobTypes DEF JobKinds
  <2>2. chan' \in Seq(JobType) /\ taken \in 0 .. Len(chan')
    BY <1>8, <2>1, SendType DEF Settings
  <2> QED
    BY <1>1, <1>8, <2>2 DEF Settings, TypeOK, table, window, tasks
<1>9. CASE Ping(f)
  <2>1. Job("PingAck", 0) \in JobType
    BY JobTypes DEF JobKinds
  <2>2. chan' \in Seq(JobType) /\ taken \in 0 .. Len(chan')
    BY <1>9, <2>1, SendType DEF Ping, TypeOK
  <2>3. rd' \in {"handshake", "await", "busy"} \cup Ended
    BY <1>9 DEF Ping, TypeOK, Ended
  <2> QED
    BY <1>1, <1>9, <2>2, <2>3 DEF Ping, TypeOK, table, window, tasks
<1>10. CASE GoAway(f)
  BY <1>1, <1>10 DEF GoAway, TypeOK, table, window, tasks, output, Ended
<1>11. CASE Reset(f)
  <2>1. streams' \in Seq([id : Nat, data : Fragments])
    BY <1>11, PositionType, RemoveAtProperties DEF Reset, TypeOK
  <2> QED
    BY <1>1, <1>11, <2>1 DEF Reset, TypeOK, window, tasks, output
<1>12. CASE IgnoreFrame(f)
  BY <1>1, <1>12 DEF IgnoreFrame, TypeOK, table, window, tasks, output
<1> QED
  BY <1>2, <1>3, <1>4, <1>5, <1>6, <1>7, <1>8, <1>9, <1>10, <1>11, <1>12
  DEF ReceiveFrame

(* Type correctness of the connection, its handlers and its writer. *)
THEOREM TypeCorrect == Spec => []TypeOK
<1>1. Init => TypeOK
  BY EmptySeq DEF Init, TypeOK
<1>2. TypeOK /\ [Next]_vars => TypeOK'
  <2> SUFFICES ASSUME TypeOK, [Next]_vars
               PROVE  TypeOK'
    OBVIOUS
  <2>1. CASE Handshake
    BY <2>1 DEF Handshake, TypeOK, table, window, tasks, Ended
  <2>2. CASE BeginRead
    BY <2>2, EmptySeq DEF BeginRead, TypeOK, table, tasks, output
  <2>3. CASE ReadClosed
    BY <2>3 DEF ReadClosed, TypeOK, table, window, tasks, output, Ended
  <2>4. CASE EndRead
    <3>1. Credit(data_len, stream_data_lens) \in JobType
      BY JobTypes DEF TypeOK
    <3>2. chan' \in Seq(JobType) /\ taken \in 0 .. Len(chan')
      BY <2>4, <3>1, SendType DEF EndRead, TypeOK
    <3>3. stream_data_lens' \in Seq(Nat \X Nat)
      BY <2>4, EmptySeq DEF EndRead, TypeOK
    <3> QED
      BY <2>4, <3>2, <3>3 DEF EndRead, TypeOK, table, tasks
  <2>5. ASSUME NEW f \in Frames, ReceiveFrame(f)
        PROVE  TypeOK'
    BY <2>5, ReceiveFrameType
  <2>6. ASSUME NEW h \in handlers, HandlerReplies(h)
        PROVE  TypeOK'
    <3>1. Job("Response", h.id) \in JobType
      BY JobTypes DEF JobKinds, TypeOK
    <3>2. chan' \in Seq(JobType) /\ taken \in 0 .. Len(chan')
      BY <2>6, <3>1, SendType DEF HandlerReplies
    <3> QED
      BY <2>6, <3>2 DEF HandlerReplies, TypeOK, table, window
  <2>7. ASSUME NEW h \in handlers, HandlerFails(h)
        PROVE  TypeOK'
    BY <2>7 DEF HandlerFails, TypeOK, table, window, output
  <2>8. CASE WriteJob
    BY <2>8, LenProperties DEF WriteJob, TypeOK, table, window, tasks
  <2>9. CASE WriteFails
    BY <2>9 DEF WriteFails, TypeOK, table, window, tasks
  <2>10. CASE WriterDone
    BY <2>10 DEF WriterDone, TypeOK, table, window, tasks
  <2>11. CASE UNCHANGED vars
    BY <2>11 DEF vars, TypeOK
  <2> QED
    BY <2>1, <2>2, <2>3, <2>4, <2>5, <2>6, <2>7, <2>8, <2>9, <2>10, <2>11
    DEF Next, HandlerEnds
<1> QED
  BY <1>1, <1>2, PTL DEF Spec

-----------------------------------------------------------------------------
(* Who owns a stream.  A stream the client opened is, at any time, in at    *)
(* most one place: waiting for the rest of its header block, in `streams`,  *)
(* with a handler, or answered.                                             *)

InTable(sid)  == \E i \in DOMAIN streams : streams[i].id = sid
Pending(sid)  == \E c \in continuation_buf : c.sid = sid
Running(sid)  == \E h \in handlers : h.id = sid
Finished(sid) == \E i \in DOMAIN chan : IsFinal(chan[i]) /\ chan[i].sid = sid

OwnedOnce(sid) ==
    /\ InTable(sid) \/ Pending(sid) \/ Running(sid) \/ Finished(sid)
         => sid <= last_client_stream_id
    /\ InTable(sid) => ~Pending(sid) /\ ~Running(sid) /\ ~Finished(sid)
    /\ Pending(sid) => ~Running(sid) /\ ~Finished(sid)
    /\ Running(sid) => ~Finished(sid)

TableUnique ==
    \A i, j \in DOMAIN streams : streams[i].id = streams[j].id => i = j
PendingUnique == \A c, d \in continuation_buf : c = d
RunningUnique == \A g, h \in handlers : g.id = h.id => g = h
FinishedUnique ==
    \A i, j \in DOMAIN chan :
        IsFinal(chan[i]) /\ IsFinal(chan[j]) /\ chan[i].sid = chan[j].sid
            => i = j

Ownership ==
    /\ \A sid \in Nat : OwnedOnce(sid)
    /\ TableUnique
    /\ PendingUnique
    /\ RunningUnique
    /\ FinishedUnique

(* The table after a removal: the stream is gone, the others are kept.      *)
LEMMA RemovedFromTable ==
    ASSUME TypeOK, TableUnique, NEW sid, NEW i \in Position(sid),
           streams' = RemoveAt(streams, i)
    PROVE  /\ \A s : InTable(s)' => InTable(s) /\ s # sid
           /\ TableUnique'
           /\ Len(streams') = Len(streams) - 1
<1>1. /\ i \in DOMAIN streams /\ streams[i].id = sid
      /\ DOMAIN streams = 1 .. Len(streams) /\ Len(streams) \in Nat
  BY PositionType, LenProperties DEF TypeOK
<1>2. /\ Len(streams') = Len(streams) - 1
      /\ \A j \in 1 .. Len(streams) - 1 :
           streams'[j] = IF j < i THEN streams[j] ELSE streams[j + 1]
      /\ DOMAIN streams' = 1 .. Len(streams')
  <2> DEFINE Entry == [id : Nat, data : Fragments]
  <2>1. streams \in Seq(Entry)
    BY DEF TypeOK
  <2> HIDE DEF Entry
  <2>2. /\ streams' \in Seq(Entry)
        /\ Len(streams') = Len(streams) - 1
        /\ \A j \in 1 .. Len(streams) - 1 :
             streams'[j] = IF j < i THEN streams[j] ELSE streams[j + 1]
    BY <1>1, <2>1, RemoveAtProperties
  <2> QED
    BY <2>2, LenProperties
<1> DEFINE from(j) == IF j < i THEN j ELSE j + 1
<1>3. ASSUME NEW j \in DOMAIN streams'
      PROVE  /\ from(j) \in DOMAIN streams /\ from(j) # i
             /\ streams'[j] = streams[from(j)]
  BY <1>1, <1>2
<1>4. ASSUME NEW s, InTable(s)'
      PROVE  InTable(s) /\ s # sid
  BY <1>1, <1>3, <1>4 DEF InTable, TableUnique
<1>5. ASSUME NEW j \in DOMAIN streams', NEW k \in DOMAIN streams',
             streams'[j].id = streams'[k].id
      PROVE  j = k
  <2>1. from(j) = from(k)
    BY <1>3, <1>5 DEF TableUnique
  <2> QED
    BY <1>1, <1>2, <2>1
<1> QED
  BY <1>2, <1>4, <1>5 DEF TableUnique

(* A send finishes at most the job's stream, and no stream twice.           *)
LEMMA SendFinishes ==
    ASSUME TypeOK, FinishedUnique, NEW job \in JobType, Send(job),
           IsFinal(job) => ~Finished(job.sid)
    PROVE  /\ \A s : Finished(s)' =>
                   Finished(s) \/ (IsFinal(job) /\ s = job.sid)
           /\ FinishedUnique'
<1>1. CASE chan' = chan
  BY <1>1 DEF Finished, FinishedUnique
<1>2. CASE chan' = Append(chan, job)
  <2>1. /\ Len(chan) \in Nat
        /\ DOMAIN chan = 1 .. Len(chan)
        /\ DOMAIN chan' = 1 .. Len(chan) + 1
        /\ \A i \in 1 .. Len(chan) : chan'[i] = chan[i]
        /\ chan'[Len(chan) + 1] = job
    BY <1>2, AppendProperties, LenProperties DEF TypeOK
  <2>2. ASSUME NEW i \in DOMAIN chan'
        PROVE  \/ i \in DOMAIN chan /\ chan'[i] = chan[i]
               \/ i = Len(chan) + 1 /\ chan'[i] = job
    BY <2>1
  <2> QED
    BY <2>2 DEF Finished, FinishedUnique
<1> QED
  BY <1>1, <1>2 DEF Send

(* An entry that grows stays the same stream's entry.                       *)
LEMMA GrownInTable ==
    ASSUME TypeOK, NEW i \in DOMAIN streams, NEW data,
           streams' = [streams EXCEPT ![i].data = data]
    PROVE  /\ \A s : InTable(s)' => InTable(s)
           /\ TableUnique => TableUnique'
           /\ Len(streams') = Len(streams)
<1>1. /\ DOMAIN streams' = DOMAIN streams
      /\ \A j \in DOMAIN streams : streams'[j].id = streams[j].id
  <2>1. \A j \in DOMAIN streams : streams[j] \in [id : Nat, data : Fragments]
    BY ElementOfSeq, LenProperties DEF TypeOK
  <2> QED
    BY <2>1
<1>2. Len(streams') = Len(streams)
  BY ExceptSeq, LenProperties DEF TypeOK
<1> QED
  BY <1>1, <1>2 DEF InTable, TableUnique

LEMMA Spawned ==
    ASSUME RunningUnique, NEW sid, NEW data, ~Running(sid), Spawn(sid, data)
    PROVE  /\ \A s : Running(s)' => Running(s) \/ s = sid
           /\ RunningUnique'
BY DEF Running, RunningUnique, Spawn

(* A stream moves from one place to the next; nothing else changes hands.   *)
LEMMA Moved ==
    ASSUME TypeOK, TypeOK', Ownership, NEW sid,
           last_client_stream_id <= last_client_stream_id',
           \A s \in Nat : s # sid =>
               /\ InTable(s)' => InTable(s)
               /\ Pending(s)' => Pending(s)
               /\ Running(s)' => Running(s)
               /\ Finished(s)' => Finished(s),
           sid \in Nat => OwnedOnce(sid)',
           TableUnique', PendingUnique', RunningUnique', FinishedUnique'
    PROVE  Ownership'
<1>1. ASSUME NEW s \in Nat, s # sid
      PROVE  OwnedOnce(s)'
  BY <1>1 DEF Ownership, OwnedOnce, TypeOK
<1> QED
  BY <1>1 DEF Ownership

(* Nothing changes hands at all.                                            *)
LEMMA NotMoved ==
    ASSUME TypeOK, TypeOK', Ownership,
           UNCHANGED <<table, handlers, chan>>
    PROVE  Ownership' /\ Len(streams') = Len(streams)
BY DEF Ownership, OwnedOnce, InTable, Pending, Running, Finished, TableUnique,
       PendingUnique, RunningUnique, FinishedUnique, table

-----------------------------------------------------------------------------
(* The invariant is inductive                                               *)

Inv == TypeOK /\ Ownership /\ StreamsBounded

(* On END_STREAM the request leaves `streams` before its handler exists.    *)
LEMMA ReceiveDataOwnership ==
    ASSUME Inv, TypeOK', NEW f \in Frames, NEW n \in Nat, ReceiveData(f, n)
    PROVE  Ownership' /\ StreamsBounded'
<1>1. UNCHANGED <<continuation_buf, last_client_stream_id, chan>>
  BY DEF ReceiveData, output
<1>2. /\ TypeOK /\ Ownership /\ StreamsBounded
      /\ Len(streams) \in Nat /\ Len(streams') \in Nat
  BY LenProperties DEF Inv, TypeOK
<1>3. CASE UNCHANGED <<streams, handlers>>
  BY <1>1, <1>2, <1>3, NotMoved DEF table, StreamsBounded
<1>4. ASSUME NEW i \in Position(f.sid), NEW data,
             streams' = [streams EXCEPT ![i].data = data],
             UNCHANGED handlers
      PROVE  Ownership' /\ StreamsBounded'
  <2>1. /\ \A s : InTable(s)' => InTable(s)
        /\ TableUnique'
        /\ Len(streams') = Len(streams)
    BY <1>2, <1>4, PositionType, GrownInTable DEF Ownership
  <2> QED
    BY <1>1, <1>2, <1>4, <2>1, FrameFields
    DEF Ownership, OwnedOnce, Pending, Running, Finished, PendingUnique,
        RunningUnique, FinishedUnique, StreamsBounded
<1>5. ASSUME NEW i \in Position(f.sid), NEW data,
             streams' = RemoveAt(streams, i),
             Spawn(f.sid, data) \/ UNCHANGED handlers
      PROVE  Ownership' /\ StreamsBounded'
  <2>1. /\ \A s : InTable(s)' => InTable(s) /\ s # f.sid
        /\ TableUnique'
        /\ Len(streams') = Len(streams) - 1
    BY <1>2, <1>5, RemovedFromTable DEF Ownership
  <2>2. InTable(f.sid) /\ f.sid \in Nat
    BY <1>2, <1>5, PositionType, FrameFields DEF InTable
  <2>3. ~Running(f.sid) /\ ~Pending(f.sid) /\ ~Finished(f.sid)
        /\ f.sid <= last_client_stream_id
    BY <1>2, <2>2 DEF Ownership, OwnedOnce
  <2>4. /\ \A s : Running(s)' => Running(s) \/ s = f.sid
        /\ RunningUnique'
    BY <1>2, <1>5, <2>3, Spawned DEF Ownership, Running, RunningUnique
  <2>5. /\ \A s : Pending(s)' <=> Pending(s)
        /\ \A s : Finished(s)' <=> Finished(s)
        /\ PendingUnique' /\ FinishedUnique'
    BY <1>1, <1>2
    DEF Ownership, Pending, Finished, PendingUnique, FinishedUnique
  <2>6. OwnedOnce(f.sid)'
    BY <1>1, <2>1, <2>3, <2>5 DEF OwnedOnce
  <2>7. Ownership'
    <3>1. last_client_stream_id <= last_client_stream_id'
      BY <1>1, <1>2 DEF TypeOK
    <3> QED
      BY <1>2, <2>1, <2>4, <2>5, <2>6, <3>1, Moved, Zenon
  <2> QED
    BY <1>1, <1>2, <2>1, <2>7, BoundsAssumption DEF StreamsBounded
<1> QED
  BY <1>3, <1>4, <1>5 DEF ReceiveData

(* A stream whose header block is complete goes to its handler or into the  *)
(* table, once it is nowhere else.                                          *)
LEMMA OpenStreamOwnership ==
    ASSUME TypeOK, TypeOK', Ownership, NEW sid \in Nat, NEW end_stream,
           sid <= last_client_stream_id',
           last_client_stream_id <= last_client_stream_id',
           ~InTable(sid), ~Running(sid), ~Finished(sid),
           continuation_buf' = {}, UNCHANGED chan,
           OpenStream(sid, end_stream)
    PROVE  Ownership' /\ Len(streams') <= Len(streams) + 1
<1>1. /\ \A s : ~Pending(s)'
      /\ \A s : Finished(s)' <=> Finished(s)
      /\ PendingUnique' /\ FinishedUnique'
  BY DEF Ownership, Pending, Finished, PendingUnique, FinishedUnique
<1>2. Len(streams) \in Nat
  BY LenProperties DEF TypeOK
<1>3. CASE UNCHANGED <<streams, handlers>>
  <2>1. /\ \A s : InTable(s)' <=> InTable(s)
        /\ \A s : Running(s)' <=> Running(s)
        /\ TableUnique' /\ RunningUnique'
    BY <1>3 DEF Ownership, InTable, Running, TableUnique, RunningUnique
  <2>2. OwnedOnce(sid)'
    BY <1>1, <2>1 DEF OwnedOnce
  <2>3. Ownership'
    BY <1>1, <2>1, <2>2, Moved, Zenon
  <2> QED
    BY <1>2, <1>3, <2>3
<1>4. CASE Spawn(sid, <<>>) /\ UNCHANGED streams
  <2>1. /\ \A s : Running(s)' => Running(s) \/ s = sid
        /\ RunningUnique'
    BY <1>4, Spawned DEF Ownership
  <2>2. /\ \A s : InTable(s)' <=> InTable(s)
        /\ TableUnique'
    BY <1>4 DEF Ownership, InTable, TableUnique
  <2>3. OwnedOnce(sid)'
    BY <1>1, <2>2 DEF OwnedOnce
  <2> QED
    BY <1>1, <1>2, <1>4, <2>1, <2>2, <2>3, Moved
<1>5. CASE /\ streams' = Append(streams, [id |-> sid, data |-> <<>>])
           /\ UNCHANGED handlers
  <2>1. /\ Len(streams') = Len(streams) + 1
        /\ DOMAIN streams = 1 .. Len(streams)
        /\ DOMAIN streams' = 1 .. Len(streams) + 1
        /\ \A i \in 1 .. Len(streams) : streams'[i] = streams[i]
        /\ streams'[Len(streams) + 1].id = sid
    <3>1. [id |-> sid, data |-> <<>>] \in [id : Nat, data : Fragments]
      BY EmptySeq DEF Fragments
    <3> QED
      BY <1>5, <3>1, AppendProperties, LenProperties DEF TypeOK
  <2>2. ASSUME NEW i \in DOMAIN streams'
        PROVE  \/ i \in DOMAIN streams /\ streams'[i] = streams[i]
               \/ i = Len(streams) + 1 /\ streams'[i].id = sid
    BY <1>2, <2>1
  <2>3. /\ \A s : InTable(s)' => InTable(s) \/ s = sid
        /\ TableUnique'
    BY <2>2 DEF Ownership, InTable, TableUnique
  <2>4. /\ \A s : Running(s)' <=> Running(s)
        /\ RunningUnique'
    BY <1>5 DEF Ownership, Running, RunningUnique
  <2>5. OwnedOnce(sid)'
    BY <1>1, <2>4 DEF OwnedOnce
  <2>6. Ownership'
    BY <1>1, <2>3, <2>4, <2>5, Moved
  <2> QED
    BY <1>2, <2>1, <2>6
<1> QED
  BY <1>3, <1>4, <1>5 DEF OpenStream

(* A job that answers no stream leaves the ownership as it is.              *)
LEMMA SentNoAnswer ==
    ASSUME TypeOK, TypeOK', Ownership, NEW job \in JobType,
           ~IsFinal(job), Send(job), UNCHANGED <<table, handlers>>
    PROVE  Ownership'
<1>1. /\ \A s : Finished(s)' => Finished(s)
      /\ FinishedUnique'
  BY SendFinishes DEF Ownership
<1> QED
  BY <1>1
  DEF Ownership, OwnedOnce, InTable, Pending, Running, TableUnique,
      PendingUnique, RunningUnique, table

LEMMA ReceiveFrameOwnership ==
    ASSUME Inv, TypeOK', NEW f \in Frames, ReceiveFrame(f)
    PROVE  Ownership' /\ StreamsBounded'
<1> USE FrameFields
<1>1. /\ TypeOK /\ Ownership /\ StreamsBounded
      /\ Len(streams) \in Nat /\ Len(streams') \in Nat
      /\ MaxStreams \in Nat
  BY LenProperties, BoundsAssumption DEF Inv, TypeOK
<1>2. CASE UNCHANGED <<table, handlers, chan>>
  BY <1>1, <1>2, NotMoved DEF table, StreamsBounded
<1>3. CASE FastData(f)
  BY <1>3, ReceiveDataOwnership DEF FastData
<1>4. CASE Data(f)
  <2>1. Stripped(f) \in Nat
    BY <1>4 DEF Data, Process, Accepted, ContentRule, PaddingOk, Stripped
  <2> QED
    BY <1>4, <2>1, ReceiveDataOwnership DEF Data
<1>5. ASSUME Process(f, "Headers")
      PROVE  /\ continuation_buf = {}
             /\ f.sid > last_client_stream_id
             /\ ~InTable(f.sid) /\ ~Running(f.sid) /\ ~Finished(f.sid)
             /\ ~Pending(f.sid)
  <2>1. continuation_buf = {}
    BY <1>5 DEF Process, Accepted, ContinuationGate
  <2>2. f.sid > last_client_stream_id
    BY <1>5 DEF Process, Accepted, ContentRule, NewStreamId
  <2>3. ~(f.sid <= last_client_stream_id)
    BY <1>1, <2>2 DEF TypeOK
  <2> QED
    BY <1>1, <2>1, <2>2, <2>3 DEF Ownership, OwnedOnce
<1>6. CASE HeadersRefused(f)
  <2>1. /\ Process(f, "Headers")
        /\ last_client_stream_id' = f.sid
        /\ Send(Job("Reset", f.sid))
        /\ UNCHANGED <<streams, continuation_buf, handlers>>
    BY <1>6 DEF HeadersRefused, tasks
  <2>2. Job("Reset", f.sid) \in JobType /\ Job("Reset", f.sid).sid = f.sid
    BY JobTypes DEF JobKinds, Job
  <2>3. /\ \A s : Finished(s)' => Finished(s) \/ s = f.sid
        /\ FinishedUnique'
    BY <1>1, <1>5, <2>1, <2>2, SendFinishes DEF Ownership
  <2>4. /\ \A s : InTable(s)' <=> InTable(s)
        /\ \A s : Running(s)' <=> Running(s)
        /\ \A s : Pending(s)' <=> Pending(s)
        /\ TableUnique' /\ RunningUnique' /\ PendingUnique'
    BY <1>1, <2>1
    DEF Ownership, InTable, Running, Pending, TableUnique, RunningUnique,
        PendingUnique
  <2>5. /\ last_client_stream_id <= last_client_stream_id'
        /\ f.sid <= last_client_stream_id'
    BY <1>1, <1>5, <2>1 DEF TypeOK
  <2>6. OwnedOnce(f.sid)'
    BY <1>5, <2>1, <2>4, <2>5 DEF OwnedOnce
  <2>7. Ownership'
    BY <1>1, <2>3, <2>4, <2>5, <2>6, Moved, Zenon
  <2> QED
    BY <1>1, <2>1, <2>7 DEF StreamsBounded
<1>7. CASE Headers(f)
  <2>1. /\ Process(f, "Headers")
        /\ Len(streams) < MaxStreams
        /\ last_client_stream_id' = f.sid
        /\ UNCHANGED chan
    BY <1>1, <1>7 DEF Headers, AtLimit, output
  <2>2. /\ last_client_stream_id <= last_client_stream_id'
        /\ f.sid <= last_client_stream_id'
    BY <1>1, <1>5, <2>1 DEF TypeOK
  <2>3. CASE /\ continuation_buf' =
                  {[sid |-> f.sid, end_stream |-> is_end_stream(f)]}
             /\ UNCHANGED <<streams, handlers>>
    <3>1. /\ \A s : InTable(s)' <=> InTable(s)
          /\ \A s : Running(s)' <=> Running(s)
          /\ \A s : Finished(s)' <=> Finished(s)
          /\ \A s : Pending(s)' => s = f.sid
          /\ TableUnique' /\ RunningUnique' /\ FinishedUnique' /\ PendingUnique'
      BY <1>1, <2>1, <2>3
      DEF Ownership, InTable, Running, Pending, Finished, TableUnique,
          RunningUnique, FinishedUnique, PendingUnique
    <3>2. OwnedOnce(f.sid)'
      BY <1>5, <2>1, <2>2, <3>1 DEF OwnedOnce
    <3>3. Ownership'
      BY <1>1, <2>2, <3>1, <3>2, Moved, Zenon
    <3> QED
      BY <1>1, <2>1, <2>3, <3>3 DEF StreamsBounded
  <2>4. CASE /\ OpenStream(f.sid, is_end_stream(f))
             /\ UNCHANGED continuation_buf
    <3>1. continuation_buf' = {}
      BY <1>5, <2>1, <2>4
    <3>2. Ownership' /\ Len(streams') <= Len(streams) + 1
      BY <1>1, <1>5, <2>1, <2>2, <2>4, <3>1, OpenStreamOwnership
    <3> QED
      BY <1>1, <2>1, <3>1, <3>2 DEF StreamsBounded
  <2> QED
    BY <1>7, <2>3, <2>4 DEF Headers
<1>8. CASE Continuation(f)
  <2>1. UNCHANGED <<last_client_stream_id, chan>>
    BY <1>8 DEF Continuation, output
  <2>2. PICK c \in continuation_buf :
          \/ UNCHANGED <<streams, continuation_buf, handlers>>
          \/ continuation_buf' = {} /\ OpenStream(c.sid, c.end_stream)
    BY <1>8 DEF Continuation
  <2>3. CASE UNCHANGED <<streams, continuation_buf, handlers>>
    BY <1>2, <2>1, <2>3 DEF table
  <2>4. CASE continuation_buf' = {} /\ OpenStream(c.sid, c.end_stream)
    <3>1. c.sid \in Nat /\ Pending(c.sid) /\ continuation_buf # {}
      BY <1>1 DEF TypeOK, Pending
    <3>2. /\ ~InTable(c.sid) /\ ~Running(c.sid) /\ ~Finished(c.sid)
          /\ c.sid <= last_client_stream_id
      BY <1>1, <3>1 DEF Ownership, OwnedOnce
    <3>3. last_client_stream_id <= last_client_stream_id'
      BY <1>1, <2>1 DEF TypeOK
    <3>4. Ownership' /\ Len(streams') <= Len(streams) + 1
      BY <1>1, <2>1, <2>4, <3>1, <3>2, <3>3, OpenStreamOwnership
    <3> QED
      BY <1>1, <2>4, <3>1, <3>4 DEF StreamsBounded
  <2> QED
    BY <2>2, <2>3, <2>4
<1>9. CASE Settings(f)
  <2>1. Job("SettingsAck", 0) \in JobType /\ ~IsFinal(Job("SettingsAck", 0))
    BY JobTypes DEF JobKinds, Job, IsFinal
  <2> QED
    BY <1>1, <1>9, <2>1, SentNoAnswer
    DEF Settings, table, tasks, StreamsBounded
<1>10. CASE Ping(f)
  <2>1. Job("PingAck", 0) \in JobType /\ ~IsFinal(Job("PingAck", 0))
    BY JobTypes DEF JobKinds, Job, IsFinal
  <2>2. CASE Send(Job("PingAck", 0))
    BY <1>1, <1>10, <2>1, <2>2, SentNoAnswer
    DEF Ping, table, tasks, StreamsBounded
  <2>3. CASE UNCHANGED chan
    BY <1>2, <1>10, <2>3 DEF Ping, tasks
  <2> QED
    BY <1>10, <2>2, <2>3 DEF Ping
<1>11. CASE Reset(f)
  <2>1. UNCHANGED <<continuation_buf, last_client_stream_id, handlers, chan>>
    BY <1>11 DEF Reset, tasks, output
  <2>2. CASE UNCHANGED streams
    BY <1>2, <2>1, <2>2 DEF table
  <2>3. ASSUME NEW i \in Position(f.sid), streams' = RemoveAt(streams, i)
        PROVE  Ownership' /\ StreamsBounded'
    <3>1. /\ \A s : InTable(s)' => InTable(s)
          /\ TableUnique'
          /\ Len(streams') = Len(streams) - 1
      BY <1>1, <2>3, RemovedFromTable DEF Ownership
    <3> QED
      BY <1>1, <2>1, <3>1
      DEF Ownership, OwnedOnce, Pending, Running, Finished, PendingUnique,
          RunningUnique, FinishedUnique, StreamsBounded
  <2> QED
    BY <1>11, <2>2, <2>3 DEF Reset
<1>12. CASE RejectFrame(f) \/ GoAway(f) \/ IgnoreFrame(f)
  BY <1>2, <1>12 DEF RejectFrame, GoAway, IgnoreFrame, table, tasks, output
<1> QED
  BY <1>3, <1>4, <1>6, <1>7, <1>8, <1>9, <1>10, <1>11, <1>12 DEF ReceiveFrame

(* The stream ownership discipline is an invariant of the connection.       *)
THEOREM InvHolds == Spec => []Inv
<1>1. Init => Inv
  <2> SUFFICES ASSUME Init
               PROVE  Inv
    OBVIOUS
  <2>1. TypeOK /\ Len(streams) = 0
    BY EmptySeq DEF Init, TypeOK
  <2>2. DOMAIN streams = {} /\ DOMAIN chan = {}
    BY DEF Init
  <2>3. Ownership
    BY <2>2
    DEF Init, Ownership, OwnedOnce, InTable, Pending, Running, Finished,
        TableUnique, PendingUnique, RunningUnique, FinishedUnique
  <2> QED
    BY <2>1, <2>3, BoundsAssumption DEF Init, Inv, StreamsBounded
<1>2. Inv /\ TypeOK' /\ [Next]_vars => Inv'
  <2> SUFFICES ASSUME Inv, TypeOK', [Next]_vars
               PROVE  Ownership' /\ StreamsBounded'
    BY DEF Inv
  <2>1. TypeOK /\ Ownership /\ StreamsBounded
    BY DEF Inv
  <2>2. CASE UNCHANGED <<table, handlers, chan>>
    BY <2>1, <2>2, NotMoved DEF table, StreamsBounded
  <2>3. CASE EndRead
    <3>1. /\ Credit(data_len, stream_data_lens) \in JobType
          /\ ~IsFinal(Credit(data_len, stream_data_lens))
      BY <2>1, JobTypes DEF TypeOK, Credit, IsFinal
    <3>2. CASE Send(Credit(data_len, stream_data_lens))
      BY <2>1, <2>3, <3>1, <3>2, SentNoAnswer
      DEF EndRead, table, tasks, StreamsBounded
    <3>3. CASE UNCHANGED chan
      BY <2>2, <2>3, <3>3 DEF EndRead, tasks
    <3> QED
      BY <2>3, <3>2, <3>3 DEF EndRead
  <2>4. ASSUME NEW f \in Frames, ReceiveFrame(f)
        PROVE  Ownership' /\ StreamsBounded'
    BY <2>4, ReceiveFrameOwnership
  <2>5. ASSUME NEW h \in handlers, handlers' = handlers \ {h},
               Send(Job("Response", h.id)) \/ UNCHANGED chan,
               UNCHANGED table
        PROVE  Ownership' /\ StreamsBounded'
    <3>1. h.id \in Nat /\ Running(h.id)
      BY <2>1 DEF TypeOK, Running
    <3>2. /\ Job("Response", h.id) \in JobType
          /\ Job("Response", h.id).sid = h.id
      BY <3>1, JobTypes DEF JobKinds, Job
    <3>3. /\ ~InTable(h.id) /\ ~Pending(h.id) /\ ~Finished(h.id)
          /\ h.id <= last_client_stream_id
      BY <2>1, <3>1 DEF Ownership, OwnedOnce
    <3>4. /\ \A s : Finished(s)' => Finished(s) \/ s = h.id
          /\ FinishedUnique'
      BY <2>1, <2>5, <3>2, <3>3, SendFinishes
      DEF Ownership, Finished, FinishedUnique
    <3>5. /\ \A s : Running(s)' => Running(s) /\ s # h.id
          /\ RunningUnique'
      BY <2>1, <2>5 DEF Ownership, Running, RunningUnique
    <3>6. /\ \A s : InTable(s)' <=> InTable(s)
          /\ \A s : Pending(s)' <=> Pending(s)
          /\ TableUnique' /\ PendingUnique'
      BY <2>1, <2>5
      DEF Ownership, InTable, Pending, TableUnique, PendingUnique, table
    <3>7. OwnedOnce(h.id)'
      BY <2>5, <3>3, <3>5, <3>6 DEF OwnedOnce, table
    <3>8. last_client_stream_id <= last_client_stream_id'
      BY <2>1, <2>5 DEF TypeOK, table
    <3>9. Ownership'
      BY <2>1, <3>4, <3>5, <3>6, <3>7, <3>8, Moved, Zenon
    <3> QED
      BY <2>1, <2>5, <3>9 DEF StreamsBounded, table
  <2>6. CASE Handshake \/ BeginRead \/ ReadClosed
    BY <2>2, <2>6 DEF Handshake, BeginRead, ReadClosed, tasks, output
  <2>7. CASE WriteJob \/ WriteFails \/ WriterDone
    BY <2>2, <2>7 DEF WriteJob, WriteFails, WriterDone, tasks
  <2>8. CASE UNCHANGED vars
    BY <2>2, <2>8 DEF vars, table
  <2>9. ASSUME NEW h \in handlers, HandlerReplies(h) \/ HandlerFails(h)
        PROVE  Ownership' /\ StreamsBounded'
    BY <2>5, <2>9 DEF HandlerReplies, HandlerFails, output
  <2> QED
    BY <2>3, <2>4, <2>6, <2>7, <2>8, <2>9 DEF Next, HandlerEnds
<1> QED
  BY <1>1, <1>2, TypeCorrect, PTL DEF Spec

(* At most one response or refusal per stream, none while its handler runs, *)
(* and one handler per stream, for any frames the client may send.          *)
THEOREM OneAnswerHolds == Spec => []OneAnswer
<1>1. Inv => OneAnswer
  <2> SUFFICES ASSUME Inv
               PROVE  OneAnswer
    OBVIOUS
  <2>1. ASSUME NEW h \in handlers, NEW i \in DOMAIN chan, IsFinal(chan[i]),
               chan[i].sid = h.id
        PROVE  FALSE
    <3>1. h.id \in Nat /\ Running(h.id) /\ Finished(h.id)
      BY <2>1 DEF Inv, TypeOK, Running, Finished
    <3> QED
      BY <3>1 DEF Inv, Ownership, OwnedOnce
  <2> QED
    BY <2>1 DEF Inv, Ownership, FinishedUnique, RunningUnique, OneAnswer
<1> QED
  BY <1>1, InvHolds, PTL

(* The stream limit, pending header block included.                         *)
THEOREM StreamsBoundedHolds == Spec => []StreamsBounded
<1>1. Inv => StreamsBounded
  BY DEF Inv
<1> QED
  BY <1>1, InvHolds, PTL

-----------------------------------------------------------------------------
(* The places a stream can be in, with one more than Ownership knows: a     *)
(* stream whose handler gave up is nowhere else, and never comes back.      *)

DroppedOnce ==
    \A sid \in dropped :
        /\ sid \in Nat
        /\ sid <= last_client_stream_id
        /\ ~InTable(sid) /\ ~Pending(sid) /\ ~Running(sid) /\ ~Finished(sid)

LifeInv == Inv /\ DroppedOnce

Arriving(sid) == InTable(sid) \/ Pending(sid)

(* A step leaves a stream where it is.                                      *)
Same(sid) ==
    /\ Arriving(sid)' <=> Arriving(sid)
    /\ Running(sid)' <=> Running(sid)
    /\ HasJob("Response", sid)' <=> HasJob("Response", sid)
    /\ HasJob("Reset", sid)' <=> HasJob("Reset", sid)
    /\ sid \in dropped' <=> sid \in dropped

OthersSame(sid) == \A s \in Nat : s # sid => Same(s)

(* What a step can do: nothing to any stream; open one, or end the          *)
(* connection on the frame that would have; hand over or forget one that is *)
(* arriving; end one that runs.                                             *)
Stays == /\ \A s \in Nat : Same(s)
         /\ UNCHANGED last_client_stream_id
         /\ rd \in Ended => rd' \in Ended

Opens(sid) ==
    /\ rd \notin Ended
    /\ sid > last_client_stream_id
    /\ last_client_stream_id' = sid
    /\ OthersSame(sid)
    /\ ~HasJob("Response", sid)'
    /\ sid \notin dropped'
    /\ rd' \in Ended => ~Running(sid)' /\ ~HasJob("Reset", sid)'

Advances(sid) ==
    /\ rd \notin Ended
    /\ Arriving(sid) /\ ~Arriving(sid)'
    /\ UNCHANGED <<last_client_stream_id, chan, dropped>>
    /\ OthersSame(sid)
    /\ rd' \in Ended => ~Running(sid)'

Finishes(sid) ==
    /\ Running(sid) /\ ~Running(sid)'
    /\ Arriving(sid)' <=> Arriving(sid)
    /\ UNCHANGED <<rd, last_client_stream_id>>
    /\ ~HasJob("Reset", sid)'
    /\ sid \in dropped' => ~Finished(sid)'
    /\ OthersSame(sid)

LEMMA FinishedJobs ==
    ASSUME NEW sid
    PROVE  Finished(sid) <=> HasJob("Response", sid) \/ HasJob("Reset", sid)
BY DEF Finished, HasJob, IsFinal

(* The channel after a send: the new job, if there is still a receiver.     *)
LEMMA SendJobs ==
    ASSUME TypeOK, NEW job \in JobType, Send(job), NEW kind, NEW sid,
           job.kind # kind \/ job.sid # sid
    PROVE  HasJob(kind, sid)' <=> HasJob(kind, sid)
<1>1. CASE chan' = chan
  BY <1>1 DEF HasJob
<1>2. CASE chan' = Append(chan, job)
  <2>1. /\ Len(chan) \in Nat
        /\ DOMAIN chan = 1 .. Len(chan)
        /\ DOMAIN chan' = 1 .. Len(chan) + 1
        /\ \A i \in 1 .. Len(chan) : chan'[i] = chan[i]
        /\ chan'[Len(chan) + 1] = job
    BY <1>2, AppendProperties, LenProperties DEF TypeOK
  <2>2. ASSUME NEW i \in DOMAIN chan'
        PROVE  \/ i \in DOMAIN chan /\ chan'[i] = chan[i]
               \/ i = Len(chan) + 1 /\ chan'[i] = job
    BY <2>1
  <2>3. \A i \in DOMAIN chan : i \in DOMAIN chan' /\ chan'[i] = chan[i]
    BY <2>1
  <2> QED
    BY <2>2, <2>3 DEF HasJob
<1> QED
  BY <1>1, <1>2 DEF Send

(* A removal takes away one stream and no other.                            *)
LEMMA RemovedOne ==
    ASSUME TypeOK, TableUnique, NEW sid, NEW i \in Position(sid),
           streams' = RemoveAt(streams, i)
    PROVE  /\ InTable(sid) /\ ~InTable(sid)'
           /\ \A s : s # sid => (InTable(s)' <=> InTable(s))
<1>1. /\ i \in DOMAIN streams /\ streams[i].id = sid
      /\ DOMAIN streams = 1 .. Len(streams) /\ Len(streams) \in Nat
  BY PositionType, LenProperties DEF TypeOK
<1>2. /\ DOMAIN streams' = 1 .. Len(streams) - 1
      /\ \A j \in 1 .. Len(streams) - 1 :
           streams'[j] = IF j < i THEN streams[j] ELSE streams[j + 1]
  <2> DEFINE Entry == [id : Nat, data : Fragments]
  <2>1. streams \in Seq(Entry)
    BY DEF TypeOK
  <2> HIDE DEF Entry
  <2>2. /\ streams' \in Seq(Entry)
        /\ Len(streams') = Len(streams) - 1
        /\ \A j \in 1 .. Len(streams) - 1 :
             streams'[j] = IF j < i THEN streams[j] ELSE streams[j + 1]
    BY <1>1, <2>1, RemoveAtProperties
  <2> QED
    BY <2>2, LenProperties
<1>3. \A s : InTable(s)' => InTable(s) /\ s # sid
  BY RemovedFromTable
<1>4. ASSUME NEW s, s # sid, NEW j \in DOMAIN streams, streams[j].id = s
      PROVE  InTable(s)'
  <2>1. CASE j < i
    <3>1. j \in DOMAIN streams' /\ streams'[j] = streams[j]
      BY <1>1, <1>2, <2>1
    <3> QED
      BY <1>4, <3>1 DEF InTable
  <2>2. CASE j > i
    <3>1. j - 1 \in DOMAIN streams' /\ streams'[j - 1] = streams[j]
      BY <1>1, <1>2, <2>2
    <3> QED
      BY <1>4, <3>1 DEF InTable
  <2> QED
    BY <1>1, <1>4, <2>1, <2>2
<1>5. ASSUME NEW s, s # sid, InTable(s)
      PROVE  InTable(s)'
  BY <1>4, <1>5 DEF InTable
<1> QED
  BY <1>1, <1>3, <1>5 DEF InTable

LEMMA GrownSame ==
    ASSUME TypeOK, NEW i \in DOMAIN streams, NEW data,
           streams' = [streams EXCEPT ![i].data = data]
    PROVE  \A s : InTable(s)' <=> InTable(s)
<1>1. \A j \in DOMAIN streams : streams[j] \in [id : Nat, data : Fragments]
  BY ElementOfSeq, LenProperties DEF TypeOK
<1>2. /\ DOMAIN streams' = DOMAIN streams
      /\ \A j \in DOMAIN streams : streams'[j].id = streams[j].id
  BY <1>1
<1> QED
  BY <1>2 DEF InTable

-----------------------------------------------------------------------------
(* What each step does to the streams                                       *)

LEMMA QuietStays ==
    ASSUME UNCHANGED <<table, tasks, chan>>, rd \in Ended => rd' \in Ended
    PROVE  Stays
BY DEF Stays, Same, Arriving, InTable, Pending, Running, HasJob, table, tasks

LEMMA SendStays ==
    ASSUME TypeOK, NEW job \in JobType, ~IsFinal(job), Send(job),
           UNCHANGED <<table, tasks>>, rd \in Ended => rd' \in Ended
    PROVE  Stays
<1>1. \A s \in Nat : /\ HasJob("Response", s)' <=> HasJob("Response", s)
                     /\ HasJob("Reset", s)' <=> HasJob("Reset", s)
  BY SendJobs DEF IsFinal
<1> QED
  BY <1>1
  DEF Stays, Same, Arriving, InTable, Pending, Running, table, tasks

(* A request leaves `streams` for its handler, or with the connection.      *)
LEMMA DataEffect ==
    ASSUME Inv, NEW f \in Frames, NEW n \in Nat, rd = "busy", ReceiveData(f, n)
    PROVE  Stays \/ Advances(f.sid)
<1>1. /\ TypeOK /\ Ownership /\ f.sid \in Nat
      /\ UNCHANGED <<continuation_buf, last_client_stream_id, dropped, chan>>
      /\ rd \notin Ended
  BY FrameFields DEF Inv, ReceiveData, output, Ended
<1>2. \A s : /\ Pending(s)' <=> Pending(s)
             /\ HasJob("Response", s)' <=> HasJob("Response", s)
             /\ HasJob("Reset", s)' <=> HasJob("Reset", s)
             /\ s \in dropped' <=> s \in dropped
  BY <1>1 DEF Pending, HasJob
<1>3. CASE UNCHANGED <<streams, handlers>>
  BY <1>1, <1>2, <1>3 DEF Stays, Same, Arriving, InTable, Running
<1>4. ASSUME NEW i \in Position(f.sid), NEW data,
             streams' = [streams EXCEPT ![i].data = data], UNCHANGED handlers
      PROVE  Stays
  <2>1. \A s : InTable(s)' <=> InTable(s)
    BY <1>1, <1>4, PositionType, GrownSame
  <2> QED
    BY <1>1, <1>2, <1>4, <2>1 DEF Stays, Same, Arriving, Running
<1>5. ASSUME NEW i \in Position(f.sid), NEW data,
             streams' = RemoveAt(streams, i),
             \/ Spawn(f.sid, data) /\ UNCHANGED rd
             \/ rd' = "returned" /\ UNCHANGED handlers
      PROVE  Advances(f.sid)
  <2>1. /\ InTable(f.sid) /\ ~InTable(f.sid)'
        /\ \A s : s # f.sid => (InTable(s)' <=> InTable(s))
    BY <1>1, <1>5, RemovedOne DEF Ownership
  <2>2. ~Pending(f.sid) /\ ~Running(f.sid)
    BY <1>1, <2>1 DEF Ownership, OwnedOnce
  <2>3. \A s : s # f.sid => (Running(s)' <=> Running(s))
    BY <1>5 DEF Running, Spawn
  <2>4. rd' \in Ended => ~Running(f.sid)'
    BY <1>1, <1>5, <2>2 DEF Running
  <2> QED
    BY <1>1, <1>2, <2>1, <2>2, <2>3, <2>4
    DEF Advances, OthersSame, Same, Arriving
<1> QED
  BY <1>3, <1>4, <1>5 DEF ReceiveData

(* The outcomes of a complete header block.                                 *)
LEMMA OpenStreamEffect ==
    ASSUME TypeOK, NEW sid \in Nat, NEW end_stream,
           ~InTable(sid), ~Running(sid), rd \notin Ended,
           OpenStream(sid, end_stream)
    PROVE  /\ \A s : s # sid => /\ InTable(s)' <=> InTable(s)
                                /\ Running(s)' <=> Running(s)
           /\ rd' \in Ended => ~InTable(sid)' /\ ~Running(sid)'
           /\ InTable(sid)' => ~Running(sid)'
<1>1. CASE UNCHANGED <<streams, handlers>>
  BY <1>1 DEF InTable, Running
<1>2. CASE Spawn(sid, <<>>) /\ UNCHANGED <<rd, streams>>
  BY <1>2 DEF InTable, Running, Spawn
<1>3. CASE /\ streams' = Append(streams, [id |-> sid, data |-> <<>>])
           /\ UNCHANGED <<rd, handlers>>
  <2>1. /\ Len(streams) \in Nat
        /\ DOMAIN streams = 1 .. Len(streams)
        /\ DOMAIN streams' = 1 .. Len(streams) + 1
        /\ \A i \in 1 .. Len(streams) : streams'[i] = streams[i]
        /\ streams'[Len(streams) + 1].id = sid
    <3>1. [id |-> sid, data |-> <<>>] \in [id : Nat, data : Fragments]
      BY EmptySeq DEF Fragments
    <3> QED
      BY <1>3, <3>1, AppendProperties, LenProperties DEF TypeOK
  <2>2. \A s : s # sid => (InTable(s)' <=> InTable(s))
    <3>1. ASSUME NEW i \in DOMAIN streams'
          PROVE  \/ i \in DOMAIN streams /\ streams'[i] = streams[i]
                 \/ streams'[i].id = sid
      BY <2>1
    <3>2. \A i \in DOMAIN streams : i \in DOMAIN streams' /\ streams'[i] = streams[i]
      BY <2>1
    <3> QED
      BY <3>1, <3>2 DEF InTable
  <2> QED
    BY <1>3, <2>2 DEF Running
<1> QED
  BY <1>1, <1>2, <1>3 DEF OpenStream

(* A stream that is not yet open is nowhere.                                *)
LEMMA NotYetOpen ==
    ASSUME LifeInv, NEW s \in Nat, s > last_client_stream_id
    PROVE  /\ ~InTable(s) /\ ~Pending(s) /\ ~Running(s) /\ s \notin dropped
           /\ ~HasJob("Response", s) /\ ~HasJob("Reset", s)
<1>1. ~(s <= last_client_stream_id)
  BY DEF LifeInv, Inv, TypeOK
<1>2. ~InTable(s) /\ ~Pending(s) /\ ~Running(s) /\ ~Finished(s)
  BY <1>1 DEF LifeInv, Inv, Ownership, OwnedOnce
<1>3. s \notin dropped
  BY <1>1 DEF LifeInv, DroppedOnce
<1> QED
  BY <1>2, <1>3, FinishedJobs

LEMMA HeadersEffect ==
    ASSUME LifeInv, NEW f \in Frames, Headers(f) \/ HeadersRefused(f)
    PROVE  Opens(f.sid)
<1>1. /\ Process(f, "Headers") /\ rd = "busy" /\ rd \notin Ended
      /\ last_client_stream_id' = f.sid /\ f.sid \in Nat
      /\ UNCHANGED dropped
  BY FrameFields DEF Headers, HeadersRefused, Process, Receive, tasks, Ended
<1>2. TypeOK /\ f.sid > last_client_stream_id /\ continuation_buf = {}
  BY <1>1
  DEF LifeInv, Inv, Process, Accepted, ContentRule, NewStreamId,
      ContinuationGate
<1>3. /\ ~InTable(f.sid) /\ ~Running(f.sid) /\ f.sid \notin dropped
      /\ ~HasJob("Response", f.sid) /\ ~HasJob("Reset", f.sid)
  BY <1>1, <1>2, NotYetOpen
<1>4. ~Pending(f.sid) /\ \A s : ~Pending(s)
  BY <1>2 DEF Pending
<1>5. CASE HeadersRefused(f)
  <2>1. /\ Job("Reset", f.sid) \in JobType
        /\ Job("Reset", f.sid).sid = f.sid
        /\ Job("Reset", f.sid).kind = "Reset"
        /\ Send(Job("Reset", f.sid))
        /\ UNCHANGED <<rd, streams, continuation_buf, handlers>>
    BY <1>1, <1>5, JobTypes DEF JobKinds, Job, HeadersRefused, tasks
  <2>2. /\ \A s : s # f.sid => /\ HasJob("Response", s)' <=> HasJob("Response", s)
                               /\ HasJob("Reset", s)' <=> HasJob("Reset", s)
        /\ HasJob("Response", f.sid)' <=> HasJob("Response", f.sid)
    BY <1>2, <2>1, SendJobs
  <2> QED
    BY <1>1, <1>2, <1>3, <2>1, <2>2
    DEF Opens, OthersSame, Same, Arriving, InTable, Pending, Running
<1>6. CASE Headers(f)
  <2>1. UNCHANGED chan
    BY <1>6 DEF Headers, output
  <2>2. \A s : /\ HasJob("Response", s)' <=> HasJob("Response", s)
               /\ HasJob("Reset", s)' <=> HasJob("Reset", s)
    BY <2>1 DEF HasJob
  <2>3. CASE /\ continuation_buf' =
                  {[sid |-> f.sid, end_stream |-> is_end_stream(f)]}
             /\ UNCHANGED <<rd, streams, handlers>>
    <3>1. \A s : s # f.sid => ~Pending(s)'
      BY <2>3 DEF Pending
    <3> QED
      BY <1>1, <1>2, <1>3, <1>4, <2>2, <2>3, <3>1
      DEF Opens, OthersSame, Same, Arriving, InTable, Running
  <2>4. CASE /\ OpenStream(f.sid, is_end_stream(f))
             /\ UNCHANGED continuation_buf
    <3>1. \A s : ~Pending(s)'
      BY <1>2, <2>4 DEF Pending
    <3>2. /\ \A s : s # f.sid => /\ InTable(s)' <=> InTable(s)
                                 /\ Running(s)' <=> Running(s)
          /\ rd' \in Ended => ~Running(f.sid)'
      BY <1>1, <1>2, <1>3, <2>4, OpenStreamEffect
    <3> QED
      BY <1>1, <1>2, <1>3, <1>4, <2>2, <3>1, <3>2
      DEF Opens, OthersSame, Same, Arriving
  <2> QED
    BY <1>6, <2>3, <2>4 DEF Headers
<1> QED
  BY <1>5, <1>6

LEMMA ContinuationEffect ==
    ASSUME LifeInv, NEW f \in Frames, Continuation(f)
    PROVE  Stays \/ Advances(f.sid)
<1>1. /\ rd = "busy" /\ rd \notin Ended /\ TypeOK /\ Ownership
      /\ UNCHANGED <<last_client_stream_id, dropped, chan>>
      /\ Process(f, "Continuation")
  BY DEF Continuation, Process, Receive, output, Ended, LifeInv, Inv
<1>2. PICK c \in continuation_buf :
        \/ UNCHANGED <<rd, streams, continuation_buf, handlers>>
        \/ continuation_buf' = {} /\ OpenStream(c.sid, c.end_stream)
  BY DEF Continuation
<1>3. c.sid = f.sid /\ c.sid \in Nat /\ Pending(f.sid)
  BY <1>1 DEF Process, Accepted, ContinuationGate, TypeOK, Pending
<1>4. CASE UNCHANGED <<rd, streams, continuation_buf, handlers>>
  BY <1>1, <1>4, QuietStays DEF table, tasks
<1>5. CASE continuation_buf' = {} /\ OpenStream(c.sid, c.end_stream)
  <2>1. ~InTable(f.sid) /\ ~Running(f.sid)
    BY <1>1, <1>3 DEF Ownership, OwnedOnce
  <2>2. /\ \A s : s # f.sid => /\ InTable(s)' <=> InTable(s)
                               /\ Running(s)' <=> Running(s)
        /\ rd' \in Ended => ~InTable(f.sid)' /\ ~Running(f.sid)'
        /\ InTable(f.sid)' => ~Running(f.sid)'
    BY <1>1, <1>3, <1>5, <2>1, OpenStreamEffect
  <2>3. /\ \A s : ~Pending(s)'
        /\ \A s : s # f.sid => ~Pending(s)
    BY <1>1, <1>3, <1>5 DEF Ownership, PendingUnique, Pending
  <2>4. \A s : /\ HasJob("Response", s)' <=> HasJob("Response", s)
               /\ HasJob("Reset", s)' <=> HasJob("Reset", s)
    BY <1>1 DEF HasJob
  <2>5. CASE InTable(f.sid)'
    <3>1. \A s : Arriving(s)' <=> Arriving(s)
      BY <1>3, <2>2, <2>3, <2>5 DEF Arriving
    <3>2. \A s : Running(s)' <=> Running(s)
      BY <2>1, <2>2, <2>5
    <3> QED
      BY <1>1, <2>4, <3>1, <3>2 DEF Stays, Same
  <2>6. CASE ~InTable(f.sid)'
    BY <1>1, <1>3, <2>1, <2>2, <2>3, <2>4, <2>6
    DEF Advances, OthersSame, Same, Arriving
  <2> QED
    BY <2>5, <2>6
<1> QED
  BY <1>2, <1>4, <1>5

LEMMA ResetEffect ==
    ASSUME LifeInv, NEW f \in Frames, Reset(f)
    PROVE  Stays \/ Advances(f.sid)
<1>1. /\ rd = "busy" /\ rd \notin Ended /\ TypeOK /\ Ownership
      /\ UNCHANGED <<rd, continuation_buf, last_client_stream_id, dropped,
                     handlers, chan>>
      /\ f.sid \in Nat
  BY FrameFields
  DEF Reset, Process, Receive, output, tasks, Ended, LifeInv, Inv
<1>2. CASE UNCHANGED streams
  BY <1>1, <1>2, QuietStays DEF table, tasks
<1>3. ASSUME NEW i \in Position(f.sid), streams' = RemoveAt(streams, i)
      PROVE  Advances(f.sid)
  <2>1. /\ InTable(f.sid) /\ ~InTable(f.sid)'
        /\ \A s : s # f.sid => (InTable(s)' <=> InTable(s))
    BY <1>1, <1>3, RemovedOne DEF Ownership
  <2>2. ~Pending(f.sid) /\ ~Running(f.sid)
    BY <1>1, <2>1 DEF Ownership, OwnedOnce
  <2> QED
    BY <1>1, <2>1, <2>2
    DEF Advances, OthersSame, Same, Arriving, Pending, Running, HasJob
<1> QED
  BY <1>2, <1>3 DEF Reset

LEMMA ReceiveFrameEffect ==
    ASSUME LifeInv, NEW f \in Frames, ReceiveFrame(f)
    PROVE  Stays \/ Opens(f.sid) \/ Advances(f.sid)
<1>1. Inv /\ TypeOK
  BY DEF LifeInv, Inv
<1>2. CASE FastData(f)
  BY <1>1, <1>2, FrameFields, DataEffect DEF FastData, Receive
<1>3. CASE Data(f)
  <2>1. Stripped(f) \in Nat
    BY <1>3, FrameFields
    DEF Data, Process, Accepted, ContentRule, PaddingOk, Stripped
  <2> QED
    BY <1>1, <1>3, <2>1, DataEffect DEF Data, Process, Receive
<1>4. CASE Headers(f) \/ HeadersRefused(f)
  BY <1>4, HeadersEffect
<1>5. CASE Continuation(f)
  BY <1>5, ContinuationEffect
<1>6. CASE Reset(f)
  BY <1>6, ResetEffect
<1>7. CASE Settings(f)
  <2>1. Job("SettingsAck", 0) \in JobType /\ ~IsFinal(Job("SettingsAck", 0))
    BY JobTypes DEF JobKinds, Job, IsFinal
  <2> QED
    BY <1>1, <1>7, <2>1, SendStays DEF Settings
<1>8. CASE Ping(f)
  <2>1. Job("PingAck", 0) \in JobType /\ ~IsFinal(Job("PingAck", 0))
    BY JobTypes DEF JobKinds, Job, IsFinal
  <2>2. rd = "busy" /\ rd \notin Ended /\ UNCHANGED <<table, tasks>>
    BY <1>8 DEF Ping, Process, Receive, Ended
  <2>3. CASE Send(Job("PingAck", 0))
    BY <1>1, <2>1, <2>2, <2>3, SendStays
  <2>4. CASE UNCHANGED chan
    BY <2>2, <2>4, QuietStays
  <2> QED
    BY <1>8, <2>3, <2>4 DEF Ping
<1>9. CASE RejectFrame(f) \/ GoAway(f) \/ IgnoreFrame(f)
  <2>1. UNCHANGED <<table, tasks, chan>> /\ rd = "busy" /\ rd \notin Ended
    BY <1>9 DEF RejectFrame, GoAway, IgnoreFrame, Process, Receive, output, Ended
  <2> QED
    BY <2>1, QuietStays
<1> QED
  BY <1>2, <1>3, <1>4, <1>5, <1>6, <1>7, <1>8, <1>9 DEF ReceiveFrame

(* A handler that ends answers its stream, or drops it.                     *)
LEMMA HandlerEffect ==
    ASSUME LifeInv, NEW h \in handlers, HandlerReplies(h) \/ HandlerFails(h)
    PROVE  Finishes(h.id)
<1>1. /\ TypeOK /\ Ownership /\ h.id \in Nat /\ Running(h.id)
      /\ handlers' = handlers \ {h}
      /\ UNCHANGED <<rd, streams, continuation_buf, last_client_stream_id>>
  BY DEF LifeInv, Inv, TypeOK, Running, HandlerReplies, HandlerFails, table
<1>2. ~Finished(h.id) /\ ~HasJob("Response", h.id) /\ ~HasJob("Reset", h.id)
  BY <1>1, FinishedJobs DEF Ownership, OwnedOnce
<1>3. /\ ~Running(h.id)'
      /\ \A s : s # h.id => (Running(s)' <=> Running(s))
  BY <1>1 DEF Ownership, RunningUnique, Running
<1>4. h.id \notin dropped
  BY <1>1 DEF LifeInv, DroppedOnce
<1>5. CASE HandlerReplies(h)
  <2>1. /\ Job("Response", h.id) \in JobType
        /\ Job("Response", h.id).sid = h.id
        /\ Job("Response", h.id).kind = "Response"
        /\ Send(Job("Response", h.id))
        /\ UNCHANGED dropped
    BY <1>1, <1>5, JobTypes DEF JobKinds, Job, HandlerReplies
  <2>2. /\ \A s : s # h.id => /\ HasJob("Response", s)' <=> HasJob("Response", s)
                              /\ HasJob("Reset", s)' <=> HasJob("Reset", s)
        /\ HasJob("Reset", h.id)' <=> HasJob("Reset", h.id)
    BY <1>1, <2>1, SendJobs
  <2> QED
    BY <1>1, <1>2, <1>3, <1>4, <2>1, <2>2
    DEF Finishes, OthersSame, Same, Arriving, InTable, Pending
<1>6. CASE HandlerFails(h)
  <2>1. UNCHANGED chan /\ dropped' = dropped \cup {h.id}
    BY <1>6 DEF HandlerFails, output
  <2> QED
    BY <1>1, <1>2, <1>3, <2>1
    DEF Finishes, OthersSame, Same, Arriving, InTable, Pending, HasJob, Finished
<1> QED
  BY <1>5, <1>6

(* Every step of the connection is one of the four.                         *)
LEMMA StepEffect ==
    ASSUME LifeInv, [Next]_vars
    PROVE  \/ Stays
           \/ \E sid \in StreamIds : Opens(sid) \/ Advances(sid) \/ Finishes(sid)
<1>1. TypeOK
  BY DEF LifeInv, Inv
<1>2. ASSUME NEW f \in Frames, ReceiveFrame(f)
      PROVE  Stays \/ \E sid \in StreamIds : Opens(sid) \/ Advances(sid)
  BY <1>2, ReceiveFrameEffect DEF StreamIds
<1>3. ASSUME NEW sid \in StreamIds, HandlerEnds(sid)
      PROVE  \E s \in StreamIds : Finishes(s)
  BY <1>3, HandlerEffect DEF HandlerEnds
<1>4. CASE EndRead
  <2>1. UNCHANGED <<table, tasks>> /\ rd \notin Ended
    BY <1>4 DEF EndRead, Ended
  <2>2. CASE UNCHANGED chan
    BY <2>1, <2>2, QuietStays
  <2>3. CASE Send(Credit(data_len, stream_data_lens))
    <3>1. /\ Credit(data_len, stream_data_lens) \in JobType
          /\ ~IsFinal(Credit(data_len, stream_data_lens))
      BY <1>1, JobTypes DEF TypeOK, Credit, IsFinal
    <3> QED
      BY <1>1, <2>1, <2>3, <3>1, SendStays
  <2> QED
    BY <1>4, <2>2, <2>3 DEF EndRead
<1>5. CASE Handshake \/ BeginRead \/ ReadClosed
  <2>1. UNCHANGED <<table, tasks, chan>> /\ rd \notin Ended
    BY <1>5 DEF Handshake, BeginRead, ReadClosed, output, Ended
  <2> QED
    BY <2>1, QuietStays
<1>6. CASE WriteJob \/ WriteFails \/ WriterDone \/ UNCHANGED vars
  <2>1. UNCHANGED <<rd, table, tasks, chan>>
    BY <1>6 DEF WriteJob, WriteFails, WriterDone, vars, table, tasks
  <2> QED
    BY <2>1, QuietStays
<1> QED
  BY <1>2, <1>3, <1>4, <1>5, <1>6 DEF Next

-----------------------------------------------------------------------------
(* A stream that was dropped stays where it is                              *)

LEMMA DroppedStep ==
    ASSUME LifeInv, Inv', [Next]_vars
    PROVE  DroppedOnce'
<1> SUFFICES ASSUME NEW s \in dropped'
             PROVE  /\ s \in Nat
                    /\ s <= last_client_stream_id'
                    /\ ~Arriving(s)' /\ ~Running(s)' /\ ~Finished(s)'
  BY DEF DroppedOnce, Arriving
<1>1. /\ s \in Nat
      /\ last_client_stream_id \in Nat /\ last_client_stream_id' \in Nat
      /\ StreamIds \subseteq Nat /\ Ownership
  BY FrameFields DEF Inv, LifeInv, TypeOK, StreamIds
<1>2. ASSUME Same(s), last_client_stream_id <= last_client_stream_id'
      PROVE  /\ s <= last_client_stream_id'
             /\ ~Arriving(s)' /\ ~Running(s)' /\ ~Finished(s)'
  <2>1. /\ s \in dropped /\ s <= last_client_stream_id
        /\ ~Arriving(s) /\ ~Running(s) /\ ~Finished(s)
    BY <1>2 DEF Same, LifeInv, DroppedOnce, Arriving
  <2>2. Finished(s)' <=> HasJob("Response", s)' \/ HasJob("Reset", s)'
    BY DEF Finished, HasJob, IsFinal
  <2> QED
    BY <1>1, <1>2, <2>1, <2>2, FinishedJobs DEF Same
<1>3. CASE Stays
  BY <1>1, <1>2, <1>3 DEF Stays
<1>4. ASSUME NEW sid \in StreamIds, Opens(sid)
      PROVE  s # sid /\ Same(s) /\ last_client_stream_id <= last_client_stream_id'
  BY <1>1, <1>4 DEF Opens, OthersSame
<1>5. ASSUME NEW sid \in StreamIds, Advances(sid)
      PROVE  Same(s) /\ last_client_stream_id <= last_client_stream_id'
  <2>1. s # sid
    BY <1>5 DEF Advances, LifeInv, DroppedOnce, Arriving
  <2> QED
    BY <1>1, <1>5, <2>1 DEF Advances, OthersSame
<1>6. ASSUME NEW sid \in StreamIds, Finishes(sid)
      PROVE  /\ s <= last_client_stream_id'
             /\ ~Arriving(s)' /\ ~Running(s)' /\ ~Finished(s)'
  <2>1. CASE s = sid
    BY <1>1, <1>6, <2>1 DEF Finishes, Ownership, OwnedOnce, Arriving
  <2>2. CASE s # sid
    BY <1>1, <1>2, <1>6, <2>2 DEF Finishes, OthersSame
  <2> QED
    BY <2>1, <2>2
<1> QED
  BY <1>1, <1>2, <1>3, <1>4, <1>5, <1>6, StepEffect

LEMMA LifeInvHolds == Spec => []LifeInv
<1>1. Init => DroppedOnce
  BY DEF Init, DroppedOnce
<1>2. Inv /\ Inv' /\ DroppedOnce /\ [Next]_vars => DroppedOnce'
  BY DroppedStep DEF LifeInv
<1>3. Inv /\ DroppedOnce => LifeInv
  BY DEF LifeInv
<1> QED
  BY <1>1, <1>2, <1>3, InvHolds, PTL DEF Spec

-----------------------------------------------------------------------------
(* The refinement                                                           *)

LEMMA LifeCases ==
    ASSUME NEW s \in Nat
    PROVE  LifeOf(s) =
             IF s > last_client_stream_id THEN "idle"
             ELSE IF HasJob("Response", s) THEN "answered"
             ELSE IF HasJob("Reset", s) THEN "refused"
             ELSE IF s \in dropped THEN "dropped"
             ELSE IF Running(s) THEN "running"
             ELSE IF Arriving(s) /\ rd \notin Ended THEN "receiving"
             ELSE "over"
BY DEF LifeOf, Running, Arriving, InTable, Pending, IsReceived

LEMMA LifeCasesNext ==
    ASSUME NEW s \in Nat
    PROVE  LifeOf(s)' =
             IF s > last_client_stream_id' THEN "idle"
             ELSE IF HasJob("Response", s)' THEN "answered"
             ELSE IF HasJob("Reset", s)' THEN "refused"
             ELSE IF s \in dropped' THEN "dropped"
             ELSE IF Running(s)' THEN "running"
             ELSE IF Arriving(s)' /\ rd' \notin Ended THEN "receiving"
             ELSE "over"
BY DEF LifeOf, Running, Arriving, InTable, Pending, IsReceived

(* A stream that the step leaves where it is lives on, unless the step      *)
(* skips it or ends the connection.                                         *)
LEMMA SameLife ==
    ASSUME LifeInv, LifeInv', NEW s \in Nat, Same(s),
           last_client_stream_id <= last_client_stream_id',
           rd \in Ended => rd' \in Ended
    PROVE  LifeOf(s)' =
             IF s <= last_client_stream_id' /\ LifeOf(s) = "idle" THEN "over"
             ELSE IF rd' \in Ended /\ LifeOf(s) = "receiving" THEN "over"
             ELSE LifeOf(s)
<1>1. last_client_stream_id \in Nat /\ last_client_stream_id' \in Nat
  BY DEF LifeInv, Inv, TypeOK
<1>2. CASE s > last_client_stream_id
  <2>1. /\ ~Arriving(s) /\ ~Running(s) /\ s \notin dropped
        /\ ~HasJob("Response", s) /\ ~HasJob("Reset", s)
    BY <1>2, NotYetOpen DEF Arriving
  <2> QED
    BY <1>1, <1>2, <2>1, LifeCases, LifeCasesNext DEF Same
<1>3. CASE ~(s > last_client_stream_id)
  BY <1>1, <1>3, LifeCases, LifeCasesNext DEF Same
<1> QED
  BY <1>2, <1>3

LEMMA LifeStep ==
    ASSUME LifeInv, LifeInv', [Next]_vars
    PROVE  [Lives!Next]_(Lives!vars)
<1>1. /\ StreamIds \subseteq Nat
      /\ last_client_stream_id \in Nat /\ last_client_stream_id' \in Nat
      /\ Ownership /\ Ownership'
  BY FrameFields DEF LifeInv, Inv, TypeOK, StreamIds
<1> DEFINE Streams == StreamIds \ {0}
           life == [s \in Streams |-> LifeOf(s)]
<1>2. CASE Stays
  <2>1. \A s \in Streams : LifeOf(s)' =
             IF rd' \in Ended /\ LifeOf(s) = "receiving" THEN "over" ELSE LifeOf(s)
    <3> SUFFICES ASSUME NEW s \in Streams
                 PROVE  LifeOf(s)' = IF rd' \in Ended /\ LifeOf(s) = "receiving"
                                       THEN "over" ELSE LifeOf(s)
      OBVIOUS
    <3>1. s \in Nat /\ Same(s) /\ last_client_stream_id' = last_client_stream_id
      BY <1>1, <1>2 DEF Stays
    <3>2. LifeOf(s) = "idle" => s > last_client_stream_id
      BY <3>1, LifeCases
    <3> QED
      BY <1>1, <1>2, <3>1, <3>2, SameLife DEF Stays
  <2>2. rd \in Ended => rd' \in Ended /\ \A s \in Streams : LifeOf(s) # "receiving"
    BY <1>1, <1>2, LifeCases DEF Stays
  <2>3. CASE (rd' \in Ended) <=> (rd \in Ended)
    BY <2>1, <2>2, <2>3 DEF Lives!vars
  <2>4. CASE rd \notin Ended /\ rd' \in Ended
    BY <2>1, <2>4 DEF Lives!Next, Lives!Close, Lives!Receiving
  <2> QED
    BY <2>2, <2>3, <2>4
<1>3. ASSUME NEW sid \in StreamIds, Opens(sid)
      PROVE  Lives!Next
  <2>1. /\ sid \in Streams /\ sid \in Nat /\ sid > last_client_stream_id
        /\ last_client_stream_id' = sid
        /\ rd \notin Ended
    BY <1>1, <1>3 DEF Opens
  <2>2. \A s \in Streams : s # sid =>
          LifeOf(s)' = IF s < sid /\ LifeOf(s) = "idle" THEN "over"
                       ELSE IF rd' \in Ended /\ LifeOf(s) = "receiving" THEN "over"
                       ELSE LifeOf(s)
    <3> SUFFICES ASSUME NEW s \in Streams, s # sid
                 PROVE  LifeOf(s)' =
                          IF s < sid /\ LifeOf(s) = "idle" THEN "over"
                          ELSE IF rd' \in Ended /\ LifeOf(s) = "receiving" THEN "over"
                          ELSE LifeOf(s)
      OBVIOUS
    <3>1. s \in Nat /\ Same(s) /\ (s < sid <=> s <= last_client_stream_id')
      BY <1>1, <1>3, <2>1 DEF Opens, OthersSame
    <3> QED
      BY <1>1, <2>1, <3>1, SameLife
  <2>3. LifeOf(sid) = "idle"
    BY <2>1, LifeCases
  <2>4. /\ LifeOf(sid)' \in {"receiving", "running", "refused", "over"}
        /\ rd' \in Ended => LifeOf(sid)' = "over"
    BY <1>1, <1>3, <2>1, LifeCasesNext DEF Opens
  <2>5. CASE rd' \notin Ended
    <3>1. Lives!Become(Lives!Skipped(sid), sid, LifeOf(sid)')
      BY <2>1, <2>2, <2>5 DEF Lives!Become, Lives!Skipped
    <3>2. (rd' \in Ended) = (rd \in Ended)
      BY <2>1, <2>5
    <3>3. life[sid] = "idle"
      BY <2>1, <2>3
    <3>4. Lives!Open(sid)
      BY <2>1, <2>4, <3>1, <3>2, <3>3, Zenon DEF Lives!Open
    <3> QED
      BY <2>1, <3>4 DEF Lives!Next
  <2>6. CASE rd' \in Ended
    <3>1. Lives!Close
      BY <2>1, <2>2, <2>3, <2>4, <2>6
      DEF Lives!Close, Lives!Become, Lives!Skipped, Lives!Receiving
    <3> QED
      BY <3>1 DEF Lives!Next
  <2> QED
    BY <2>5, <2>6
<1>4. ASSUME NEW sid \in StreamIds, Advances(sid)
      PROVE  [Lives!Next]_(Lives!vars)
  <2>1. /\ sid \in Nat
        /\ last_client_stream_id' = last_client_stream_id
        /\ rd \notin Ended
        /\ Arriving(sid) /\ ~Running(sid) /\ ~Finished(sid)
        /\ sid \notin dropped /\ sid <= last_client_stream_id
    BY <1>1, <1>4
    DEF Advances, Arriving, Ownership, OwnedOnce, LifeInv, DroppedOnce
  <2>2. \A s \in Streams : s # sid =>
          LifeOf(s)' = IF rd' \in Ended /\ LifeOf(s) = "receiving" THEN "over"
                       ELSE LifeOf(s)
    <3> SUFFICES ASSUME NEW s \in Streams, s # sid
                 PROVE  LifeOf(s)' =
                          IF rd' \in Ended /\ LifeOf(s) = "receiving" THEN "over"
                          ELSE LifeOf(s)
      OBVIOUS
    <3>1. s \in Nat /\ Same(s)
      BY <1>1, <1>4 DEF Advances, OthersSame
    <3>2. LifeOf(s) = "idle" => s > last_client_stream_id
      BY <3>1, LifeCases
    <3> QED
      BY <1>1, <2>1, <3>1, <3>2, SameLife
  <2>3. LifeOf(sid) = "receiving"
    BY <1>1, <2>1, LifeCases, FinishedJobs
  <2>4. LifeOf(sid)' = IF Running(sid)' THEN "running" ELSE "over"
    <3>1. ~HasJob("Response", sid)' /\ ~HasJob("Reset", sid)'
      BY <1>4, <2>1, FinishedJobs DEF Advances, HasJob
    <3> QED
      BY <1>1, <1>4, <2>1, <3>1, LifeCasesNext DEF Advances
  <2>5. CASE sid = 0 /\ rd' \notin Ended
    BY <2>1, <2>2, <2>5 DEF Lives!vars
  <2>6. CASE sid # 0 /\ rd' \notin Ended
    <3>1. sid \in Streams /\ life[sid] = "receiving"
      BY <2>3, <2>6
    <3>2. life' = [life EXCEPT ![sid] = LifeOf(sid)']
      BY <2>2, <2>6
    <3>3. (rd' \in Ended) = (rd \in Ended)
      BY <2>1, <2>6
    <3>4. CASE Running(sid)'
      <4>1. life' = [life EXCEPT ![sid] = "running"]
        BY <2>4, <3>2, <3>4
      <4>2. Lives!Complete(sid)
        BY <2>1, <3>1, <3>3, <4>1, Zenon DEF Lives!Complete
      <4> QED
        BY <3>1, <4>2 DEF Lives!Next
    <3>5. CASE ~Running(sid)'
      <4>1. life' = [life EXCEPT ![sid] = "over"]
        BY <2>4, <3>2, <3>5
      <4>2. Lives!Cancel(sid)
        BY <2>1, <3>1, <3>3, <4>1, Zenon DEF Lives!Cancel
      <4> QED
        BY <3>1, <4>2 DEF Lives!Next
    <3> QED
      BY <3>4, <3>5
  <2>7. CASE rd' \in Ended
    <3>1. ~Running(sid)'
      BY <1>4, <2>7 DEF Advances
    <3>2. Lives!Close
      BY <2>1, <2>2, <2>3, <2>4, <2>7, <3>1 DEF Lives!Close, Lives!Receiving
    <3> QED
      BY <3>2 DEF Lives!Next
  <2> QED
    BY <2>5, <2>6, <2>7
<1>5. ASSUME NEW sid \in StreamIds, Finishes(sid)
      PROVE  [Lives!Next]_(Lives!vars)
  <2>1. /\ sid \in Nat
        /\ last_client_stream_id' = last_client_stream_id /\ rd' = rd
        /\ Running(sid) /\ ~Arriving(sid) /\ ~Finished(sid)
        /\ sid \notin dropped /\ sid <= last_client_stream_id
    BY <1>1, <1>5
    DEF Finishes, Arriving, Ownership, OwnedOnce, LifeInv, DroppedOnce
  <2>2. \A s \in Streams : s # sid => LifeOf(s)' = LifeOf(s)
    <3> SUFFICES ASSUME NEW s \in Streams, s # sid
                 PROVE  LifeOf(s)' = LifeOf(s)
      OBVIOUS
    <3>1. s \in Nat /\ Same(s)
      BY <1>1, <1>5 DEF Finishes, OthersSame
    <3>2. /\ LifeOf(s) = "idle" => s > last_client_stream_id
          /\ LifeOf(s) = "receiving" => rd \notin Ended
      BY <3>1, LifeCases
    <3> QED
      BY <1>1, <2>1, <3>1, <3>2, SameLife
  <2>3. LifeOf(sid) = "running"
    BY <1>1, <2>1, LifeCases, FinishedJobs
  <2>4. LifeOf(sid)' \in {"answered", "dropped", "over"}
    BY <1>1, <1>5, <2>1, LifeCasesNext DEF Finishes
  <2>5. CASE sid = 0
    BY <2>1, <2>2, <2>5 DEF Lives!vars
  <2>6. CASE sid # 0
    <3>1. Lives!Finish(sid)
      BY <2>1, <2>2, <2>3, <2>4, <2>6 DEF Lives!Finish
    <3> QED
      BY <2>6, <3>1 DEF Lives!Next
  <2> QED
    BY <2>5, <2>6
<1> QED
  BY <1>2, <1>3, <1>4, <1>5, StepEffect

(* Every stream of a connection lives once (Lifecycle).                     *)
THEOREM LifecycleHolds == Spec => Lifecycle
<1>1. Init => Lives!Init
  <2> SUFFICES ASSUME Init
               PROVE  Lives!Init
    OBVIOUS
  <2>1. \A s \in StreamIds \ {0} : s \in Nat /\ s > 0
    BY FrameFields DEF StreamIds
  <2>2. \A s \in StreamIds \ {0} : LifeOf(s) = "idle"
    BY <2>1 DEF Init, LifeOf
  <2>3. rd \notin Ended
    BY DEF Init, Ended
  <2> QED
    BY <2>2, <2>3 DEF Lives!Init
<1>2. LifeInv /\ LifeInv' /\ [Next]_vars => [Lives!Next]_(Lives!vars)
  BY LifeStep
<1> QED
  BY <1>1, <1>2, LifeInvHolds, PTL DEF Spec, Lifecycle, Lives!Spec

-----------------------------------------------------------------------------
(* What the next frame adds to the history                                  *)

BlockEnd(f, sid) ==
    /\ f.kind \in {"Headers", "Continuation"}
    /\ f.sid = sid
    /\ END_HEADERS \in f.flags

NoBody(f, sid) ==
    f.kind = "Headers" /\ f.sid = sid /\ END_STREAM \in f.flags

BodyEnd(f, sid) ==
    /\ f.sid = sid
    /\ \/ f.kind = "Reset"
       \/ f.kind = "Data" /\ END_STREAM \in f.flags

\* The header block of the stream has ended; it said that no body follows.
HasBlock(sid) == \E k \in DOMAIN heard : BlockEnds(sid, k)
Bodyless(sid) == \E k \in DOMAIN heard : NoBody(heard[k], sid)

BytesOf(f) == f.len - (IF PADDED \in f.flags THEN f.pad + 1 ELSE 0)

LEMMA HeardGrown ==
    ASSUME TypeOK, NEW f \in Frames, heard' = Append(heard, f),
           NEW n \in Int, n = Len(heard) + 1
    PROVE  /\ n \in Nat /\ n - 1 \in Nat
           /\ Len(heard) = n - 1 /\ Len(heard') = n
           /\ DOMAIN heard = 1 .. n - 1
           /\ DOMAIN heard' = 1 .. n
           /\ \A k \in 1 .. n - 1 : heard'[k] = heard[k]
           /\ heard'[n] = f
BY AppendProperties, LenProperties DEF TypeOK

LEMMA NextIndex == TypeOK => \E n \in Int : n = Len(heard) + 1
BY LenProperties DEF TypeOK

LEMMA BlockGrown ==
    ASSUME TypeOK, NEW f \in Frames, heard' = Append(heard, f), NEW sid
    PROVE  /\ HasBlock(sid)' <=> HasBlock(sid) \/ BlockEnd(f, sid)
           /\ Bodyless(sid)' <=> Bodyless(sid) \/ NoBody(f, sid)
<1> PICK n \in Int : n = Len(heard) + 1
  BY NextIndex
<1>1. /\ \A k \in DOMAIN heard' : \/ k \in DOMAIN heard /\ heard'[k] = heard[k]
                                  \/ k = n /\ heard'[k] = f
      /\ \A k \in DOMAIN heard : k \in DOMAIN heard' /\ heard'[k] = heard[k]
      /\ n \in DOMAIN heard' /\ heard'[n] = f
  BY HeardGrown
<1>2. HasBlock(sid)' <=> HasBlock(sid) \/ BlockEnd(f, sid)
  BY <1>1 DEF HasBlock, BlockEnds, BlockEnd
<1>3. Bodyless(sid)' <=> Bodyless(sid) \/ NoBody(f, sid)
  BY <1>1 DEF Bodyless, NoBody
<1> QED
  BY <1>2, <1>3

\* A half-open stream, by how the history up to its header block and the
\* history after it speak of it.
Early(sid, k) == \E j \in 1 .. k : NoBody(heard[j], sid)
Late(sid, k) == \E j \in k+1 .. Len(heard) : BodyEnd(heard[j], sid)

LEMMA HalfOpenCases ==
    ASSUME NEW sid
    PROVE  /\ HalfOpen(sid) <=> \E k \in DOMAIN heard :
                BlockEnds(sid, k) /\ ~Early(sid, k) /\ ~Late(sid, k)
           /\ HalfOpen(sid)' <=> \E k \in DOMAIN heard' :
                BlockEnds(sid, k)' /\ ~Early(sid, k)' /\ ~Late(sid, k)'
BY DEF HalfOpen, NoBody, BodyEnd, Early, Late

\* A stream is half open if it was and the frame does not end it, or if the
\* frame ends a header block that a body follows.
LEMMA HalfOpenGrown ==
    ASSUME TypeOK, NEW f \in Frames, heard' = Append(heard, f), NEW sid
    PROVE  HalfOpen(sid)' <=> \/ HalfOpen(sid) /\ ~BodyEnd(f, sid)
                              \/ BlockEnd(f, sid) /\ ~Bodyless(sid)'
<1> PICK n \in Int : n = Len(heard) + 1
  BY NextIndex
<1>1. /\ n \in Nat /\ n - 1 \in Nat
      /\ Len(heard) = n - 1 /\ Len(heard') = n
      /\ DOMAIN heard = 1 .. n - 1 /\ DOMAIN heard' = 1 .. n
      /\ \A k \in 1 .. n - 1 : heard'[k] = heard[k]
      /\ heard'[n] = f
  BY HeardGrown
<1>2. ASSUME NEW k \in 1 .. n - 1
      PROVE  /\ BlockEnds(sid, k)' <=> BlockEnds(sid, k)
             /\ Early(sid, k)' <=> Early(sid, k)
             /\ Late(sid, k)' <=> Late(sid, k) \/ BodyEnd(f, sid)
  <2>1. BlockEnds(sid, k)' <=> BlockEnds(sid, k)
    BY <1>1 DEF BlockEnds
  <2>2. Early(sid, k)' <=> Early(sid, k)
    BY <1>1 DEF Early, NoBody
  <2>3. \A j : j \in k+1 .. n <=> j \in k+1 .. n - 1 \/ j = n
    BY <1>1
  <2>4. \A j \in k+1 .. n - 1 : heard'[j] = heard[j]
    BY <1>1
  <2>5. Late(sid, k)' <=> \E j \in k+1 .. n : BodyEnd(heard'[j], sid)
    BY <1>1 DEF Late, BodyEnd
  <2>6. Late(sid, k) <=> \E j \in k+1 .. n - 1 : BodyEnd(heard[j], sid)
    BY <1>1 DEF Late
  <2> QED
    BY <1>1, <2>1, <2>2, <2>3, <2>4, <2>5, <2>6
<1>3. /\ BlockEnds(sid, n)' <=> BlockEnd(f, sid)
      /\ Early(sid, n)' <=> Bodyless(sid)'
      /\ ~Late(sid, n)'
  BY <1>1 DEF BlockEnds, BlockEnd, Early, Late, Bodyless
<1>4. \A k : k \in DOMAIN heard' <=> k \in DOMAIN heard \/ k = n
  BY <1>1
<1> QED
  BY <1>1, <1>2, <1>3, <1>4, HalfOpenCases

LEMMA HalfOpenHasBlock == ASSUME NEW sid, HalfOpen(sid) PROVE HasBlock(sid)
BY DEF HalfOpen, HasBlock

\* The frame adds its fragment to the body it carries, and to no other.
LEMMA BodyGrown ==
    ASSUME TypeOK, NEW f \in Frames, heard' = Append(heard, f), NEW sid,
           NEW n \in Int, n = Len(heard) + 1
    PROVE  /\ \A k \in BodyFrames(sid) :
                k \in 1 .. n - 1 /\ Contribution(k)' = Contribution(k)
           /\ \A k : k \in BodyFrames(sid)' <=>
                \/ k \in BodyFrames(sid)
                \/ k = n /\ f.kind = "Data" /\ f.sid = sid /\ HasBlock(sid)
           /\ Contribution(n)' = <<n, BytesOf(f)>>
<1>1. /\ n \in Nat /\ n - 1 \in Nat
      /\ DOMAIN heard = 1 .. n - 1 /\ DOMAIN heard' = 1 .. n
      /\ \A k \in 1 .. n - 1 : heard'[k] = heard[k]
      /\ heard'[n] = f
  BY HeardGrown
<1>2. \A k \in 1 .. n - 1 : Contribution(k)' = Contribution(k)
  BY <1>1 DEF Contribution
<1>3. Contribution(n)' = <<n, BytesOf(f)>>
  BY <1>1 DEF Contribution, BytesOf
<1>4. \A k \in BodyFrames(sid) : k \in 1 .. n - 1
  BY <1>1 DEF BodyFrames
<1>5. \A j \in 1 .. n - 1 : BlockEnds(sid, j)' <=> BlockEnds(sid, j)
  BY <1>1 DEF BlockEnds
<1>6. ASSUME NEW k \in 1 .. n - 1
      PROVE  k \in BodyFrames(sid)' <=> k \in BodyFrames(sid)
  <2>1. \A j \in 1 .. k-1 : j \in 1 .. n - 1
    BY <1>1
  <2>2. /\ k \in DOMAIN heard /\ k \in DOMAIN heard' /\ heard'[k] = heard[k]
        /\ (\E j \in 1 .. k-1 : BlockEnds(sid, j)')
             <=> (\E j \in 1 .. k-1 : BlockEnds(sid, j))
    BY <1>1, <1>5, <2>1
  <2> QED
    BY <2>2 DEF BodyFrames
<1>7. n \in BodyFrames(sid)' <=>
        /\ f.kind = "Data" /\ f.sid = sid
        /\ \E j \in 1 .. n - 1 : BlockEnds(sid, j)'
  BY <1>1 DEF BodyFrames
<1>8. HasBlock(sid) <=> \E j \in 1 .. n - 1 : BlockEnds(sid, j)
  BY <1>1 DEF HasBlock
<1>9. n \in BodyFrames(sid)' <=> f.kind = "Data" /\ f.sid = sid /\ HasBlock(sid)
  BY <1>5, <1>7, <1>8
<1>10. \A k \in BodyFrames(sid)' : k \in 1 .. n - 1 \/ k = n
  BY <1>1 DEF BodyFrames
<1> QED
  BY <1>2, <1>3, <1>4, <1>6, <1>9, <1>10

LEMMA BodyKept ==
    ASSUME TypeOK, NEW f \in Frames, heard' = Append(heard, f), NEW sid,
           NEW data, IsBody(sid, data),
           ~(f.kind = "Data" /\ f.sid = sid /\ HasBlock(sid))
    PROVE  IsBody(sid, data)'
<1> PICK n \in Int : n = Len(heard) + 1
  BY NextIndex
<1>1. /\ \A k \in BodyFrames(sid) : Contribution(k)' = Contribution(k)
      /\ \A k : k \in BodyFrames(sid)' <=> k \in BodyFrames(sid)
  BY BodyGrown
<1>2. {Contribution(k) : k \in BodyFrames(sid)}'
        = {Contribution(k) : k \in BodyFrames(sid)}
  BY <1>1
<1> QED
  BY <1>2 DEF IsBody

LEMMA BodyAppended ==
    ASSUME TypeOK, NEW f \in Frames, heard' = Append(heard, f), NEW sid,
           NEW data \in Fragments, IsBody(sid, data),
           f.kind = "Data", f.sid = sid, HasBlock(sid),
           NEW n \in Int, n = Len(heard) + 1,
           NEW bytes \in Nat, bytes = BytesOf(f),
           NEW more, more = Append(data, <<n, bytes>>)
    PROVE  IsBody(sid, more)'
<1> DEFINE e == <<n, bytes>>
<1>1. /\ \A k \in BodyFrames(sid) :
           k \in 1 .. n - 1 /\ Contribution(k)' = Contribution(k)
      /\ \A k : k \in BodyFrames(sid)' <=> k \in BodyFrames(sid) \/ k = n
      /\ Contribution(n)' = e
      /\ n \in Nat
  BY BodyGrown, HeardGrown
<1>2. /\ Len(data) \in Nat /\ DOMAIN data = 1 .. Len(data)
      /\ DOMAIN more = 1 .. Len(data) + 1
      /\ \A i \in 1 .. Len(data) : more[i] = data[i]
      /\ more[Len(data) + 1] = e
      /\ e[1] = n
  <2>1. e \in Nat \X Nat /\ data \in Seq(Nat \X Nat) /\ more = Append(data, e)
    BY <1>1 DEF Fragments
  <2> QED
    BY <2>1, AppendProperties, LenProperties
<1> HIDE DEF e
<1>3. /\ {data[i] : i \in DOMAIN data} = {Contribution(k) : k \in BodyFrames(sid)}
      /\ \A i, j \in DOMAIN data : i < j => data[i][1] < data[j][1]
  BY DEF IsBody
<1>4. ASSUME NEW i \in DOMAIN data
      PROVE  data[i][1] \in Nat /\ data[i][1] < n
  <2>1. PICK k \in BodyFrames(sid) : data[i] = Contribution(k)
    BY <1>3
  <2>2. data[i][1] = k
    BY <2>1 DEF Contribution
  <2> QED
    BY <1>1, <2>2
<1>5. {more[i] : i \in DOMAIN more} = {data[i] : i \in DOMAIN data} \cup {e}
  <2>1. \A i : i \in DOMAIN more <=> i \in DOMAIN data \/ i = Len(data) + 1
    BY <1>2
  <2> QED
    BY <1>2, <2>1
<1>6. {Contribution(k) : k \in BodyFrames(sid)}'
        = {Contribution(k) : k \in BodyFrames(sid)} \cup {e}
  BY <1>1
<1>7. {more[i] : i \in DOMAIN more} = {Contribution(k) : k \in BodyFrames(sid)}'
  BY <1>3, <1>5, <1>6
<1>8. ASSUME NEW i \in DOMAIN more, NEW j \in DOMAIN more, i < j
      PROVE  more[i][1] < more[j][1]
  <2>1. i \in DOMAIN data /\ more[i] = data[i]
    BY <1>2, <1>8
  <2>2. CASE j \in DOMAIN data
    BY <1>2, <1>3, <1>8, <2>1, <2>2
  <2>3. CASE j \notin DOMAIN data
    <3>1. more[j] = e
      BY <1>2, <2>3
    <3> QED
      BY <1>2, <1>4, <2>1, <3>1
  <2> QED
    BY <2>2, <2>3
<1> QED
  BY <1>7, <1>8 DEF IsBody

\* Nothing comes before the body: a new stream's is empty.
LEMMA BodyEmpty ==
    ASSUME TypeOK, NEW f \in Frames, heard' = Append(heard, f), NEW sid,
           ~HasBlock(sid)
    PROVE  IsBody(sid, <<>>)'
<1> PICK n \in Int : n = Len(heard) + 1
  BY NextIndex
<1>1. \A k : k \notin BodyFrames(sid)
  <2> SUFFICES ASSUME NEW k \in BodyFrames(sid)
               PROVE  FALSE
    OBVIOUS
  <2>1. DOMAIN heard = 1 .. n - 1
    BY HeardGrown
  <2>2. PICK j \in 1 .. k-1 : BlockEnds(sid, j)
    BY DEF BodyFrames
  <2>3. j \in DOMAIN heard
    BY <2>1, <2>2 DEF BodyFrames
  <2> QED
    BY <2>2, <2>3 DEF HasBlock
<1>2. \A k : k \notin BodyFrames(sid)'
  BY <1>1, BodyGrown
<1>3. {Contribution(k) : k \in BodyFrames(sid)}' = {}
  BY <1>2
<1>4. DOMAIN <<>> = {}
  BY EmptySeq
<1>5. {<<>>[i] : i \in DOMAIN <<>>} = {}
  BY <1>4
<1> QED
  BY <1>3, <1>4, <1>5 DEF IsBody

-----------------------------------------------------------------------------
(* The invariant, stream by stream                                          *)

\* The bodies that the table holds for a stream.
Bodies(sid) ==
    {streams[i].data : i \in {j \in DOMAIN streams : streams[j].id = sid}}

\* A stream the client has begun a request on is not above the last one.
Opened(sid) == HasBlock(sid) \/ Bodyless(sid) => sid <= last_client_stream_id

\* A pending header block has not ended, and its stream's first frame is known.
Awaited(sid) ==
    \A c \in continuation_buf :
        c.sid = sid => /\ ~HasBlock(sid)
                       /\ c.end_stream <=> Bodyless(sid)

\* What the table holds is half open, with the body sent so far ...
Held(sid) == \A data \in Bodies(sid) : HalfOpen(sid) /\ IsBody(sid, data)

\* ... and what is half open and was not refused, the table holds.
Covered(sid) ==
    writer = "running" /\ HalfOpen(sid) /\ ~HasJob("Reset", sid) => InTable(sid)

Follows(sid) == Opened(sid) /\ Awaited(sid) /\ Held(sid) /\ Covered(sid)

History ==
    /\ rd = "handshake" => heard = <<>> /\ streams = <<>> /\ continuation_buf = {}
    /\ rd \notin Ended => \A sid \in Nat : Follows(sid)

HInv == LifeInv /\ History

-----------------------------------------------------------------------------
(* The bodies after each change to the table                                *)

LEMMA BodiesRemoved ==
    ASSUME TypeOK, NEW i \in DOMAIN streams, streams' = RemoveAt(streams, i)
    PROVE  \A s : Bodies(s)' \subseteq Bodies(s)
<1> DEFINE Entry == [id : Nat, data : Fragments]
<1>1. streams \in Seq(Entry)
  BY DEF TypeOK
<1> HIDE DEF Entry
<1>2. /\ streams' \in Seq(Entry)
      /\ Len(streams') = Len(streams) - 1
      /\ \A j \in 1 .. Len(streams) - 1 :
           streams'[j] = IF j < i THEN streams[j] ELSE streams[j + 1]
  BY <1>1, RemoveAtProperties
<1>3. /\ DOMAIN streams = 1 .. Len(streams) /\ Len(streams) \in Nat
      /\ DOMAIN streams' = 1 .. Len(streams) - 1
  BY <1>1, <1>2, LenProperties
<1>4. ASSUME NEW j \in DOMAIN streams'
      PROVE  \E k \in DOMAIN streams : streams'[j] = streams[k]
  BY <1>2, <1>3
<1> QED
  BY <1>4 DEF Bodies

LEMMA BodiesGrown ==
    ASSUME TypeOK, TableUnique, NEW i \in DOMAIN streams, NEW data,
           streams' = [streams EXCEPT ![i].data = data],
           NEW sid, streams[i].id = sid
    PROVE  /\ \A s : s # sid => Bodies(s)' \subseteq Bodies(s)
           /\ Bodies(sid)' \subseteq {data}
<1>1. \A j \in DOMAIN streams : streams[j] \in [id : Nat, data : Fragments]
  BY ElementOfSeq, LenProperties DEF TypeOK
<1>2. /\ DOMAIN streams' = DOMAIN streams
      /\ \A j \in DOMAIN streams : /\ streams'[j].id = streams[j].id
                                   /\ j # i => streams'[j] = streams[j]
      /\ streams'[i].data = data
  BY <1>1
<1> QED
  BY <1>2 DEF Bodies, TableUnique

LEMMA BodiesAppended ==
    ASSUME TypeOK, NEW sid \in Nat, ~InTable(sid),
           streams' = Append(streams, [id |-> sid, data |-> <<>>])
    PROVE  /\ \A s : s # sid =>
                   /\ Bodies(s)' \subseteq Bodies(s)
                   /\ InTable(s) => InTable(s)'
           /\ Bodies(sid)' \subseteq {<<>>}
           /\ InTable(sid)'
<1>1. /\ Len(streams) \in Nat
      /\ DOMAIN streams = 1 .. Len(streams)
      /\ DOMAIN streams' = 1 .. Len(streams) + 1
      /\ \A i \in 1 .. Len(streams) : streams'[i] = streams[i]
      /\ streams'[Len(streams) + 1] = [id |-> sid, data |-> <<>>]
  <2>1. [id |-> sid, data |-> <<>>] \in [id : Nat, data : Fragments]
    BY EmptySeq DEF Fragments
  <2> QED
    BY <2>1, AppendProperties, LenProperties DEF TypeOK
<1>2. ASSUME NEW i \in DOMAIN streams'
      PROVE  \/ i \in DOMAIN streams /\ streams'[i] = streams[i]
             \/ streams'[i] = [id |-> sid, data |-> <<>>]
  BY <1>1
<1>3. \A i \in DOMAIN streams : i \in DOMAIN streams' /\ streams'[i] = streams[i]
  BY <1>1
<1>4. \E i \in DOMAIN streams' : streams'[i].id = sid
  BY <1>1
<1>5. \A s : s # sid => Bodies(s)' \subseteq Bodies(s)
  BY <1>2 DEF Bodies
<1>6. Bodies(sid)' \subseteq {<<>>}
  BY <1>2 DEF Bodies, InTable
<1>7. /\ InTable(sid)'
      /\ \A s : InTable(s) => InTable(s)'
  BY <1>3, <1>4 DEF InTable
<1> QED
  BY <1>5, <1>6, <1>7

LEMMA NoBodies ==
    ASSUME NEW sid
    PROVE  /\ InTable(sid) <=> Bodies(sid) # {}
           /\ InTable(sid)' <=> Bodies(sid)' # {}
BY DEF InTable, Bodies

\* Nothing is taken back from the channel.
LEMMA SendKeeps ==
    ASSUME TypeOK, NEW job \in JobType, Send(job)
    PROVE  \A kind, sid : HasJob(kind, sid) => HasJob(kind, sid)'
<1>1. CASE chan' = chan
  BY <1>1 DEF HasJob
<1>2. CASE chan' = Append(chan, job)
  <2>1. \A i \in DOMAIN chan : i \in DOMAIN chan' /\ chan'[i] = chan[i]
    BY <1>2, AppendProperties, LenProperties DEF TypeOK
  <2> QED
    BY <2>1 DEF HasJob
<1> QED
  BY <1>1, <1>2 DEF Send

-----------------------------------------------------------------------------
(* Streams that a step does not touch                                       *)

Keeps(sid) ==
    /\ Bodies(sid)' \subseteq Bodies(sid)
    /\ InTable(sid) => InTable(sid)'
    /\ \A c \in continuation_buf' : c.sid = sid => c \in continuation_buf
    /\ last_client_stream_id <= last_client_stream_id'
    /\ writer' = "running" => writer = "running"
    /\ HasJob("Reset", sid) => HasJob("Reset", sid)'

Touches(f, sid) ==
    \/ BlockEnd(f, sid)
    \/ NoBody(f, sid)
    \/ BodyEnd(f, sid)
    \/ f.kind = "Data" /\ f.sid = sid

LEMMA Unheard ==
    ASSUME TypeOK, TypeOK', NEW sid \in Nat, Follows(sid), Keeps(sid),
           UNCHANGED heard
    PROVE  Follows(sid)'
<1>1. /\ HasBlock(sid)' <=> HasBlock(sid)
      /\ Bodyless(sid)' <=> Bodyless(sid)
      /\ HalfOpen(sid)' <=> HalfOpen(sid)
      /\ \A data : IsBody(sid, data)' <=> IsBody(sid, data)
  BY DEF HasBlock, Bodyless, HalfOpen, IsBody, BlockEnds, BodyFrames,
         Contribution
<1>2. Opened(sid)'
  BY <1>1 DEF Follows, Opened, Keeps, TypeOK
<1>3. Awaited(sid)'
  BY <1>1 DEF Follows, Awaited, Keeps
<1>4. Held(sid)'
  BY <1>1 DEF Follows, Held, Keeps
<1>5. Covered(sid)'
  BY <1>1 DEF Follows, Covered, Keeps
<1> QED
  BY <1>2, <1>3, <1>4, <1>5 DEF Follows

LEMMA Untouched ==
    ASSUME TypeOK, TypeOK', NEW sid \in Nat, Follows(sid), Keeps(sid),
           NEW f \in Frames, heard' = Append(heard, f), ~Touches(f, sid)
    PROVE  Follows(sid)'
<1>1. /\ HasBlock(sid)' <=> HasBlock(sid)
      /\ Bodyless(sid)' <=> Bodyless(sid)
      /\ HalfOpen(sid)' <=> HalfOpen(sid)
  BY BlockGrown, HalfOpenGrown DEF Touches
<1>2. \A data : IsBody(sid, data) => IsBody(sid, data)'
  BY BodyKept DEF Touches
<1>3. Opened(sid)'
  BY <1>1 DEF Follows, Opened, Keeps, TypeOK
<1>4. Awaited(sid)'
  BY <1>1 DEF Follows, Awaited, Keeps
<1>5. Held(sid)'
  BY <1>1, <1>2 DEF Follows, Held, Keeps
<1>6. Covered(sid)'
  BY <1>1 DEF Follows, Covered, Keeps
<1> QED
  BY <1>3, <1>4, <1>5, <1>6 DEF Follows

\* A frame of one stream touches no other.
LEMMA OthersFollow ==
    ASSUME TypeOK, TypeOK', NEW f \in Frames, heard' = Append(heard, f),
           \A s \in Nat : Follows(s),
           \A s \in Nat : s # f.sid => Keeps(s),
           Follows(f.sid)'
    PROVE  \A s \in Nat : Follows(s)'
<1>1. \A s \in Nat : s # f.sid => ~Touches(f, s)
  BY DEF Touches, BlockEnd, NoBody, BodyEnd
<1>2. \A s \in Nat : s # f.sid => Follows(s)'
  BY <1>1, Untouched
<1> QED
  BY <1>2

-----------------------------------------------------------------------------
(* Steps that receive a frame                                               *)

\* RequestIntact, of one step.
Given ==
    \A h \in handlers' \ handlers : IsBody(h.id, h.data)' /\ EndHeard(h.id)'

LEMMA SameKeeps ==
    ASSUME TypeOK, NEW s, UNCHANGED <<streams, continuation_buf, writer>>,
           last_client_stream_id' = last_client_stream_id,
           HasJob("Reset", s) => HasJob("Reset", s)'
    PROVE  Keeps(s)
BY DEF Keeps, Bodies, InTable, TypeOK

\* Frames that neither carry a body nor begin or end a request.
LEMMA QuietHistory ==
    ASSUME TypeOK, TypeOK', History, NEW f \in Frames, Receive(f),
           f.kind \notin {"Data", "Headers", "Continuation", "Reset"},
           \A s \in Nat : Keeps(s), UNCHANGED handlers,
           rd' # "handshake"
    PROVE  History' /\ Given
<1>1. heard' = Append(heard, f) /\ \A s \in Nat : Follows(s)
  BY DEF Receive, History, Ended
<1>2. \A s \in Nat : ~Touches(f, s)
  BY DEF Touches, BlockEnd, NoBody, BodyEnd
<1>3. \A s \in Nat : Follows(s)'
  BY <1>1, <1>2, Untouched
<1> QED
  BY <1>3 DEF History, Given

\* Once the connection has ended there is nothing left to follow.
LEMMA EndedHistory ==
    ASSUME rd' \in Ended, UNCHANGED handlers
    PROVE  History' /\ Given
BY DEF History, Given, Ended

\* Ids are unique in the table, so whatever it holds is found.
LEMMA NotPositioned ==
    ASSUME TypeOK, TableUnique, NEW sid, Position(sid) = {}
    PROVE  ~InTable(sid)
<1> SUFFICES ASSUME NEW i \in DOMAIN streams, streams[i].id = sid
             PROVE  FALSE
  BY DEF InTable
<1>1. /\ Len(streams) \in Nat /\ DOMAIN streams = 1 .. Len(streams)
  BY LenProperties DEF TypeOK
<1>2. \A j \in 1 .. i-1 : j \in DOMAIN streams /\ j # i
  BY <1>1
<1>3. i \in Position(sid)
  BY <1>2 DEF Position, TableUnique
<1> QED
  BY <1>3

LEMMA DataHistory ==
    ASSUME LifeInv, TypeOK', History, NEW f \in Frames, f.kind = "Data",
           NEW bytes \in Nat, bytes = BytesOf(f),
           Receive(f), ReceiveData(f, bytes)
    PROVE  History' /\ Given
<1> PICK n \in Int : n = Len(heard) + 1
  BY NextIndex DEF LifeInv, Inv
<1>1. /\ TypeOK /\ TableUnique /\ f.sid \in Nat
      /\ rd = "busy" /\ heard' = Append(heard, f)
      /\ \A s \in Nat : Follows(s)
      /\ UNCHANGED <<continuation_buf, last_client_stream_id, writer, chan>>
  BY FrameFields
  DEF LifeInv, Inv, Ownership, Receive, History, Ended, ReceiveData, output
<1>2. ASSUME NEW s \in Nat, Bodies(s)' \subseteq Bodies(s),
             InTable(s) => InTable(s)'
      PROVE  Keeps(s)
  BY <1>1, <1>2 DEF Keeps, TypeOK, HasJob
<1>3. /\ HasBlock(f.sid)' <=> HasBlock(f.sid)
      /\ Bodyless(f.sid)' <=> Bodyless(f.sid)
      /\ HalfOpen(f.sid)' <=> HalfOpen(f.sid) /\ ~is_end_stream(f)
  BY <1>1, BlockGrown, HalfOpenGrown
  DEF BlockEnd, NoBody, BodyEnd, is_end_stream
<1>4. Opened(f.sid)' /\ Awaited(f.sid)'
  BY <1>1, <1>3 DEF Follows, Opened, Awaited
<1>5. Follows(f.sid)
  BY <1>1
\* A stream that the table does not hold.
<1>6. CASE Position(f.sid) = {} /\ UNCHANGED <<rd, streams, handlers>>
  <2>1. ~InTable(f.sid) /\ ~InTable(f.sid)'
    <3>1. ~InTable(f.sid)
      BY <1>1, <1>6, NotPositioned
    <3> QED
      BY <1>6, <3>1 DEF InTable
  <2>2. Held(f.sid)' /\ Covered(f.sid)'
    BY <1>1, <1>3, <1>5, <2>1, NoBodies DEF Follows, Held, Covered, HasJob
  <2>3. \A s \in Nat : Keeps(s)
    BY <1>2, <1>6 DEF Bodies, InTable
  <2> QED
    BY <1>1, <1>4, <1>6, <2>2, <2>3, OthersFollow DEF Follows, History, Given
<1>7. ASSUME NEW i \in Position(f.sid)
      PROVE  /\ \E data : /\ data = Append(streams[i].data, <<n, bytes>>)
                           /\ IsBody(f.sid, data)'
             /\ HalfOpen(f.sid)
  <2>1. i \in DOMAIN streams /\ streams[i].id = f.sid
    BY <1>1, PositionType
  <2>2. streams[i] \in [id : Nat, data : Fragments]
    BY <1>1, <2>1, ElementOfSeq, LenProperties DEF TypeOK
  <2>3. PICK body \in Fragments : body = streams[i].data
    BY <2>2
  <2>4. body \in Bodies(f.sid)
    BY <2>1, <2>3 DEF Bodies
  <2>5. HalfOpen(f.sid) /\ IsBody(f.sid, body)
    BY <1>5, <2>4 DEF Follows, Held
  <2>6. HasBlock(f.sid)
    BY <2>5, HalfOpenHasBlock
  <2>7. PICK data : data = Append(body, <<n, bytes>>)
    OBVIOUS
  <2>8. IsBody(f.sid, data)'
    BY <1>1, <2>5, <2>6, <2>7, BodyAppended
  <2> QED
    BY <2>3, <2>5, <2>7, <2>8
\* One whose body goes on.
<1>8. ASSUME NEW i \in Position(f.sid), NEW data,
             IsBody(f.sid, data)', HalfOpen(f.sid),
             ~is_end_stream(f),
             streams' = [streams EXCEPT ![i].data = data],
             UNCHANGED <<rd, handlers>>
      PROVE  History' /\ Given
  <2>1. i \in DOMAIN streams /\ streams[i].id = f.sid
    BY <1>1, PositionType
  <2>2. /\ \A s : s # f.sid => Bodies(s)' \subseteq Bodies(s)
        /\ Bodies(f.sid)' \subseteq {data}
        /\ \A s : InTable(s)' <=> InTable(s)
    <3>1. \A s : InTable(s)' <=> InTable(s)
      BY <1>1, <1>8, <2>1, GrownSame
    <3> QED
      BY <1>1, <1>8, <2>1, <3>1, BodiesGrown
  <2>3. Held(f.sid)'
    BY <1>3, <1>8, <2>2 DEF Held
  <2>4. Covered(f.sid)'
    BY <1>1, <1>3, <1>5, <2>2 DEF Follows, Covered, HasJob
  <2>5. \A s \in Nat : s # f.sid => Keeps(s)
    BY <1>2, <2>2
  <2> QED
    BY <1>1, <1>4, <1>8, <2>3, <2>4, <2>5, OthersFollow
    DEF Follows, History, Given
\* One whose body ends.
<1>9. ASSUME NEW i \in Position(f.sid), NEW data,
             IsBody(f.sid, data)',
             is_end_stream(f),
             streams' = RemoveAt(streams, i),
             Spawn(f.sid, data), UNCHANGED rd
      PROVE  History' /\ Given
  <2>1. i \in DOMAIN streams
    BY <1>1, PositionType
  <2>2. /\ \A s : Bodies(s)' \subseteq Bodies(s)
        /\ ~InTable(f.sid)'
        /\ \A s : s # f.sid => (InTable(s)' <=> InTable(s))
    BY <1>1, <1>9, <2>1, BodiesRemoved, RemovedOne
  <2>3. Held(f.sid)' /\ Covered(f.sid)'
    BY <1>3, <1>9, <2>2, NoBodies DEF Held, Covered
  <2>4. \A s \in Nat : s # f.sid => Keeps(s)
    BY <1>2, <2>2
  <2>5. History'
    BY <1>1, <1>4, <1>9, <2>3, <2>4, OthersFollow DEF Follows, History
  <2>6. EndHeard(f.sid)'
    BY <1>1, <1>9, HeardGrown DEF EndHeard, is_end_stream
  <2>7. \A h \in handlers' \ handlers : h.id = f.sid /\ h.data = data
    BY <1>9 DEF Spawn
  <2> QED
    BY <1>9, <2>5, <2>6, <2>7 DEF Given
<1>10. CASE Position(f.sid) # {}
  <2>1. PICK i \in Position(f.sid) :
          \/ /\ ~is_end_stream(f)
             /\ streams' = [streams EXCEPT
                             ![i].data = Append(streams[i].data, <<n, bytes>>)]
             /\ UNCHANGED <<rd, handlers>>
          \/ /\ is_end_stream(f)
             /\ streams' = RemoveAt(streams, i)
             /\ Spawn(f.sid, Append(streams[i].data, <<n, bytes>>))
             /\ UNCHANGED rd
          \/ rd' = "returned" /\ UNCHANGED handlers
    BY <1>10 DEF ReceiveData
  <2>2. PICK data : /\ data = Append(streams[i].data, <<n, bytes>>)
                    /\ IsBody(f.sid, data)'
                    /\ HalfOpen(f.sid)
    BY <1>7
  <2>3. CASE rd' = "returned" /\ UNCHANGED handlers
    BY <2>3, EndedHistory DEF Ended
  <2> QED
    BY <1>8, <1>9, <2>1, <2>2, <2>3
<1> QED
  BY <1>6, <1>10 DEF ReceiveData

\* A header block ends: the stream waits for its body, runs without one, or
\* ends the connection.
LEMMA BlockHistory ==
    ASSUME LifeInv, TypeOK', History, NEW f \in Frames, Receive(f),
           BlockEnd(f, f.sid), NEW end_stream,
           OpenStream(f.sid, end_stream),
           end_stream <=> Bodyless(f.sid)',
           ~InTable(f.sid), ~HasBlock(f.sid),
           \A c \in continuation_buf' : c \in continuation_buf /\ c.sid # f.sid,
           last_client_stream_id <= last_client_stream_id',
           f.sid <= last_client_stream_id',
           UNCHANGED <<writer, chan>>
    PROVE  History' /\ Given
<1>1. /\ TypeOK /\ f.sid \in Nat
      /\ rd = "busy" /\ heard' = Append(heard, f)
      /\ \A s \in Nat : Follows(s)
      /\ ~BodyEnd(f, f.sid) /\ f.kind # "Data"
      /\ ~HalfOpen(f.sid) /\ Bodies(f.sid) = {}
  BY FrameFields, HalfOpenHasBlock, NoBodies
  DEF LifeInv, Inv, Receive, History, Ended, BlockEnd, BodyEnd
<1>2. HalfOpen(f.sid)' <=> ~Bodyless(f.sid)'
  BY <1>1, HalfOpenGrown
<1>3. IsBody(f.sid, <<>>)'
  BY <1>1, BodyEmpty
<1>4. ASSUME NEW s \in Nat, s # f.sid, Bodies(s)' \subseteq Bodies(s),
             InTable(s) => InTable(s)'
      PROVE  Keeps(s)
  BY <1>1, <1>4 DEF Keeps, HasJob
<1>5. Opened(f.sid)' /\ Awaited(f.sid)'
  BY DEF Opened, Awaited
<1>6. CASE rd' = "returned" /\ UNCHANGED <<streams, handlers>>
  BY <1>6, EndedHistory DEF Ended
<1>7. CASE end_stream /\ Spawn(f.sid, <<>>) /\ UNCHANGED <<rd, streams>>
  <2>1. /\ \A s : /\ Bodies(s)' = Bodies(s)
                  /\ InTable(s)' <=> InTable(s)
    BY <1>7 DEF Bodies, InTable
  <2>2. Held(f.sid)' /\ Covered(f.sid)'
    BY <1>1, <1>2, <1>7, <2>1 DEF Held, Covered
  <2>3. \A s \in Nat : s # f.sid => Keeps(s)
    BY <1>4, <2>1
  <2>4. History'
    BY <1>1, <1>5, <1>7, <2>2, <2>3, OthersFollow DEF LifeInv, Follows, History
  <2>5. EndHeard(f.sid)'
    BY <1>7 DEF Bodyless, NoBody, EndHeard
  <2>6. \A h \in handlers' \ handlers : h.id = f.sid /\ h.data = <<>>
    BY <1>7 DEF Spawn
  <2> QED
    BY <1>3, <2>4, <2>5, <2>6 DEF Given
<1>8. CASE /\ ~end_stream
           /\ streams' = Append(streams, [id |-> f.sid, data |-> <<>>])
           /\ UNCHANGED <<rd, handlers>>
  <2>1. /\ \A s : s # f.sid =>
               /\ Bodies(s)' \subseteq Bodies(s)
               /\ InTable(s) => InTable(s)'
        /\ Bodies(f.sid)' \subseteq {<<>>}
        /\ InTable(f.sid)'
    BY <1>1, <1>8, BodiesAppended
  <2>2. Held(f.sid)' /\ Covered(f.sid)'
    BY <1>2, <1>3, <1>8, <2>1 DEF Held, Covered
  <2>3. \A s \in Nat : s # f.sid => Keeps(s)
    BY <1>4, <2>1
  <2> QED
    BY <1>1, <1>5, <1>8, <2>2, <2>3, OthersFollow
    DEF Follows, History, Given
<1> QED
  BY <1>6, <1>7, <1>8 DEF OpenStream

LEMMA HeadersHistory ==
    ASSUME LifeInv, TypeOK', History, NEW f \in Frames,
           Headers(f) \/ HeadersRefused(f)
    PROVE  History' /\ Given
<1>1. /\ TypeOK /\ f.sid \in Nat /\ Receive(f) /\ f.kind = "Headers"
      /\ rd = "busy" /\ heard' = Append(heard, f)
      /\ \A s \in Nat : Follows(s)
      /\ last_client_stream_id \in Nat
      /\ last_client_stream_id' = f.sid /\ f.sid > last_client_stream_id
      /\ continuation_buf = {}
      /\ UNCHANGED writer
  BY FrameFields
  DEF LifeInv, Inv, TypeOK, Headers, HeadersRefused, Process, Accepted, ContentRule,
      NewStreamId, ContinuationGate, Receive, History, Ended, output
<1>2. /\ ~InTable(f.sid) /\ ~HasJob("Reset", f.sid)
      /\ Bodies(f.sid) = {}
  BY <1>1, NotYetOpen, NoBodies
<1>3. ~HasBlock(f.sid) /\ ~Bodyless(f.sid) /\ ~HalfOpen(f.sid)
  BY <1>1, HalfOpenHasBlock DEF Follows, Opened
<1>4. Bodyless(f.sid)' <=> is_end_stream(f)
  BY <1>1, <1>3, BlockGrown DEF NoBody, is_end_stream
<1>5. CASE HeadersRefused(f)
  <2>1. /\ Job("Reset", f.sid) \in JobType
        /\ Job("Reset", f.sid).sid = f.sid
        /\ Job("Reset", f.sid).kind = "Reset"
        /\ Send(Job("Reset", f.sid))
        /\ UNCHANGED <<rd, streams, continuation_buf, handlers>>
    BY <1>1, <1>5, JobTypes DEF JobKinds, Job, HeadersRefused, tasks
  <2>2. \A s : HasJob("Reset", s) => HasJob("Reset", s)'
    BY <1>1, <2>1, SendKeeps
  <2>3. /\ \A s : Bodies(s)' = Bodies(s) /\ (InTable(s)' <=> InTable(s))
        /\ continuation_buf' = {}
    BY <1>1, <2>1 DEF Bodies, InTable
  <2>4. writer = "running" => HasJob("Reset", f.sid)'
    <3>1. ASSUME writer = "running"
          PROVE  HasJob("Reset", f.sid)'
      <4>1. chan' = Append(chan, Job("Reset", f.sid))
        BY <2>1, <3>1 DEF Send
      <4>2. /\ Len(chan) + 1 \in DOMAIN chan'
            /\ chan'[Len(chan) + 1] = Job("Reset", f.sid)
        BY <1>1, <2>1, <4>1, AppendProperties, LenProperties DEF TypeOK
      <4> QED
        BY <2>1, <4>2 DEF HasJob
    <3> QED
      BY <3>1
  <2>5. \A s \in Nat : s # f.sid => Keeps(s)
    BY <1>1, <2>2, <2>3 DEF Keeps
  <2>6. Opened(f.sid)' /\ Awaited(f.sid)' /\ Held(f.sid)' /\ Covered(f.sid)'
    BY <1>1, <1>2, <2>3, <2>4 DEF Opened, Awaited, Held, Covered
  <2> QED
    BY <1>1, <2>1, <2>5, <2>6, OthersFollow DEF Follows, History, Given
<1>6. CASE Headers(f) /\ ~is_end_headers(f)
  <2>1. /\ continuation_buf' =
             {[sid |-> f.sid, end_stream |-> is_end_stream(f)]}
        /\ UNCHANGED <<rd, streams, handlers, chan>>
    BY <1>6 DEF Headers, output
  <2>2. \A s : Bodies(s)' = Bodies(s) /\ (InTable(s)' <=> InTable(s))
    BY <2>1 DEF Bodies, InTable
  <2>3. \A s \in Nat : s # f.sid => Keeps(s)
    BY <1>1, <2>1, <2>2 DEF Keeps, HasJob
  <2>4. ~HasBlock(f.sid)' /\ ~HalfOpen(f.sid)'
    BY <1>1, <1>3, <1>6, BlockGrown, HalfOpenGrown DEF BlockEnd, is_end_headers
  <2>5. Opened(f.sid)' /\ Awaited(f.sid)' /\ Held(f.sid)' /\ Covered(f.sid)'
    BY <1>1, <1>2, <1>4, <2>1, <2>2, <2>4 DEF Opened, Awaited, Held, Covered
  <2> QED
    BY <1>1, <2>1, <2>3, <2>5, OthersFollow DEF Follows, History, Given
<1>7. CASE Headers(f) /\ is_end_headers(f)
  <2>1. /\ OpenStream(f.sid, is_end_stream(f))
        /\ continuation_buf' = {}
        /\ UNCHANGED <<writer, chan>>
    BY <1>1, <1>7 DEF Headers, output
  <2>2. BlockEnd(f, f.sid)
    BY <1>1, <1>7 DEF BlockEnd, is_end_headers
  <2> QED
    BY <1>1, <1>2, <1>3, <1>4, <2>1, <2>2, BlockHistory
<1> QED
  BY <1>5, <1>6, <1>7

LEMMA ContinuationHistory ==
    ASSUME LifeInv, TypeOK', History, NEW f \in Frames, Continuation(f)
    PROVE  History' /\ Given
<1>1. /\ TypeOK /\ Ownership /\ f.sid \in Nat
      /\ Receive(f) /\ f.kind = "Continuation"
      /\ rd = "busy" /\ heard' = Append(heard, f)
      /\ \A s \in Nat : Follows(s)
      /\ last_client_stream_id \in Nat
      /\ UNCHANGED <<last_client_stream_id, writer, chan>>
  BY FrameFields
  DEF LifeInv, Inv, TypeOK, Continuation, Process, Receive, History, Ended, output
<1>2. PICK c \in continuation_buf :
         \/ /\ ~is_end_headers(f)
            /\ UNCHANGED <<rd, streams, continuation_buf, handlers>>
         \/ /\ is_end_headers(f)
            /\ continuation_buf' = {}
            /\ OpenStream(c.sid, c.end_stream)
  BY DEF Continuation
<1>3. c.sid = f.sid /\ Pending(f.sid)
  BY DEF Continuation, Process, Accepted, ContinuationGate, Pending
<1>4. CASE /\ ~is_end_headers(f)
           /\ UNCHANGED <<rd, streams, continuation_buf, handlers>>
  <2>1. \A s \in Nat : ~Touches(f, s)
    BY <1>1, <1>4 DEF Touches, BlockEnd, NoBody, BodyEnd, is_end_headers
  <2>2. \A s \in Nat : Keeps(s)
    BY <1>1, <1>4, SameKeeps DEF HasJob
  <2>3. \A s \in Nat : Follows(s)'
    BY <1>1, <2>1, <2>2, Untouched
  <2> QED
    BY <1>1, <1>4, <2>3 DEF History, Given
<1>5. CASE /\ is_end_headers(f)
           /\ continuation_buf' = {}
           /\ OpenStream(c.sid, c.end_stream)
  <2>1. ~InTable(f.sid) /\ f.sid <= last_client_stream_id
    BY <1>1, <1>3 DEF Ownership, OwnedOnce
  <2>2. ~HasBlock(f.sid) /\ (c.end_stream <=> Bodyless(f.sid))
    BY <1>1, <1>3 DEF Follows, Awaited
  <2>3. Bodyless(f.sid)' <=> Bodyless(f.sid)
    BY <1>1, BlockGrown DEF NoBody
  <2>4. BlockEnd(f, f.sid)
    BY <1>1, <1>5 DEF BlockEnd, is_end_headers
  <2> QED
    BY <1>1, <1>3, <1>5, <2>1, <2>2, <2>3, <2>4, BlockHistory
<1> QED
  BY <1>2, <1>4, <1>5

LEMMA ResetHistory ==
    ASSUME LifeInv, TypeOK', History, NEW f \in Frames, Reset(f)
    PROVE  History' /\ Given
<1>1. /\ TypeOK /\ TableUnique /\ f.sid \in Nat
      /\ Receive(f) /\ f.kind = "Reset"
      /\ rd = "busy" /\ heard' = Append(heard, f)
      /\ \A s \in Nat : Follows(s)
      /\ last_client_stream_id \in Nat
      /\ UNCHANGED <<rd, continuation_buf, last_client_stream_id, writer, chan,
                     handlers>>
  BY FrameFields
  DEF LifeInv, Inv, Ownership, TypeOK, Reset, Process, Receive, History, Ended,
      output, tasks
<1>2. /\ ~InTable(f.sid)'
      /\ \A s : /\ Bodies(s)' \subseteq Bodies(s)
                /\ s # f.sid => (InTable(s)' <=> InTable(s))
  <2>1. CASE Position(f.sid) = {} /\ UNCHANGED streams
    <3>1. ~InTable(f.sid)
      BY <1>1, <2>1, NotPositioned
    <3> QED
      BY <2>1, <3>1 DEF InTable, Bodies
  <2>2. ASSUME NEW i \in Position(f.sid), streams' = RemoveAt(streams, i)
        PROVE  /\ ~InTable(f.sid)'
               /\ \A s : /\ Bodies(s)' \subseteq Bodies(s)
                         /\ s # f.sid => (InTable(s)' <=> InTable(s))
    <3>1. i \in DOMAIN streams
      BY <1>1, PositionType
    <3> QED
      BY <1>1, <2>2, <3>1, BodiesRemoved, RemovedOne
  <2> QED
    BY <2>1, <2>2 DEF Reset
<1>3. /\ HasBlock(f.sid)' <=> HasBlock(f.sid)
      /\ Bodyless(f.sid)' <=> Bodyless(f.sid)
      /\ ~HalfOpen(f.sid)'
  BY <1>1, BlockGrown, HalfOpenGrown DEF BlockEnd, NoBody, BodyEnd
<1>4. Opened(f.sid)' /\ Awaited(f.sid)'
  BY <1>1, <1>3 DEF Follows, Opened, Awaited
<1>5. Held(f.sid)' /\ Covered(f.sid)'
  BY <1>2, <1>3, NoBodies DEF Held, Covered
<1>6. \A s \in Nat : s # f.sid => Keeps(s)
  BY <1>1, <1>2 DEF Keeps, HasJob
<1> QED
  BY <1>1, <1>4, <1>5, <1>6, OthersFollow DEF Follows, History, Given

LEMMA ReceiveFrameHistory ==
    ASSUME LifeInv, TypeOK', History, NEW f \in Frames, ReceiveFrame(f)
    PROVE  History' /\ Given
<1>1. TypeOK /\ f.kind \in Kinds /\ f.len \in Nat /\ f.pad \in Nat
  BY FrameFields DEF LifeInv, Inv
<1>2. CASE FastData(f)
  <2>1. BytesOf(f) = f.len /\ f.kind = "Data"
    BY <1>1, <1>2 DEF FastData, FastPath, BytesOf, is_padded
  <2> QED
    BY <1>1, <1>2, <2>1, DataHistory DEF FastData
<1>3. CASE Data(f)
  <2>1. BytesOf(f) = Stripped(f) /\ Stripped(f) \in Nat
    BY <1>1, <1>3
    DEF Data, Process, Accepted, ContentRule, PaddingOk, Stripped, BytesOf,
        is_padded
  <2> QED
    BY <1>3, <2>1, DataHistory DEF Data, Process
<1>4. CASE Headers(f) \/ HeadersRefused(f)
  BY <1>4, HeadersHistory
<1>5. CASE Continuation(f)
  BY <1>5, ContinuationHistory
<1>6. CASE Reset(f)
  BY <1>6, ResetHistory
<1>7. CASE RejectFrame(f) \/ GoAway(f)
  BY <1>7, EndedHistory DEF RejectFrame, GoAway, Ended, tasks
<1>8. CASE Ping(f) /\ rd' = "panic"
  BY <1>8, EndedHistory DEF Ping, Ended, tasks
<1>9. CASE Settings(f) \/ (Ping(f) /\ UNCHANGED rd) \/ IgnoreFrame(f)
  <2>1. /\ Receive(f) /\ rd' = rd /\ rd = "busy"
        /\ f.kind \in {"Settings", "Ping", "WindowUpdate", "Other"}
        /\ UNCHANGED <<table, handlers, writer>>
    BY <1>9 DEF Settings, Ping, IgnoreFrame, Process, Receive, tasks, output
  <2>2. \A s : HasJob("Reset", s) => HasJob("Reset", s)'
    <3>1. CASE UNCHANGED chan
      BY <3>1 DEF HasJob
    <3>2. CASE Send(Job("SettingsAck", 0)) \/ Send(Job("PingAck", 0))
      <4>1. /\ Job("SettingsAck", 0) \in JobType
            /\ Job("PingAck", 0) \in JobType
        BY JobTypes DEF JobKinds
      <4> QED
        BY <1>1, <3>2, <4>1, SendKeeps
    <3> QED
      BY <1>9, <3>1, <3>2 DEF Settings, Ping, IgnoreFrame, output
  <2>3. \A s \in Nat : Keeps(s)
    BY <1>1, <2>1, <2>2, SameKeeps DEF table
  <2> QED
    BY <1>1, <2>1, <2>3, QuietHistory
<1>10. Ping(f) => (rd' = "panic" \/ UNCHANGED rd)
  BY DEF Ping
<1> QED
  BY <1>2, <1>3, <1>4, <1>5, <1>6, <1>7, <1>8, <1>9, <1>10 DEF ReceiveFrame

-----------------------------------------------------------------------------
(* All other steps, and the theorems                                        *)

LEMMA HistoryStep ==
    ASSUME LifeInv, TypeOK', History, [Next]_vars
    PROVE  History' /\ Given
<1>1. TypeOK
  BY DEF LifeInv, Inv
<1>2. ASSUME UNCHANGED <<table, heard>>,
             writer' = "running" => writer = "running",
             \A s : HasJob("Reset", s) => HasJob("Reset", s)',
             rd' = "handshake" => rd = "handshake",
             rd \in Ended => rd' \in Ended
      PROVE  History'
  <2> SUFFICES ASSUME rd' \notin Ended
               PROVE  \A s \in Nat : Follows(s)'
    BY <1>2 DEF History, table
  <2>1. \A s \in Nat : Follows(s)
    BY <1>2 DEF History
  <2>2. \A s \in Nat : Keeps(s)
    BY <1>1, <1>2 DEF Keeps, Bodies, InTable, TypeOK, table
  <2> QED
    BY <1>1, <1>2, <2>1, <2>2, Unheard
<1>3. ASSUME NEW f \in Frames, ReceiveFrame(f)
      PROVE  History' /\ Given
  BY <1>3, ReceiveFrameHistory
<1>4. CASE Handshake
  <2>1. /\ heard = <<>> /\ streams = <<>> /\ continuation_buf = {}
        /\ UNCHANGED <<table, handlers, heard>> /\ rd' # "handshake"
    BY <1>4 DEF Handshake, History, tasks
  <2>2. DOMAIN heard' = {} /\ DOMAIN streams' = {} /\ continuation_buf' = {}
    BY <2>1, EmptySeq DEF table
  <2>3. \A s : ~HasBlock(s)' /\ ~Bodyless(s)' /\ ~HalfOpen(s)' /\ Bodies(s)' = {}
    BY <2>2 DEF HasBlock, Bodyless, HalfOpen, Bodies
  <2>4. \A s \in Nat : Follows(s)'
    BY <2>2, <2>3 DEF Follows, Opened, Awaited, Held, Covered
  <2> QED
    BY <2>1, <2>4 DEF History, Given
<1>5. CASE EndRead
  <2>1. \A s : HasJob("Reset", s) => HasJob("Reset", s)'
    <3>1. CASE UNCHANGED chan
      BY <3>1 DEF HasJob
    <3>2. CASE Send(Credit(data_len, stream_data_lens))
      <4>1. Credit(data_len, stream_data_lens) \in JobType
        BY <1>1, JobTypes DEF TypeOK
      <4> QED
        BY <1>1, <3>2, <4>1, SendKeeps
    <3> QED
      BY <1>5, <3>1, <3>2 DEF EndRead
  <2> QED
    BY <1>2, <1>5, <2>1 DEF EndRead, Ended, Given, tasks
<1>6. CASE BeginRead \/ ReadClosed \/ WriteJob \/ WriteFails \/ WriterDone
           \/ UNCHANGED vars
  <2>1. /\ UNCHANGED <<table, handlers, chan, heard>>
        /\ writer' = "running" => writer = "running"
        /\ rd' = "handshake" => rd = "handshake"
        /\ rd \in Ended => rd' \in Ended
    BY <1>6 DEF BeginRead, ReadClosed, WriteJob, WriteFails, WriterDone, vars,
                table, tasks, output, Ended
  <2> QED
    BY <1>2, <2>1 DEF HasJob, Given
<1>7. ASSUME NEW h \in handlers, HandlerReplies(h) \/ HandlerFails(h)
      PROVE  History' /\ Given
  <2>1. /\ UNCHANGED <<rd, table, heard, writer>>
        /\ handlers' \ handlers = {}
    BY <1>7 DEF HandlerReplies, HandlerFails, output
  <2>2. \A s : HasJob("Reset", s) => HasJob("Reset", s)'
    <3>1. CASE UNCHANGED chan
      BY <3>1 DEF HasJob
    <3>2. CASE Send(Job("Response", h.id))
      <4>1. Job("Response", h.id) \in JobType
        BY <1>1, JobTypes DEF JobKinds, TypeOK
      <4> QED
        BY <1>1, <3>2, <4>1, SendKeeps
    <3> QED
      BY <1>7, <3>1, <3>2 DEF HandlerReplies, HandlerFails, output
  <2>3. History'
    BY <1>2, <2>1, <2>2
  <2> QED
    BY <2>1, <2>3 DEF Given
<1> QED
  BY <1>3, <1>4, <1>5, <1>6, <1>7 DEF Next, HandlerEnds

\* The table follows the peer, stream by stream.
LEMMA HistoryFollows == HInv => TableFollowsPeer
<1> SUFFICES ASSUME HInv, rd \in {"await", "busy"}, writer = "running"
             PROVE  {streams[i].id : i \in DOMAIN streams}
                      = {sid \in StreamIds : HalfOpen(sid) /\ sid \notin Refused}
  BY DEF TableFollowsPeer
<1>1. /\ TypeOK /\ Ownership /\ StreamIds \subseteq Nat
      /\ \A s \in Nat : Follows(s)
  BY FrameFields DEF HInv, LifeInv, Inv, History, Ended, StreamIds
<1>2. \A s : s \in Refused <=> HasJob("Reset", s)
  BY DEF Refused, HasJob
<1>3. ASSUME NEW s, InTable(s)
      PROVE  s \in StreamIds /\ HalfOpen(s) /\ ~HasJob("Reset", s)
  <2>1. s \in Nat
    <3>1. PICK i \in DOMAIN streams : streams[i].id = s
      BY <1>3 DEF InTable
    <3>2. streams[i] \in [id : Nat, data : Fragments]
      BY <1>1, <3>1, ElementOfSeq, LenProperties DEF TypeOK
    <3> QED
      BY <3>1, <3>2
  <2>2. HalfOpen(s)
    BY <1>1, <1>3, <2>1, NoBodies DEF Follows, Held
  <2>3. PICK k \in DOMAIN heard : heard[k].sid = s
    BY <2>2 DEF HalfOpen, BlockEnds
  <2>4. heard[k] \in Frames
    BY <1>1, <2>3, ElementOfSeq, LenProperties DEF TypeOK
  <2>5. ~HasJob("Reset", s)
    BY <1>1, <1>3, <2>1, FinishedJobs DEF Ownership, OwnedOnce
  <2> QED
    BY <2>2, <2>3, <2>4, <2>5 DEF StreamIds
<1>4. ASSUME NEW s \in StreamIds, HalfOpen(s), ~HasJob("Reset", s)
      PROVE  InTable(s)
  BY <1>1, <1>4 DEF Follows, Covered
<1>5. \A s : s \in {streams[i].id : i \in DOMAIN streams} <=> InTable(s)
  BY DEF InTable
<1> QED
  BY <1>2, <1>3, <1>4, <1>5

LEMMA HInvHolds == Spec => []HInv
<1>1. Init => History
  <2> SUFFICES ASSUME Init
               PROVE  \A s \in Nat : Follows(s)
    BY DEF Init, History
  <2>1. DOMAIN heard = {} /\ DOMAIN streams = {} /\ continuation_buf = {}
    BY EmptySeq DEF Init
  <2>2. \A s : ~HasBlock(s) /\ ~Bodyless(s) /\ ~HalfOpen(s) /\ Bodies(s) = {}
    BY <2>1 DEF HasBlock, Bodyless, HalfOpen, Bodies
  <2> QED
    BY <2>1, <2>2 DEF Follows, Opened, Awaited, Held, Covered
<1>2. LifeInv /\ LifeInv' /\ History /\ [Next]_vars => History'
  BY HistoryStep DEF LifeInv, Inv
<1>3. LifeInv /\ History => HInv
  BY DEF HInv
<1> QED
  BY <1>1, <1>2, <1>3, LifeInvHolds, PTL DEF Spec

(* `streams` holds the half-open streams of the client and nothing else, as *)
(* long as there is a writer (TableFollowsPeer).                            *)
THEOREM TableFollowsPeerHolds == Spec => []TableFollowsPeer
<1> QED
  BY HInvHolds, HistoryFollows, PTL

(* A handler is only spawned for a request that the client has ended, with  *)
(* exactly the bytes of its DATA frames, in order (RequestIntact).          *)
THEOREM RequestIntactHolds == Spec => RequestIntact
<1>1. HInv /\ HInv' /\ [Next]_vars =>
        [\A h \in handlers' \ handlers :
            IsBody(h.id, h.data)' /\ EndHeard(h.id)']_vars
  BY HistoryStep DEF HInv, LifeInv, Inv, Given
<1> QED
  BY <1>1, HInvHolds, PTL DEF Spec, RequestIntact

-----------------------------------------------------------------------------
(* Sums                                                                    *)

\* A function that adds one number after the other has their sum as its last
\* value.
LEMMA TotalBy ==
    ASSUME NEW nums \in Seq(Nat), NEW N \in Nat, N = Len(nums),
           NEW g \in [Nat -> Nat], g[0] = 0,
           \A n \in Nat : n < N => g[n + 1] = g[n] + nums[n + 1]
    PROVE  Total(nums) = g[N]
<1> DEFINE value(F, k) == IF k = 0 THEN 0 ELSE F[k - 1] + nums[k]
           Eq(F) == F = [k \in 0 .. N |-> value(F, k)]
           h == [k \in 0 .. N |-> g[k]]
           F == CHOOSE f : Eq(f)
<1>1. Total(nums) = F[N]
  BY DEF Total
<1>2. ASSUME NEW k \in 0 .. N PROVE h[k] = value(h, k)
  <2>1. CASE k = 0
    BY <2>1
  <2>2. CASE k # 0
    <3>1. k - 1 \in Nat /\ k - 1 < N /\ (k - 1) + 1 = k /\ k - 1 \in 0 .. N
      <4>1. k \in Nat \ {0} /\ k <= N
        BY <2>2
      <4> QED  BY <4>1, Previous
    <3>2. g[k] = g[k - 1] + nums[k]
      BY <3>1
    <3> QED  BY <2>2, <3>1, <3>2
  <2> QED  BY <2>1, <2>2
<1>3. Eq(h)
  <2> HIDE DEF value
  <2> QED  BY <1>2
<1>4. Eq(F)
  <2> HIDE DEF h, Eq
  <2> QED  BY <1>3
<1> HIDE DEF F
<1>5. \A k \in 0 .. N : F[k] = value(F, k)
  <2> HIDE DEF value
  <2> QED  BY <1>4
<1> DEFINE E == {n \in Nat : n <= N => F[n] = g[n]}
<1>6. 0 \in E
  BY <1>5
<1>7. ASSUME NEW n \in Nat, n \in E PROVE n + 1 \in E
  <2> SUFFICES ASSUME n + 1 <= N PROVE F[n + 1] = g[n + 1]
    OBVIOUS
  <2>1. n + 1 \in 0 .. N /\ n + 1 # 0 /\ (n + 1) - 1 = n /\ n < N /\ n <= N
    <3>1. n + 1 \in 1 .. N /\ n < N /\ n <= N
      BY Below
    <3> QED  BY <3>1
  <2>2. F[n] = g[n]
    BY <1>7, <2>1
  <2>3. F[n + 1] = F[n] + nums[n + 1]
    BY <1>5, <2>1
  <2> QED  BY <2>1, <2>2, <2>3
<1> HIDE DEF E
<1>8. N \in E
  BY <1>6, <1>7, SetInduction
<1> QED  BY <1>1, <1>8 DEF E

\* There is such a function.
LEMMA TotalSteps ==
    ASSUME NEW nums \in Seq(Nat)
    PROVE  \E g \in [Nat -> Nat] :
               /\ g[0] = 0
               /\ \A n \in Nat : n < Len(nums) => g[n + 1] = g[n] + nums[n + 1]
<1> DEFINE step == [n \in Nat |-> [x \in Nat |->
                      IF n < Len(nums) THEN x + nums[n + 1] ELSE x]]
<1>1. Len(nums) \in Nat /\ \A i \in 1 .. Len(nums) : nums[i] \in Nat
  BY LenProperties, ElementOfSeq
<1>2. step \in [Nat -> [Nat -> Nat]]
  BY <1>1
<1>3. PICK g \in [Nat -> Nat] : Recurs(g, 0, step)
  <2> HIDE DEF step
  <2> QED  BY <1>2, NatRecursion
<1> QED  BY <1>1, <1>3 DEF Recurs

LEMMA TotalType == ASSUME NEW nums \in Seq(Nat) PROVE Total(nums) \in Nat
<1>1. PICK N \in Nat : N = Len(nums)
  BY LenProperties
<1>2. PICK g \in [Nat -> Nat] :
          /\ g[0] = 0
          /\ \A n \in Nat : n < N => g[n + 1] = g[n] + nums[n + 1]
  BY <1>1, TotalSteps
<1>3. Total(nums) = g[N]
  BY <1>1, <1>2, TotalBy
<1> QED  BY <1>3

LEMMA TotalEmpty == Total(<<>>) = 0
<1>1. <<>> \in Seq(Nat) /\ Len(<<>>) = 0
  BY EmptySeq
<1>2. PICK g \in [Nat -> Nat] : g[0] = 0
  <2>1. [n \in Nat |-> 0] \in [Nat -> Nat]
    OBVIOUS
  <2> QED  BY <2>1
<1>3. \A n \in Nat : n < 0 => g[n + 1] = g[n] + <<>>[n + 1]
  OBVIOUS
<1>4. Total(<<>>) = g[0]
  BY <1>1, <1>2, <1>3, TotalBy
<1> QED  BY <1>2, <1>4

\* One number more at the end.
LEMMA TotalAppend ==
    ASSUME NEW nums \in Seq(Nat), NEW x \in Nat,
           NEW more \in Seq(Nat), Len(more) = Len(nums) + 1,
           more[Len(nums) + 1] = x,
           \A n \in 1 .. Len(nums) : more[n] = nums[n]
    PROVE  Total(more) = Total(nums) + x
<1>1. PICK N \in Nat : N = Len(nums)
  BY LenProperties
<1>2. PICK g \in [Nat -> Nat] :
          /\ g[0] = 0
          /\ \A n \in Nat : n < N => g[n + 1] = g[n] + nums[n + 1]
  BY <1>1, TotalSteps
<1>3. Total(nums) = g[N]
  BY <1>1, <1>2, TotalBy
<1> DEFINE value(n) == IF n <= N THEN g[n] ELSE g[N] + x
           h == [n \in Nat |-> value(n)]
<1>4. /\ Len(more) = N + 1
      /\ more[N + 1] = x
      /\ \A n \in 1 .. N : more[n] = nums[n]
  BY <1>1
<1>5. h \in [Nat -> Nat] /\ h[0] = 0 /\ h[N + 1] = g[N] + x
  <2>1. g[0] = 0
    BY <1>2
  <2>2. N + 1 \in Nat /\ ~(N + 1 <= N)
    OBVIOUS
  <2>3. h \in [Nat -> Nat]
    <3>1. \A n \in Nat : value(n) \in Nat
      <4>1. TAKE n \in Nat
      <4>2. PICK a \in Nat, b \in Nat : a = g[n] /\ b = g[N]
        OBVIOUS
      <4>3. b + x \in Nat
        OBVIOUS
      <4> QED  BY <4>2, <4>3
    <3> HIDE DEF value
    <3> QED  BY <3>1
  <2>4. h[N + 1] = g[N] + x
    BY <2>2
  <2>5. h[0] = 0
    BY <2>1
  <2> QED  BY <2>3, <2>4, <2>5
<1>6. ASSUME NEW n \in Nat, n < N + 1 PROVE h[n + 1] = h[n] + more[n + 1]
  <2>1. CASE n = N
    BY <2>1, <1>4, <1>5
  <2>2. CASE n # N
    <3>1. n < N /\ n + 1 <= N /\ n + 1 \in 1 .. N /\ n <= N /\ n + 1 \in Nat
      BY <1>6, <2>2
    <3>2. more[n + 1] = nums[n + 1] /\ g[n + 1] = g[n] + nums[n + 1]
      BY <1>2, <1>4, <3>1
    <3> QED  BY <3>1, <3>2
  <2> QED  BY <2>1, <2>2
<1> HIDE DEF h
<1>7. Total(more) = h[N + 1]
  <2>1. N + 1 \in Nat
    OBVIOUS
  <2> QED  BY <1>4, <1>5, <1>6, <2>1, TotalBy
<1> QED  BY <1>3, <1>5, <1>7

\* One number more in front.
LEMMA TotalCons ==
    ASSUME NEW nums \in Seq(Nat), NEW x \in Nat,
           NEW more \in Seq(Nat), Len(more) = Len(nums) + 1, more[1] = x,
           \A n \in 1 .. Len(nums) : more[n + 1] = nums[n]
    PROVE  Total(more) = x + Total(nums)
<1>1. PICK N \in Nat : N = Len(nums)
  BY LenProperties
<1>2. PICK g \in [Nat -> Nat] :
          /\ g[0] = 0
          /\ \A n \in Nat : n < N => g[n + 1] = g[n] + nums[n + 1]
  BY <1>1, TotalSteps
<1>3. Total(nums) = g[N]
  BY <1>1, <1>2, TotalBy
<1> DEFINE value(n) == IF n = 0 THEN 0 ELSE x + g[n - 1]
           h == [n \in Nat |-> value(n)]
<1>4. h \in [Nat -> Nat] /\ h[0] = 0 /\ h[N + 1] = x + g[N]
  <2>1. \A n \in Nat : n # 0 => n - 1 \in Nat
    OBVIOUS
  <2>2. N + 1 # 0 /\ (N + 1) - 1 = N
    OBVIOUS
  <2>3. h \in [Nat -> Nat]
    <3>1. \A n \in Nat : value(n) \in Nat
      <4>1. TAKE n \in Nat
      <4>2. CASE n = 0
        BY <4>2
      <4>3. CASE n # 0
        <5>1. n - 1 \in Nat
          BY <4>3
        <5>2. PICK a \in Nat : a = g[n - 1]
          BY <5>1
        <5>3. x + a \in Nat
          OBVIOUS
        <5> QED  BY <4>3, <5>2, <5>3
      <4> QED  BY <4>2, <4>3
    <3> HIDE DEF value
    <3> QED  BY <3>1
  <2>4. h[N + 1] = x + g[N]
    BY <2>2
  <2> QED  BY <2>3, <2>4
<1>5. ASSUME NEW n \in Nat, n < N + 1 PROVE h[n + 1] = h[n] + more[n + 1]
  <2>1. h[n + 1] = x + g[n]
    OBVIOUS
  <2>2. CASE n = 0
    BY <1>2, <2>1, <2>2
  <2>3. CASE n # 0
    <3>1. n - 1 \in Nat /\ n - 1 < N /\ (n - 1) + 1 = n /\ n \in 1 .. N
      <4>1. n \in Nat \ {0} /\ n <= N /\ n \in 1 .. N
        BY <1>5, <2>3
      <4> QED  BY <4>1, Previous
    <3>2. g[n] = g[n - 1] + nums[n] /\ more[n + 1] = nums[n]
      BY <1>1, <1>2, <3>1
    <3>3. h[n] = x + g[n - 1]
      BY <2>3
    <3>4. nums[n] \in Nat /\ g[n - 1] \in Nat
      BY <1>1, <3>1, ElementOfSeq
    <3>5. PICK a \in Nat, b \in Nat : a = g[n - 1] /\ b = nums[n]
      BY <3>4
    <3>6. h[n + 1] = x + (a + b) /\ h[n] = x + a /\ more[n + 1] = b
      BY <2>1, <3>2, <3>3, <3>5
    <3>7. x + (a + b) = (x + a) + b
      OBVIOUS
    <3> QED  BY <3>6, <3>7
  <2> QED  BY <2>2, <2>3
<1> HIDE DEF h
<1>6. Total(more) = h[N + 1]
  <2>1. N + 1 \in Nat /\ N + 1 = Len(more)
    BY <1>1
  <2> QED  BY <1>4, <1>5, <2>1, TotalBy
<1> QED  BY <1>3, <1>4, <1>6

Pairs == Seq(Nat \X Nat)

\* The numbers that Share adds up.
Shares(pairs, sid) ==
    [k \in DOMAIN pairs |-> IF pairs[k][1] = sid THEN pairs[k][2] ELSE 0]

LEMMA SharesType ==
    ASSUME NEW pairs \in Pairs, NEW sid
    PROVE  /\ Shares(pairs, sid) \in Seq(Nat)
           /\ Len(Shares(pairs, sid)) = Len(pairs)
           /\ \A k \in 1 .. Len(pairs) :
                Shares(pairs, sid)[k]
                  = IF pairs[k][1] = sid THEN pairs[k][2] ELSE 0
<1>1. PICK N \in Nat : N = Len(pairs) /\ DOMAIN pairs = 1 .. N
  BY LenProperties DEF Pairs
<1>2. \A k \in 1 .. N : pairs[k] \in Nat \X Nat
  BY <1>1, ElementOfSeq DEF Pairs
<1> DEFINE of(k) == IF pairs[k][1] = sid THEN pairs[k][2] ELSE 0
<1>3. \A k \in 1 .. N : of(k) \in Nat
  BY <1>2
<1>4. Shares(pairs, sid) = [k \in 1 .. N |-> of(k)]
  BY <1>1 DEF Shares
<1> HIDE DEF of
<1>5. [k \in 1 .. N |-> of(k)] \in Seq(Nat)
  BY <1>3, IsASeq
<1>6. Len([k \in 1 .. N |-> of(k)]) = N
  OBVIOUS
<1> USE DEF of
<1> QED  BY <1>1, <1>4, <1>5, <1>6

LEMMA ShareType ==
    ASSUME NEW pairs \in Pairs, NEW sid PROVE Share(pairs, sid) \in Nat
<1>1. Share(pairs, sid) = Total(Shares(pairs, sid))
  BY DEF Share, Shares
<1> QED  BY <1>1, SharesType, TotalType

LEMMA ShareEmpty == \A sid : Share(<<>>, sid) = 0
<1> SUFFICES ASSUME NEW sid PROVE Share(<<>>, sid) = 0
  OBVIOUS
<1>1. <<>> \in Pairs
  BY EmptySeq DEF Pairs
<1>2. Shares(<<>>, sid) \in Seq(Nat) /\ Len(Shares(<<>>, sid)) = 0
  BY <1>1, SharesType, EmptySeq
<1>3. Shares(<<>>, sid) = <<>>
  BY <1>2, EmptySeq
<1> QED  BY <1>3, TotalEmpty DEF Share, Shares

\* One pair more at the end, and one in front.
LEMMA ShareAppend ==
    ASSUME NEW pairs \in Pairs, NEW s \in Nat, NEW n \in Nat, NEW sid
    PROVE  Share(Append(pairs, <<s, n>>), sid)
             = Share(pairs, sid) + (IF s = sid THEN n ELSE 0)
<1> DEFINE more == Append(pairs, <<s, n>>)
           x == IF s = sid THEN n ELSE 0
<1>1. PICK N \in Nat : N = Len(pairs)
  BY LenProperties DEF Pairs
<1>2. /\ more \in Pairs
      /\ Len(more) = N + 1
      /\ more[N + 1] = <<s, n>>
      /\ \A k \in 1 .. N : more[k] = pairs[k]
  BY <1>1, AppendProperties DEF Pairs
<1> HIDE DEF more
<1> DEFINE a == Shares(pairs, sid)
           b == Shares(more, sid)
<1>3. /\ a \in Seq(Nat) /\ Len(a) = N
      /\ \A k \in 1 .. N : a[k] = IF pairs[k][1] = sid THEN pairs[k][2] ELSE 0
  BY <1>1, SharesType
<1>4. /\ b \in Seq(Nat) /\ Len(b) = N + 1
      /\ \A k \in 1 .. N + 1 : b[k] = IF more[k][1] = sid THEN more[k][2] ELSE 0
  BY <1>2, SharesType
<1>5. Share(pairs, sid) = Total(a) /\ Share(more, sid) = Total(b)
  BY DEF Share, Shares
<1> HIDE DEF a, b
<1>6. N + 1 \in 1 .. N + 1 /\ \A k \in 1 .. N : k \in 1 .. N + 1
  OBVIOUS
<1>7. b[N + 1] = x /\ \A k \in 1 .. N : b[k] = a[k]
  <2>1. b[N + 1] = IF more[N + 1][1] = sid THEN more[N + 1][2] ELSE 0
    BY <1>4, <1>6
  <2>2. b[N + 1] = x
    BY <1>2, <2>1
  <2>3. ASSUME NEW k \in 1 .. N PROVE b[k] = a[k]
    <3>1. more[k] = pairs[k] /\ k \in 1 .. N + 1
      BY <1>2, <1>6
    <3> QED  BY <1>3, <1>4, <3>1
  <2> QED  BY <2>2, <2>3
<1>8. x \in Nat
  OBVIOUS
<1> HIDE DEF x
<1>9. Total(b) = Total(a) + x
  BY <1>3, <1>4, <1>7, <1>8, TotalAppend
<1> QED  BY <1>5, <1>9 DEF more, x

LEMMA ShareCons ==
    ASSUME NEW pairs \in Pairs, NEW s \in Nat, NEW n \in Nat, NEW sid
    PROVE  Share(<<<<s, n>>>> \o pairs, sid)
             = (IF s = sid THEN n ELSE 0) + Share(pairs, sid)
<1> DEFINE more == <<<<s, n>>>> \o pairs
           x == IF s = sid THEN n ELSE 0
<1>1. PICK N \in Nat : N = Len(pairs)
  BY LenProperties DEF Pairs
<1>2. PICK first \in Pairs : first = <<<<s, n>>>> /\ Len(first) = 1 /\ first[1] = <<s, n>>
  <2>1. PICK p \in Nat \X Nat : p = <<s, n>>
    OBVIOUS
  <2>2. <<p>> \in Pairs /\ Len(<<p>>) = 1 /\ <<p>>[1] = p
    BY DEF Pairs
  <2> QED  BY <2>1, <2>2
<1>3. /\ more \in Pairs
      /\ Len(more) = N + 1
      /\ more[1] = <<s, n>>
      /\ \A k \in 1 .. N : more[k + 1] = pairs[k]
  <2>1. more = first \o pairs
    BY <1>2
  <2>2. /\ first \o pairs \in Pairs
        /\ Len(first \o pairs) = Len(first) + Len(pairs)
        /\ \A k \in 1 .. Len(first) + Len(pairs) :
             (first \o pairs)[k] = IF k <= Len(first) THEN first[k]
                                   ELSE pairs[k - Len(first)]
    BY ConcatProperties DEF Pairs
  <2> HIDE DEF more
  <2>3. Len(more) = N + 1 /\ more \in Pairs
    <3>1. more \in Pairs /\ Len(more) = Len(first) + Len(pairs)
      BY <2>1, <2>2
    <3> QED  BY <1>1, <1>2, <3>1
  <2>4. \A k \in 1 .. 1 + N : more[k] = IF k <= 1 THEN first[k] ELSE pairs[k - 1]
    BY <1>1, <1>2, <2>1, <2>2
  <2>5. more[1] = <<s, n>>
    BY <1>2, <2>4
  <2>6. ASSUME NEW k \in 1 .. N PROVE more[k + 1] = pairs[k]
    <3>1. k + 1 \in 1 .. 1 + N /\ ~(k + 1 <= 1) /\ (k + 1) - 1 = k
      OBVIOUS
    <3> QED  BY <2>4, <3>1
  <2> QED  BY <2>3, <2>5, <2>6
<1> HIDE DEF more
<1> DEFINE a == Shares(pairs, sid)
           b == Shares(more, sid)
<1>4. /\ a \in Seq(Nat) /\ Len(a) = N
      /\ \A k \in 1 .. N : a[k] = IF pairs[k][1] = sid THEN pairs[k][2] ELSE 0
  BY <1>1, SharesType
<1>5. /\ b \in Seq(Nat) /\ Len(b) = N + 1
      /\ \A k \in 1 .. N + 1 : b[k] = IF more[k][1] = sid THEN more[k][2] ELSE 0
  <2>1. more \in Pairs /\ Len(more) = N + 1
    BY <1>3
  <2> QED  BY <2>1, SharesType
<1>6. Share(pairs, sid) = Total(a) /\ Share(more, sid) = Total(b)
  BY DEF Share, Shares
<1> HIDE DEF a, b
<1>7. 1 \in 1 .. N + 1 /\ \A k \in 1 .. N : k + 1 \in 1 .. N + 1
  OBVIOUS
<1>8. b[1] = x /\ \A k \in 1 .. N : b[k + 1] = a[k]
  <2>1. b[1] = IF more[1][1] = sid THEN more[1][2] ELSE 0
    BY <1>5, <1>7
  <2>2. b[1] = x
    BY <1>3, <2>1
  <2>3. ASSUME NEW k \in 1 .. N PROVE b[k + 1] = a[k]
    <3>1. more[k + 1] = pairs[k] /\ k + 1 \in 1 .. N + 1
      BY <1>3, <1>7
    <3>2. b[k + 1] = IF more[k + 1][1] = sid THEN more[k + 1][2] ELSE 0
      BY <1>5, <3>1
    <3> QED  BY <1>4, <3>1, <3>2
  <2> QED  BY <2>2, <2>3
<1>9. x \in Nat
  OBVIOUS
<1> HIDE DEF x
<1>10. Total(b) = x + Total(a)
  BY <1>4, <1>5, <1>8, <1>9, TotalCons
<1> QED  BY <1>6, <1>10 DEF more, x

\* What jobs grant a stream, and what frames use.
Grant(jobs, sid) == Total([i \in DOMAIN jobs |-> Share(Grants(jobs[i]), sid)])
Use(frames, sid) == Total([k \in DOMAIN frames |-> UsedBy(frames[k], sid)])

LEMMA GrantsType == ASSUME NEW job \in JobType PROVE Grants(job) \in Pairs
<1>1. job.len \in Nat /\ job.lens \in Pairs
  BY DEF JobType, Pairs
<1>2. <<<<0, job.len>>>> \in Pairs
  BY <1>1 DEF Pairs
<1>3. <<<<0, job.len>>>> \o job.lens \in Pairs
  BY <1>1, <1>2, ConcatProperties DEF Pairs
<1> QED  BY <1>3, EmptySeq DEF Grants, Pairs

\* A sequence of numbers, one for each element of a sequence.
LEMMA NumbersType ==
    ASSUME NEW S, NEW seq \in Seq(S), NEW g \in [S -> Nat], NEW N \in Nat,
           N = Len(seq)
    PROVE  /\ [i \in DOMAIN seq |-> g[seq[i]]] \in Seq(Nat)
           /\ Len([i \in DOMAIN seq |-> g[seq[i]]]) = N
           /\ \A i \in 1 .. N : [k \in DOMAIN seq |-> g[seq[k]]][i] = g[seq[i]]
<1>1. DOMAIN seq = 1 .. N
  BY LenProperties
<1>2. \A i \in 1 .. N : seq[i] \in S
  BY ElementOfSeq
<1> DEFINE of(i) == g[seq[i]]
<1>3. \A i \in 1 .. N : of(i) \in Nat
  BY <1>2
<1>4. [i \in DOMAIN seq |-> g[seq[i]]] = [i \in 1 .. N |-> of(i)]
  BY <1>1
<1> HIDE DEF of
<1>5. [i \in 1 .. N |-> of(i)] \in Seq(Nat)
  BY <1>3, IsASeq
<1>6. Len([i \in 1 .. N |-> of(i)]) = N
  OBVIOUS
<1> USE DEF of
<1> QED  BY <1>1, <1>4, <1>5, <1>6

\* ... and their sum, when there is one more element.
LEMMA NumbersGrown ==
    ASSUME NEW S, NEW seq \in Seq(S), NEW g \in [S -> Nat], NEW x \in S
    PROVE  Total([i \in DOMAIN Append(seq, x) |-> g[Append(seq, x)[i]]])
             = Total([i \in DOMAIN seq |-> g[seq[i]]]) + g[x]
<1> DEFINE more == Append(seq, x)
           a == [i \in DOMAIN seq |-> g[seq[i]]]
           b == [i \in DOMAIN more |-> g[more[i]]]
<1>1. PICK N \in Nat : N = Len(seq)
  BY LenProperties
<1>2. /\ more \in Seq(S)
      /\ Len(more) = N + 1
      /\ more[N + 1] = x
      /\ \A k \in 1 .. N : more[k] = seq[k]
  BY <1>1, AppendProperties
<1> HIDE DEF more
<1>3. a \in Seq(Nat) /\ Len(a) = N /\ \A k \in 1 .. N : a[k] = g[seq[k]]
  BY <1>1, NumbersType
<1>4. PICK M \in Nat : M = N + 1
  OBVIOUS
<1>5. b \in Seq(Nat) /\ Len(b) = N + 1 /\ \A k \in 1 .. N + 1 : b[k] = g[more[k]]
  <2>1. more \in Seq(S) /\ M = Len(more)
    BY <1>2, <1>4
  <2>2. b \in Seq(Nat) /\ Len(b) = M /\ \A k \in 1 .. M : b[k] = g[more[k]]
    BY <2>1, NumbersType
  <2> QED  BY <1>4, <2>2
<1> HIDE DEF a, b
<1>6. N + 1 \in 1 .. N + 1 /\ \A k \in 1 .. N : k \in 1 .. N + 1
  OBVIOUS
<1>7. b[N + 1] = g[x] /\ \A k \in 1 .. N : b[k] = a[k]
  BY <1>2, <1>3, <1>5, <1>6
<1>8. g[x] \in Nat
  OBVIOUS
<1>9. Total(b) = Total(a) + g[x]
  BY <1>3, <1>5, <1>7, <1>8, TotalAppend
<1> QED  BY <1>9 DEF a, b, more

LEMMA GrantGrown ==
    ASSUME NEW jobs \in Seq(JobType), NEW job \in JobType, NEW sid
    PROVE  Grant(Append(jobs, job), sid)
             = Grant(jobs, sid) + Share(Grants(job), sid)
<1> DEFINE of(j) == Share(Grants(j), sid)
           g == [j \in JobType |-> of(j)]
           more == Append(jobs, job)
<1>1. \A j \in JobType : of(j) \in Nat
  BY GrantsType, ShareType
<1>2. g \in [JobType -> Nat]
  <2> HIDE DEF of
  <2> QED  BY <1>1
<1>3. more \in Seq(JobType)
  BY AppendProperties
<1>4. \A i \in DOMAIN jobs : jobs[i] \in JobType
  BY ElementOfSeq, LenProperties
<1>5. \A i \in DOMAIN more : more[i] \in JobType
  <2> HIDE DEF more
  <2> QED  BY <1>3, ElementOfSeq, LenProperties
<1>6. Total([i \in DOMAIN more |-> g[more[i]]])
        = Total([i \in DOMAIN jobs |-> g[jobs[i]]]) + g[job]
  <2> HIDE DEF g
  <2> QED  BY <1>2, NumbersGrown
<1>7. [i \in DOMAIN jobs |-> g[jobs[i]]] = [i \in DOMAIN jobs |-> of(jobs[i])]
  <2> HIDE DEF of
  <2> QED  BY <1>4
<1>8. [i \in DOMAIN more |-> g[more[i]]] = [i \in DOMAIN more |-> of(more[i])]
  <2> HIDE DEF of, more
  <2> QED  BY <1>5
<1>9. g[job] = of(job)
  <2> HIDE DEF of
  <2> QED  OBVIOUS
<1>10. Total([i \in DOMAIN more |-> of(more[i])])
        = Total([i \in DOMAIN jobs |-> of(jobs[i])]) + of(job)
  <2> HIDE DEF of, more, g
  <2> QED  BY <1>6, <1>7, <1>8, <1>9
<1>11. /\ Grant(more, sid) = Total([i \in DOMAIN more |-> of(more[i])])
       /\ Grant(jobs, sid) = Total([i \in DOMAIN jobs |-> of(jobs[i])])
  <2> HIDE DEF more
  <2> QED  BY DEF Grant
<1> QED  BY <1>10, <1>11

LEMMA UseGrown ==
    ASSUME NEW frames \in Seq(Frames), NEW f \in Frames, NEW sid
    PROVE  Use(Append(frames, f), sid) = Use(frames, sid) + UsedBy(f, sid)
<1> DEFINE of(e) == UsedBy(e, sid)
           g == [e \in Frames |-> of(e)]
           more == Append(frames, f)
<1>1. \A e \in Frames : of(e) \in Nat
  BY FramesAssumption DEF FrameType, UsedBy
<1>2. g \in [Frames -> Nat]
  <2> HIDE DEF of
  <2> QED  BY <1>1
<1>3. more \in Seq(Frames)
  BY AppendProperties
<1>4. \A i \in DOMAIN frames : frames[i] \in Frames
  BY ElementOfSeq, LenProperties
<1>5. \A i \in DOMAIN more : more[i] \in Frames
  <2> HIDE DEF more
  <2> QED  BY <1>3, ElementOfSeq, LenProperties
<1>6. Total([i \in DOMAIN more |-> g[more[i]]])
        = Total([i \in DOMAIN frames |-> g[frames[i]]]) + g[f]
  <2> HIDE DEF g
  <2> QED  BY <1>2, NumbersGrown
<1>7. [i \in DOMAIN frames |-> g[frames[i]]] = [i \in DOMAIN frames |-> of(frames[i])]
  <2> HIDE DEF of
  <2> QED  BY <1>4
<1>8. [i \in DOMAIN more |-> g[more[i]]] = [i \in DOMAIN more |-> of(more[i])]
  <2> HIDE DEF of, more
  <2> QED  BY <1>5
<1>9. g[f] = of(f)
  <2> HIDE DEF of
  <2> QED  OBVIOUS
<1>10. Total([i \in DOMAIN more |-> of(more[i])])
        = Total([i \in DOMAIN frames |-> of(frames[i])]) + of(f)
  <2> HIDE DEF of, more, g
  <2> QED  BY <1>6, <1>7, <1>8, <1>9
<1>11. /\ Use(more, sid) = Total([i \in DOMAIN more |-> of(more[i])])
       /\ Use(frames, sid) = Total([i \in DOMAIN frames |-> of(frames[i])])
  <2> HIDE DEF more
  <2> QED  BY DEF Use
<1> QED  BY <1>10, <1>11

-----------------------------------------------------------------------------
(* The window that is returned                                              *)

\* The bytes of the current read that are still to be returned.
Due(sid) == (IF sid = 0 THEN data_len ELSE 0) + Share(stream_data_lens, sid)

\* The exception of CreditReturned.
Accountable(sid) == sid = 0 => DataOnStreams

\* What was granted and what is due make what was used; what is due to a
\* stream is within data_len, so that nothing is due when data_len is zero and
\* no job is sent.
Balance(sid) ==
    /\ rd = "await" => Granted(sid) = Used(sid)
    /\ rd = "busy" => /\ Share(stream_data_lens, sid) <= data_len
                      /\ Granted(sid) + Due(sid) = Used(sid)

Credits ==
    /\ rd = "handshake" => writer = "none" /\ chan = <<>> /\ heard = <<>>
    /\ writer = "running" => \A sid \in Nat : Accountable(sid) => Balance(sid)

\* All sums are numbers.
LEMMA SumTypes ==
    ASSUME TypeOK, NEW sid
    PROVE  /\ Granted(sid) \in Nat
           /\ Used(sid) \in Nat
           /\ Share(stream_data_lens, sid) \in Nat
<1> DEFINE of(j) == Share(Grants(j), sid)
           by(f) == UsedBy(f, sid)
           g == [j \in JobType |-> of(j)]
           u == [f \in Frames |-> by(f)]
<1>1. \A j \in JobType : of(j) \in Nat
  BY GrantsType, ShareType
<1>2. \A f \in Frames : by(f) \in Nat
  BY FramesAssumption DEF FrameType, UsedBy
<1>3. g \in [JobType -> Nat] /\ u \in [Frames -> Nat]
  <2> HIDE DEF of, by
  <2> QED  BY <1>1, <1>2
<1>4. chan \in Seq(JobType) /\ heard \in Seq(Frames)
  BY DEF TypeOK
<1>5. /\ \A i \in DOMAIN chan : chan[i] \in JobType
      /\ \A k \in DOMAIN heard : heard[k] \in Frames
  BY <1>4, ElementOfSeq, LenProperties
<1>6. /\ [i \in DOMAIN chan |-> g[chan[i]]] = [i \in DOMAIN chan |-> of(chan[i])]
      /\ [k \in DOMAIN heard |-> u[heard[k]]] = [k \in DOMAIN heard |-> by(heard[k])]
  <2> HIDE DEF of, by
  <2> QED  BY <1>5
<1>7. /\ [i \in DOMAIN chan |-> g[chan[i]]] \in Seq(Nat)
      /\ [k \in DOMAIN heard |-> u[heard[k]]] \in Seq(Nat)
  <2> HIDE DEF g, u
  <2>1. Len(chan) \in Nat /\ Len(heard) \in Nat
    BY <1>4, LenProperties
  <2> QED  BY <1>3, <1>4, <2>1, NumbersType
<1>8. /\ Granted(sid) = Total([i \in DOMAIN chan |-> of(chan[i])])
      /\ Used(sid) = Total([k \in DOMAIN heard |-> by(heard[k])])
  BY DEF Granted, Used
<1>9. Share(stream_data_lens, sid) \in Nat
  BY ShareType DEF TypeOK, Pairs
<1> HIDE DEF of, by, g, u
<1>10. Total([i \in DOMAIN chan |-> of(chan[i])]) \in Nat
  BY <1>6, <1>7, TotalType
<1>11. Total([k \in DOMAIN heard |-> by(heard[k])]) \in Nat
  BY <1>6, <1>7, TotalType
<1> QED  BY <1>8, <1>9, <1>10, <1>11

\* A job that is no WINDOW_UPDATE grants nothing.
LEMMA NoGrant ==
    ASSUME TypeOK, NEW job \in JobType, job.kind # "WindowUpdate", Send(job)
    PROVE  \A sid : Granted(sid)' = Granted(sid)
<1>1. TAKE sid
<1>2. CASE chan' = chan
  BY <1>2 DEF Granted
<1>3. CASE chan' = Append(chan, job)
  <2>1. Granted(sid) = Grant(chan, sid) /\ Granted(sid)' = Grant(chan', sid)
    BY DEF Granted, Grant
  <2>2. Grant(Append(chan, job), sid) = Grant(chan, sid) + Share(Grants(job), sid)
    BY GrantGrown DEF TypeOK
  <2>3. Share(Grants(job), sid) = 0
    BY ShareEmpty DEF Grants
  <2>4. Granted(sid) \in Nat
    BY SumTypes
  <2> QED  BY <1>3, <2>1, <2>2, <2>3, <2>4
<1> QED  BY <1>2, <1>3 DEF Send

\* A frame adds what it uses itself.
LEMMA MoreUsed ==
    ASSUME TypeOK, NEW f \in Frames, Receive(f)
    PROVE  \A sid : Used(sid)' = Used(sid) + UsedBy(f, sid)
<1>1. TAKE sid
<1>2. Used(sid) = Use(heard, sid) /\ Used(sid)' = Use(heard', sid)
  BY DEF Used, Use
<1>3. Use(Append(heard, f), sid) = Use(heard, sid) + UsedBy(f, sid)
  BY UseGrown DEF TypeOK
<1> QED  BY <1>2, <1>3 DEF Receive

\* What was on streams before is.
LEMMA StillAccountable ==
    ASSUME TypeOK, NEW f \in Frames, Receive(f), NEW sid, Accountable(sid)'
    PROVE  Accountable(sid) /\ (f.kind = "Data" /\ sid = 0 => f.sid # 0)
<1> SUFFICES ASSUME sid = 0 PROVE DataOnStreams /\ (f.kind = "Data" => f.sid # 0)
  BY DEF Accountable
<1>1. /\ DOMAIN heard' = 1 .. Len(heard) + 1 /\ DOMAIN heard = 1 .. Len(heard)
      /\ Len(heard) \in Nat
      /\ heard'[Len(heard) + 1] = f
      /\ \A k \in DOMAIN heard : heard'[k] = heard[k]
  BY AppendProperties, LenProperties DEF TypeOK, Receive
<1>2. \A k \in DOMAIN heard' : heard'[k].kind = "Data" => heard'[k].sid # 0
  BY DEF Accountable, DataOnStreams
<1>3. DOMAIN heard \subseteq DOMAIN heard' /\ Len(heard) + 1 \in DOMAIN heard'
  BY <1>1
<1>4. DataOnStreams
  BY <1>1, <1>2, <1>3 DEF DataOnStreams
<1>5. f.kind = "Data" => f.sid # 0
  BY <1>1, <1>2, <1>3
<1> QED  BY <1>4, <1>5

\* A DATA frame uses what it adds to the accounts.
LEMMA DataCredits ==
    ASSUME TypeOK, Credits, NEW f \in Frames, Receive(f), f.kind = "Data",
           data_len' = data_len + f.len,
           stream_data_lens' = Append(stream_data_lens, <<f.sid, f.len>>),
           UNCHANGED <<chan, writer>>, rd' \in {"busy"} \cup Ended
    PROVE  Credits'
<1>1. rd = "busy" /\ rd' # "handshake" /\ rd' # "await" /\ f.len \in Nat /\ f.sid \in Nat
  BY FrameFields DEF Receive, Ended
<1> SUFFICES ASSUME writer = "running", NEW sid \in Nat, Accountable(sid)'
             PROVE  Balance(sid)'
  BY <1>1 DEF Credits
<1>2. Accountable(sid) /\ (sid = 0 => f.sid # 0)
  BY StillAccountable
<1>3. /\ Share(stream_data_lens, sid) <= data_len
      /\ Granted(sid) + Due(sid) = Used(sid)
  BY <1>1, <1>2 DEF Credits, Balance
<1> DEFINE n == IF f.sid = sid THEN f.len ELSE 0
           z == IF sid = 0 THEN f.len ELSE 0
<1>4. Share(stream_data_lens, sid)' = Share(stream_data_lens, sid) + n
  <2>1. Share(Append(stream_data_lens, <<f.sid, f.len>>), sid)
          = Share(stream_data_lens, sid) + n
    BY <1>1, ShareAppend DEF TypeOK, Pairs
  <2>2. Share(stream_data_lens, sid)' = Share(stream_data_lens', sid)
    OBVIOUS
  <2> QED  BY <2>1, <2>2
<1>5. Used(sid)' = Used(sid) + UsedBy(f, sid)
  BY MoreUsed
<1>6. UsedBy(f, sid) = n + z
  BY <1>1, <1>2 DEF UsedBy
<1>7. Granted(sid)' = Granted(sid)
  BY DEF Granted
<1>8. /\ Granted(sid) \in Nat /\ Used(sid) \in Nat
      /\ Share(stream_data_lens, sid) \in Nat /\ data_len \in Nat
  BY SumTypes DEF TypeOK
<1>9. n \in Nat /\ z \in Nat /\ n <= f.len
  BY <1>1
<1>10. Due(sid)' = Due(sid) + (n + z)
  <2>1. CASE sid = 0
    BY <1>1, <1>4, <1>8, <1>9, <2>1 DEF Due
  <2>2. CASE sid # 0
    BY <1>1, <1>4, <1>8, <1>9, <2>2 DEF Due
  <2> QED  BY <2>1, <2>2
<1>11. Due(sid) \in Nat
  BY <1>8 DEF Due
<1> HIDE DEF n, z
<1>12. Share(stream_data_lens, sid)' <= data_len'
  BY <1>1, <1>3, <1>4, <1>8, <1>9
<1>13. Granted(sid)' + Due(sid)' = Used(sid)'
  BY <1>3, <1>5, <1>6, <1>7, <1>8, <1>9, <1>10, <1>11
<1> QED  BY <1>1, <1>12, <1>13 DEF Balance

\* No other frame adds to the accounts.
LEMMA OtherCredits ==
    ASSUME TypeOK, Credits, NEW f \in Frames, Receive(f), f.kind # "Data",
           UNCHANGED <<window, writer>>, rd' = rd,
           \A sid : Granted(sid)' = Granted(sid)
    PROVE  Credits'
<1>1. rd = "busy"
  BY DEF Receive
<1> SUFFICES ASSUME writer = "running", NEW sid \in Nat, Accountable(sid)'
             PROVE  Balance(sid)'
  BY <1>1 DEF Credits
<1>2. Accountable(sid)
  BY StillAccountable
<1>3. /\ Share(stream_data_lens, sid) <= data_len
      /\ Granted(sid) + Due(sid) = Used(sid)
  BY <1>1, <1>2 DEF Credits, Balance
<1>4. Used(sid)' = Used(sid)
  BY MoreUsed, SumTypes DEF UsedBy
<1>5. /\ Share(stream_data_lens, sid)' = Share(stream_data_lens, sid)
      /\ data_len' = data_len
      /\ Due(sid)' = Due(sid)
  BY DEF Due, window
<1> QED  BY <1>1, <1>3, <1>4, <1>5 DEF Balance

LEMMA EndedCredits == ASSUME rd' \in Ended PROVE Credits'
BY DEF Credits, Balance, Ended

LEMMA ReceiveFrameCredits ==
    ASSUME TypeOK, Credits, NEW f \in Frames, ReceiveFrame(f)
    PROVE  Credits'
<1>1. CASE FastData(f) \/ Data(f)
  <2>1. PICK n : Receive(f) /\ f.kind = "Data" /\ ReceiveData(f, n)
    BY <1>1 DEF FastData, FastPath, Data, Process
  <2>2. rd = "busy" /\ UNCHANGED <<chan, writer>> /\ rd' \in {"busy"} \cup Ended
    BY <2>1 DEF Receive, ReceiveData, output, Ended
  <2> QED  BY <2>1, <2>2, DataCredits DEF ReceiveData
<1>2. CASE RejectFrame(f) \/ GoAway(f) \/ (Ping(f) /\ rd' = "panic")
  BY <1>2, EndedCredits DEF RejectFrame, GoAway, Ended
<1>3. CASE rd' = "returned"
  BY <1>3, EndedCredits DEF Ended
<1>4. CASE HeadersRefused(f)
  <2>1. /\ Receive(f) /\ f.kind # "Data" /\ rd' = rd
        /\ UNCHANGED <<window, writer>> /\ Send(Job("Reset", f.sid))
    BY <1>4 DEF HeadersRefused, Process
  <2>2. Job("Reset", f.sid) \in JobType /\ Job("Reset", f.sid).kind # "WindowUpdate"
    BY JobTypes, FrameFields DEF JobKinds, Job
  <2> QED  BY <2>1, <2>2, NoGrant, OtherCredits
<1>5. CASE (Headers(f) \/ Continuation(f)) /\ rd' # "returned"
  <2>1. /\ Receive(f) /\ f.kind # "Data" /\ rd' = rd
        /\ UNCHANGED <<window, writer, chan>>
    BY <1>5 DEF Headers, Continuation, Process, OpenStream, output
  <2> QED  BY <2>1, OtherCredits DEF Granted
<1>6. CASE Settings(f) \/ (Ping(f) /\ rd' # "panic")
  <2>1. /\ Receive(f) /\ f.kind # "Data" /\ rd' = rd
        /\ UNCHANGED <<window, writer>>
        /\ Send(Job("SettingsAck", 0)) \/ Send(Job("PingAck", 0))
    BY <1>6 DEF Settings, Ping, Process
  <2>2. /\ Job("SettingsAck", 0) \in JobType /\ Job("PingAck", 0) \in JobType
        /\ Job("SettingsAck", 0).kind # "WindowUpdate"
        /\ Job("PingAck", 0).kind # "WindowUpdate"
    BY JobTypes DEF JobKinds, Job
  <2>3. \A sid : Granted(sid)' = Granted(sid)
    BY <2>1, <2>2, NoGrant
  <2> QED  BY <2>1, <2>3, OtherCredits
<1>7. CASE Reset(f) \/ IgnoreFrame(f)
  <2>1. /\ Receive(f) /\ f.kind # "Data" /\ rd' = rd
        /\ UNCHANGED <<window, writer, chan>>
    BY <1>7 DEF Reset, IgnoreFrame, Process, output
  <2> QED  BY <2>1, OtherCredits DEF Granted
<1> QED
  BY <1>1, <1>2, <1>3, <1>4, <1>5, <1>6, <1>7 DEF ReceiveFrame

\* The end of a read returns what is due.
LEMMA EndReadCredits ==
    ASSUME TypeOK, Credits, EndRead
    PROVE  Credits'
<1>1. /\ rd = "busy" /\ rd' = "await" /\ UNCHANGED <<heard, data_len, writer>>
  BY DEF EndRead
<1> SUFFICES ASSUME writer = "running", NEW sid \in Nat, Accountable(sid)'
             PROVE  Granted(sid)' = Used(sid)'
  BY <1>1 DEF Credits, Balance
<1>2. Accountable(sid) /\ Used(sid)' = Used(sid)
  BY <1>1 DEF Accountable, DataOnStreams, Used
<1>3. /\ Share(stream_data_lens, sid) <= data_len
      /\ Granted(sid) + Due(sid) = Used(sid)
  BY <1>1, <1>2 DEF Credits, Balance
<1>4. /\ Granted(sid) \in Nat /\ Used(sid) \in Nat
      /\ Share(stream_data_lens, sid) \in Nat /\ data_len \in Nat
  BY SumTypes DEF TypeOK
<1>5. CASE data_len > 0
  <2> DEFINE job == Credit(data_len, stream_data_lens)
  <2>1. chan' = Append(chan, job)
    BY <1>5 DEF EndRead, Send
  <2>2. job \in JobType
    BY JobTypes DEF TypeOK
  <2>3. Grants(job) = <<<<0, data_len>>>> \o stream_data_lens
    BY <1>5 DEF Grants, Credit
  <2>4. Share(Grants(job), sid)
          = (IF 0 = sid THEN data_len ELSE 0) + Share(stream_data_lens, sid)
    BY <1>4, <2>3, ShareCons DEF TypeOK, Pairs
  <2>5. Share(Grants(job), sid) = Due(sid)
    BY <2>4 DEF Due
  <2> HIDE DEF job
  <2>6. Grant(Append(chan, job), sid) = Grant(chan, sid) + Share(Grants(job), sid)
    BY <2>2, GrantGrown DEF TypeOK
  <2>7. Granted(sid) = Grant(chan, sid) /\ Granted(sid)' = Grant(chan', sid)
    BY DEF Granted, Grant
  <2> QED  BY <1>2, <1>3, <2>1, <2>5, <2>6, <2>7
<1>6. CASE ~(data_len > 0)
  <2>1. data_len = 0 /\ Share(stream_data_lens, sid) = 0
    BY <1>3, <1>4, <1>6
  <2>2. Granted(sid)' = Granted(sid)
    BY <1>6 DEF EndRead, Granted
  <2>3. Due(sid) = 0
    BY <2>1 DEF Due
  <2> QED  BY <1>2, <1>3, <1>4, <2>2, <2>3
<1> QED  BY <1>5, <1>6

LEMMA CreditsStep ==
    ASSUME TypeOK, Credits, [Next]_vars
    PROVE  Credits'
<1>1. CASE Handshake
  <2>1. chan' = <<>> /\ heard' = <<>> /\ rd' # "handshake" /\ rd' # "busy"
    BY <1>1 DEF Handshake, Credits
  <2>2. DOMAIN chan' = {} /\ DOMAIN heard' = {}
    BY <2>1, EmptySeq
  <2>3. \A sid : Granted(sid)' = 0 /\ Used(sid)' = 0
    <3>1. TAKE sid
    <3>2. /\ [i \in DOMAIN chan' |-> Share(Grants(chan'[i]), sid)] = <<>>
          /\ [k \in DOMAIN heard' |-> UsedBy(heard'[k], sid)] = <<>>
      BY <2>2
    <3> QED  BY <3>2, TotalEmpty DEF Granted, Used
  <2> QED  BY <2>1, <2>3 DEF Credits, Balance
<1>2. CASE BeginRead
  <2>1. /\ rd = "await" /\ rd' = "busy" /\ data_len' = 0
        /\ stream_data_lens' = <<>> /\ UNCHANGED <<chan, heard, writer>>
    BY <1>2 DEF BeginRead, output
  <2>2. \A sid : /\ Accountable(sid)' => Accountable(sid)
                 /\ Granted(sid)' = Granted(sid)
                 /\ Used(sid)' = Used(sid)
    BY <2>1 DEF Accountable, DataOnStreams, Granted, Used
  <2>3. \A sid : Share(stream_data_lens, sid)' = 0 /\ Due(sid)' = 0
    BY <2>1, ShareEmpty DEF Due
  <2>4. \A sid : Granted(sid) \in Nat
    BY SumTypes
  <2>5. ASSUME writer = "running", NEW sid \in Nat, Accountable(sid)'
        PROVE  Balance(sid)'
    <3>1. Granted(sid) = Used(sid)
      BY <2>1, <2>2, <2>5 DEF Credits, Balance
    <3> QED  BY <2>1, <2>2, <2>3, <2>4, <3>1 DEF Balance
  <2> QED  BY <2>1, <2>5 DEF Credits
<1>3. CASE EndRead
  BY <1>3, EndReadCredits
<1>4. ASSUME NEW f \in Frames, ReceiveFrame(f) PROVE Credits'
  BY <1>4, ReceiveFrameCredits
<1>5. CASE ReadClosed
  BY <1>5, EndedCredits DEF ReadClosed, Ended
<1>6. ASSUME UNCHANGED <<rd, window, heard>>,
             writer' = "running" => writer = "running",
             rd = "handshake" => UNCHANGED <<chan, writer>>,
             \A sid : Granted(sid)' = Granted(sid)
      PROVE  Credits'
  <2>1. \A sid : /\ Accountable(sid)' => Accountable(sid)
                 /\ Used(sid)' = Used(sid)
                 /\ Share(stream_data_lens, sid)' = Share(stream_data_lens, sid)
                 /\ Due(sid)' = Due(sid)
    BY <1>6 DEF Accountable, DataOnStreams, Used, Due, window
  <2>2. \A sid : Balance(sid) => Balance(sid)'
    BY <1>6, <2>1 DEF Balance, window
  <2> QED  BY <1>6, <2>1, <2>2 DEF Credits
<1>7. CASE WriteJob \/ WriteFails \/ WriterDone \/ UNCHANGED vars
  <2>1. /\ UNCHANGED <<rd, window, heard, chan>>
        /\ writer' = "running" => writer = "running"
        /\ writer = "running" \/ UNCHANGED writer
    BY <1>7 DEF WriteJob, WriteFails, WriterDone, vars, window, output
  <2>2. rd = "handshake" => writer # "running"
    BY DEF Credits
  <2> QED  BY <1>6, <2>1, <2>2 DEF Granted
<1>8. ASSUME NEW h \in handlers, HandlerReplies(h) \/ HandlerFails(h)
      PROVE  Credits'
  <2>1. /\ UNCHANGED <<rd, window, heard, writer>>
        /\ UNCHANGED chan \/ Send(Job("Response", h.id))
    BY <1>8 DEF HandlerReplies, HandlerFails, output
  <2>2. rd = "handshake" => UNCHANGED chan
    BY <2>1 DEF Credits, Send
  <2>3. Job("Response", h.id) \in JobType /\ Job("Response", h.id).kind # "WindowUpdate"
    BY JobTypes DEF JobKinds, TypeOK, Job
  <2>4. \A sid : Granted(sid)' = Granted(sid)
    <3>1. CASE UNCHANGED chan
      BY <3>1 DEF Granted
    <3>2. CASE Send(Job("Response", h.id))
      BY <2>3, <3>2, NoGrant
    <3> QED  BY <2>1, <3>1, <3>2
  <2> QED  BY <1>6, <2>1, <2>2, <2>4
<1> QED
  BY <1>1, <1>2, <1>3, <1>4, <1>5, <1>7, <1>8 DEF Next, HandlerEnds

LEMMA CreditsHold == Spec => []Credits
<1>1. Init => Credits
  BY DEF Init, Credits
<1>2. TypeOK /\ Credits /\ [Next]_vars => Credits'
  BY CreditsStep
<1> QED  BY <1>1, <1>2, TypeCorrect, PTL DEF Spec

(* Whenever the connection waits for input it has returned the window that  *)
(* DATA has used, on every stream, and on the connection of a client that   *)
(* sends DATA on streams only (CreditReturned).                             *)
THEOREM CreditReturnedHolds == Spec => []CreditReturned
<1>1. Credits => CreditReturned
  <2>1. StreamIds \cup {0} \subseteq Nat
    BY FrameFields DEF StreamIds
  <2> QED  BY <2>1 DEF Credits, Balance, Accountable, CreditReturned
<1> QED  BY <1>1, CreditsHold, PTL
=============================================================================
