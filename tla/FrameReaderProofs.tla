------------------------- MODULE FrameReaderProofs -------------------------
(***************************************************************************)
(* Proofs about FrameReader: its state is of its type, and it implements   *)
(* Delivery, for any conversations and however reads cut their octets.     *)
(*                                                                         *)
(* The invariant (FInv) ties the octets that the parser holds and those    *)
(* still to come to the frames that have not acted: what is left of a      *)
(* conversation (LeftOf) is the octets of its next frame and then what is  *)
(* left after it.  So nine octets are the head of a frame, which parse     *)
(* reads as it was meant (ParseHead), and what comes after them is its     *)
(* payload.  A step of the parser that completes a frame does what         *)
(* Delivery does with the whole of it (FrameActs); no other step is seen.  *)
(***************************************************************************)
EXTENDS FrameReader, SequenceLemmas

-----------------------------------------------------------------------------
(* Frames as octets                                                        *)

\* The flags in the nine octets in front of a payload.
Flags(f) == (IF f.end THEN 1 ELSE 0) + (IF f.padded THEN 8 ELSE 0)

\* These octets.
HeadOf(f) ==
    LET n == Len(f.payload)
        s == f.sid
    IN  <<n \div 65536, (n \div 256) % 256, n % 256, Number[f.kind], Flags(f),
          s \div 16777216, (s \div 65536) % 256, (s \div 256) % 256, s % 256>>

\* A frame as ConversationsAssumption has it.
Sound(f) ==
    /\ f \in FrameType
    /\ Len(f.payload) \in Length
    /\ f.padded => /\ f.kind = "Data" /\ f.payload # <<>>
                   /\ Len(f.payload) > 1 + f.payload[1]

\* What the parser reads in a header is what the frame's sender means.
Means(header, f) ==
    /\ header.len = Len(f.payload)
    /\ header.kind = f.kind
    /\ header.sid = f.sid
    /\ is_end_stream(header.flags) <=> f.end
    /\ is_padded(header.flags) <=> f.padded

\* A number is its last octet and the number in front of it.
LEMMA LastOctet ==
    \A n \in Nat : /\ n \div 256 \in Nat /\ n % 256 \in Octet
                   /\ n = 256 * (n \div 256) + (n % 256)
  BY SMT DEF Octet

\* Dividing by 256 again takes the next octet.
LEMMA FrontOctets ==
    \A n \in Nat : /\ (n \div 256) \div 256 = n \div 65536
                   /\ (n \div 65536) \div 256 = n \div 16777216
  BY SMT

\* The first octet is one.
LEMMA SmallFront ==
    /\ \A n \in Length : n \in Nat /\ n \div 65536 \in Octet
    /\ \A n \in StreamId : n \in Nat /\ n \div 16777216 \in 0 .. 127
<1>1. \A n, q, r \in Nat :
        n = 65536 * q + r /\ n <= 16777215 => q < 256
  BY SMT
<1>2. \A n, q, r \in Nat :
        n = 16777216 * q + r /\ n <= 2147483647 => q < 128
  BY SMT
<1>3. \A n \in Nat : /\ n \div 65536 \in Nat /\ n % 65536 \in Nat
                     /\ n = 65536 * (n \div 65536) + (n % 65536)
  BY SMT
<1>4. \A n \in Nat : /\ n \div 16777216 \in Nat /\ n % 16777216 \in Nat
                     /\ n = 16777216 * (n \div 16777216) + (n % 16777216)
  BY SMT
<1>5. ASSUME NEW n \in Length PROVE n \in Nat /\ n \div 65536 \in Octet
  <2>1. n \in Nat /\ n <= 16777215
    BY SMT DEF Length
  <2>2. PICK q \in Nat : q = n \div 65536 /\ q < 256
    BY <1>1, <1>3, <2>1, SMT
  <2> QED  BY <2>1, <2>2, SMT DEF Octet
<1>6. ASSUME NEW n \in StreamId PROVE n \in Nat /\ n \div 16777216 \in 0 .. 127
  <2>1. n \in Nat /\ n <= 2147483647
    BY SMT DEF StreamId
  <2>2. PICK q \in Nat : q = n \div 16777216 /\ q < 128
    BY <1>2, <1>4, <2>1, SMT
  <2> QED  BY <2>1, <2>2, SMT
<1> QED  BY <1>5, <1>6

\* Three octets of a length and four of a stream id, and how they are read.
LEMMA LengthOctets ==
    ASSUME NEW n \in Length
    PROVE  \E a, b, c \in Octet :
             /\ a = n \div 65536 /\ b = (n \div 256) % 256 /\ c = n % 256
             /\ n = 65536 * a + 256 * b + c
<1>1. n \in Nat /\ n \div 65536 \in Octet
  BY SmallFront
<1>2. PICK p \in Nat, c \in Octet : p = n \div 256 /\ c = n % 256 /\ n = 256 * p + c
  BY <1>1, LastOctet
<1>3. PICK a \in Nat, b \in Octet : a = p \div 256 /\ b = p % 256 /\ p = 256 * a + b
  BY LastOctet
<1>4. a = n \div 65536
  BY <1>1, <1>2, <1>3, FrontOctets
<1>5. n = 65536 * a + 256 * b + c
  BY <1>2, <1>3, SMT DEF Octet
<1> QED  BY <1>1, <1>2, <1>3, <1>4, <1>5

LEMMA StreamOctets ==
    ASSUME NEW n \in StreamId
    PROVE  \E z, a, b, c \in Octet :
             /\ z = n \div 16777216 /\ a = (n \div 65536) % 256
             /\ b = (n \div 256) % 256 /\ c = n % 256
             /\ n = 16777216 * (z % 128) + 65536 * a + 256 * b + c
<1>1. n \in Nat /\ n \div 16777216 \in 0 .. 127
  BY SmallFront
<1>2. PICK p \in Nat, c \in Octet : p = n \div 256 /\ c = n % 256 /\ n = 256 * p + c
  BY <1>1, LastOctet
<1>3. PICK q \in Nat, b \in Octet : q = p \div 256 /\ b = p % 256 /\ p = 256 * q + b
  BY LastOctet
<1>4. PICK z \in Nat, a \in Octet : z = q \div 256 /\ a = q % 256 /\ q = 256 * z + a
  BY LastOctet
<1>5. q = n \div 65536
  BY <1>1, <1>2, <1>3, FrontOctets
<1>6. z = n \div 16777216
  BY <1>1, <1>4, <1>5, FrontOctets
<1>7. z % 128 = z /\ z \in Octet
  <2>1. z \in 0 .. 127
    BY <1>1, <1>6
  <2> QED  BY <2>1, SMT DEF Octet
<1>8. n = 16777216 * z + 65536 * a + 256 * b + c
  BY <1>2, <1>3, <1>4, SMT DEF Octet
<1> QED  BY <1>2, <1>3, <1>4, <1>5, <1>6, <1>7, <1>8

\* Every kind has a number of its own, and is read back from it.
LEMMA Numbers ==
    ASSUME NEW k \in Kinds
    PROVE  Number[k] \in Octet /\ FrameKind(Number[k]) = k
<1>1. /\ Number["Data"] = 0 /\ Number["Headers"] = 1
      /\ Number["Reset"] = 3 /\ Number["Ping"] = 6
  BY DEF Number
<1>2. k = "Data" \/ k = "Headers" \/ k = "Reset" \/ k = "Ping"
  BY DEF Kinds
<1>3. \A j \in Kinds : Number[j] = Number[k] => j = k
  BY <1>1, <1>2 DEF Kinds
<1>4. FrameKind(Number[k]) = CHOOSE j \in Kinds : Number[j] = Number[k]
  BY DEF FrameKind
<1>5. FrameKind(Number[k]) = k
  BY <1>3, <1>4
<1>6. Number[k] \in Octet
  BY <1>1, <1>2 DEF Octet
<1> QED  BY <1>5, <1>6

\* Frames are octets.
LEMMA HeadType ==
    ASSUME NEW f, Sound(f)
    PROVE  /\ HeadOf(f) \in Seq(Octet)
           /\ Len(HeadOf(f)) = HEAD_SIZE
           /\ f.payload \in Seq(Octet)
           /\ Octets(f) = HeadOf(f) \o f.payload
           /\ Octets(f) \in Seq(Octet)
<1>1. /\ f.kind \in Kinds /\ f.sid \in StreamId /\ f.end \in BOOLEAN
      /\ f.padded \in BOOLEAN /\ f.payload \in Seq(Octet)
      /\ Len(f.payload) \in Length
  BY DEF Sound, FrameType
<1>2. PICK k \in Octet, g \in Octet : k = Number[f.kind] /\ g = Flags(f)
  <2>1. Number[f.kind] \in Octet
    BY <1>1, Numbers
  <2>2. Flags(f) \in Octet
    BY <1>1 DEF Flags, Octet
  <2> QED  BY <2>1, <2>2
<1>3. PICK n \in Length, s \in StreamId : n = Len(f.payload) /\ s = f.sid
  BY <1>1
<1>4. PICK n1 \in Octet, n2 \in Octet, n3 \in Octet :
        n1 = n \div 65536 /\ n2 = (n \div 256) % 256 /\ n3 = n % 256
  BY LengthOctets
<1>5. PICK s0 \in Octet, s1 \in Octet, s2 \in Octet, s3 \in Octet :
        /\ s0 = s \div 16777216 /\ s1 = (s \div 65536) % 256
        /\ s2 = (s \div 256) % 256 /\ s3 = s % 256
  BY StreamOctets
<1>6. /\ HeadOf(f) = <<n1, n2, n3, k, g, s0, s1, s2, s3>>
      /\ <<n1, n2, n3, k, g, s0, s1, s2, s3>> \in Seq(Octet)
      /\ Len(<<n1, n2, n3, k, g, s0, s1, s2, s3>>) = 9
  <2>1. HeadOf(f) = <<n1, n2, n3, k, g, s0, s1, s2, s3>>
    BY <1>2, <1>3, <1>4, <1>5, SMT DEF HeadOf
  <2>2. <<n1, n2, n3, k, g, s0, s1, s2, s3>> \in Seq(Octet)
    OBVIOUS
  <2>3. Len(<<n1, n2, n3, k, g, s0, s1, s2, s3>>) = 9
    OBVIOUS
  <2> QED  BY <2>1, <2>2, <2>3
<1>7. HeadOf(f) \in Seq(Octet) /\ Len(HeadOf(f)) = HEAD_SIZE
  BY <1>6 DEF HEAD_SIZE
<1>8. Octets(f) = HeadOf(f) \o f.payload
  BY DEF Octets, HeadOf, Flags
<1>9. Octets(f) \in Seq(Octet)
  BY <1>1, <1>7, <1>8, ConcatProperties
<1> QED  BY <1>1, <1>7, <1>8, <1>9

\* FrameHeader::parse reads a header as its sender means it.
LEMMA ParseHead ==
    ASSUME NEW f, Sound(f) PROVE Means(parse(HeadOf(f)), f)
<1>1. /\ f.kind \in Kinds /\ f.sid \in StreamId /\ f.end \in BOOLEAN
      /\ f.padded \in BOOLEAN /\ Len(f.payload) \in Length
  BY DEF Sound, FrameType
<1>2. PICK n \in Length, s \in StreamId : n = Len(f.payload) /\ s = f.sid
  BY <1>1
<1>3. PICK h : h = HeadOf(f)
  OBVIOUS
<1>4. /\ h[1] = n \div 65536 /\ h[2] = (n \div 256) % 256 /\ h[3] = n % 256
      /\ h[4] = Number[f.kind] /\ h[5] = Flags(f)
      /\ h[6] = s \div 16777216 /\ h[7] = (s \div 65536) % 256
      /\ h[8] = (s \div 256) % 256 /\ h[9] = s % 256
  BY <1>2, <1>3, SMT DEF HeadOf
<1>5. parse(h).len = n
  <2>1. parse(h).len = 65536 * h[1] + 256 * h[2] + h[3]
    BY SMT DEF parse
  <2>2. n = 65536 * h[1] + 256 * h[2] + h[3]
    BY <1>4, LengthOctets, SMT
  <2> QED  BY <2>1, <2>2
<1>6. parse(h).kind = f.kind
  <2>1. parse(h).kind = FrameKind(h[4])
    BY SMT DEF parse
  <2> QED  BY <1>1, <1>4, <2>1, Numbers
<1>7. parse(h).sid = s
  <2>1. parse(h).sid = 16777216 * (h[6] % 128) + 65536 * h[7] + 256 * h[8] + h[9]
    BY SMT DEF parse
  <2>2. s = 16777216 * (h[6] % 128) + 65536 * h[7] + 256 * h[8] + h[9]
    BY <1>4, StreamOctets, SMT
  <2> QED  BY <2>1, <2>2, SMT
<1>8. parse(h).flags = Flags(f)
  BY <1>4 DEF parse
<1>9. (is_end_stream(Flags(f)) <=> f.end) /\ (is_padded(Flags(f)) <=> f.padded)
  <2>1. CASE f.end /\ f.padded
    BY <2>1 DEF Flags, is_end_stream, is_padded
  <2>2. CASE f.end /\ ~f.padded
    BY <2>2 DEF Flags, is_end_stream, is_padded
  <2>3. CASE ~f.end /\ f.padded
    BY <2>3 DEF Flags, is_end_stream, is_padded
  <2>4. CASE ~f.end /\ ~f.padded
    BY <2>4 DEF Flags, is_end_stream, is_padded
  <2> QED  BY <2>1, <2>2, <2>3, <2>4
<1> QED  BY <1>2, <1>3, <1>5, <1>6, <1>7, <1>8, <1>9 DEF Means

\* The octets of a conversation that are left after so many frames.
Frames(c) == [i \in DOMAIN c |-> Octets(c[i])]
LeftOf(c) ==
    CHOOSE T \in [Nat -> Seq(Octet)] : Unrolls(T, Frames(c), Len(c))

\* The frames of a conversation.
LEMMA Conversation ==
    ASSUME NEW c \in Conversations
    PROVE  /\ Len(c) \in Nat
           /\ \A i \in 1 .. Len(c) : Sound(c[i])
           /\ Frames(c) \in Seq(Seq(Octet))
           /\ Len(Frames(c)) = Len(c)
           /\ \A i \in 1 .. Len(c) : Frames(c)[i] = Octets(c[i])
<1>1. c \in Seq(FrameType)
  BY ConversationsAssumption
<1>2. PICK N \in Nat : N = Len(c) /\ DOMAIN c = 1 .. N
  BY <1>1, LenProperties
<1>3. ASSUME NEW i \in 1 .. N PROVE Sound(c[i])
  <2>1. i \in DOMAIN c /\ c[i] \in FrameType
    BY <1>1, <1>2, ElementOfSeq
  <2>2. /\ Len(c[i].payload) \in Length
        /\ c[i].padded => /\ c[i].kind = "Data" /\ c[i].payload # <<>>
                          /\ Len(c[i].payload) > 1 + c[i].payload[1]
    BY <2>1, ConversationsAssumption
  <2> QED  BY <2>1, <2>2 DEF Sound
<1>4. \A i \in 1 .. N : Octets(c[i]) \in Seq(Octet)
  BY <1>3, HeadType
<1>5. Frames(c) = [i \in 1 .. N |-> Octets(c[i])]
  BY <1>2 DEF Frames
<1>6. Frames(c) \in Seq(Seq(Octet)) /\ Len(Frames(c)) = N
  <2>1. Frames(c) \in [1 .. N -> Seq(Octet)]
    BY <1>4, <1>5
  <2> QED  BY <2>1
<1>7. \A i \in 1 .. N : Frames(c)[i] = Octets(c[i])
  BY <1>5
<1> QED  BY <1>2, <1>3, <1>6, <1>7

\* What is left is the next frame and what is left after it.
LEMMA Left ==
    ASSUME NEW c \in Conversations
    PROVE  /\ LeftOf(c)[0] = FlattenSeq(Frames(c))
           /\ LeftOf(c)[Len(c)] = <<>>
           /\ \A n \in Nat : LeftOf(c)[n] \in Seq(Octet)
           /\ \A n \in Nat : n < Len(c) =>
                LeftOf(c)[n] = Octets(c[n + 1]) \o LeftOf(c)[n + 1]
<1>1. PICK N \in Nat : N = Len(c) /\ N = Len(Frames(c))
  BY Conversation
<1>2. \E T \in [Nat -> Seq(Octet)] : Unrolls(T, Frames(c), N)
  BY <1>1, Conversation, FlattenTails
<1>3. LeftOf(c) \in [Nat -> Seq(Octet)] /\ Unrolls(LeftOf(c), Frames(c), N)
  BY <1>1, <1>2 DEF LeftOf
<1>4. ASSUME NEW n \in Nat, n < N
      PROVE  LeftOf(c)[n] = Octets(c[n + 1]) \o LeftOf(c)[n + 1]
  <2>1. LeftOf(c)[n] = Frames(c)[n + 1] \o LeftOf(c)[n + 1]
    BY <1>3, <1>4 DEF Unrolls
  <2>2. n + 1 \in 1 .. N
    BY <1>4
  <2>3. Frames(c)[n + 1] = Octets(c[n + 1])
    BY <1>1, <2>2, Conversation
  <2> QED  BY <2>1, <2>3
<1>5. \A n \in Nat : LeftOf(c)[n] \in Seq(Octet)
  BY <1>3
<1>6. LeftOf(c)[0] = FlattenSeq(Frames(c)) /\ LeftOf(c)[N] = <<>>
  BY <1>3 DEF Unrolls
<1> QED  BY <1>1, <1>4, <1>5, <1>6

-----------------------------------------------------------------------------
(* Octets taken from a read                                                *)

\* Octets that move from a read to what was kept before it leave the whole.
Taken(h, r, w, n) ==
    (h \o SubSeq(r, 1, n)) \o (SubSeq(r, n + 1, Len(r)) \o w) = h \o (r \o w)

\* It does.
LEMMA Take ==
    ASSUME NEW S, NEW h \in Seq(S), NEW r \in Seq(S), NEW w \in Seq(S),
           NEW n \in Nat, n <= Len(r)
    PROVE  Taken(h, r, w, n)
<1>1. PICK p \in Seq(S), q \in Seq(S) :
        /\ p = SubSeq(r, 1, n) /\ q = SubSeq(r, n + 1, Len(r))
        /\ p \o q = r
  <2>1. /\ SubSeq(r, 1, n) \in Seq(S)
        /\ SubSeq(r, n + 1, Len(r)) \in Seq(S)
        /\ SubSeq(r, 1, n) \o SubSeq(r, n + 1, Len(r)) = r
    BY Parts
  <2> QED  BY <2>1, Zenon
<1>2. PICK qw \in Seq(S) : qw = q \o w
  BY ConcatProperties
<1>3. Regroups(h, p, qw) /\ Regroups(p, q, w)
  BY Regroup
<1>4. (h \o p) \o qw = h \o (r \o w)
  BY <1>1, <1>2, <1>3, Zenon DEF Regroups
<1> QED  BY <1>1, <1>2, <1>4, Zenon DEF Taken

\* What a read brings of a payload p, of which k octets were there, is the
\* next piece of it.
NextPiece(p, k, n, r, w, x) ==
    /\ SubSeq(r, 1, n) = SubSeq(p, k + 1, k + n)
    /\ SubSeq(r, n + 1, Len(r)) \o w = SubSeq(p, k + n + 1, Len(p)) \o x

\* It is.
LEMMA TakePiece ==
    ASSUME NEW S, NEW p \in Seq(S), NEW r \in Seq(S), NEW w \in Seq(S),
           NEW x \in Seq(S), NEW k \in Nat, NEW n \in Nat,
           k + n <= Len(p), n <= Len(r),
           r \o w = SubSeq(p, k + 1, Len(p)) \o x
    PROVE  NextPiece(p, k, n, r, w, x)
<1>1. PICK a \in Seq(S), b \in Seq(S) :
        /\ a = SubSeq(r, 1, n) /\ b = SubSeq(r, n + 1, Len(r))
        /\ a \o b = r /\ Len(a) = n
  BY Parts
<1>2. PICK c \in Seq(S) :
        /\ c = SubSeq(p, k + 1, k + n) /\ Len(c) = n
        /\ c \o SubSeq(p, k + n + 1, Len(p)) = SubSeq(p, k + 1, Len(p))
  <2>1. /\ SubSeq(p, k + 1, k + n) \in Seq(S)
        /\ Len(SubSeq(p, k + 1, k + n)) = n
        /\ SubSeq(p, k + 1, k + n) \o SubSeq(p, k + n + 1, Len(p))
             = SubSeq(p, k + 1, Len(p))
    BY Piece
  <2> QED  BY <2>1, Zenon
<1>3. PICK d \in Seq(S) : d = SubSeq(p, k + n + 1, Len(p))
  <2>1. Len(p) \in Nat /\ k + n \in Nat
    BY LenProperties
  <2> QED  BY <2>1, Parts
<1>4. PICK bw \in Seq(S), dx \in Seq(S) : bw = b \o w /\ dx = d \o x
  BY ConcatProperties
<1>5. Regroups(a, b, w) /\ Regroups(c, d, x)
  BY Regroup
<1>6. a \o bw = c \o dx
  BY <1>1, <1>2, <1>3, <1>4, <1>5, Zenon DEF Regroups
<1>7. a = c /\ bw = dx
  <2>1. Len(a) = Len(c)
    BY <1>1, <1>2
  <2>2. SameWhole(a, bw, c, dx)
    BY <1>6, Zenon DEF SameWhole
  <2> QED  BY <2>1, <2>2, SameCut
<1> QED  BY <1>1, <1>2, <1>3, <1>4, <1>7, Zenon DEF NextPiece

\* As many octets as are missing and as there are.
LEMMA TakeSize ==
    ASSUME NEW m \in Nat, NEW l \in Nat, m > 0, l > 0
    PROVE  /\ Min({m, l}) \in Nat /\ Min({m, l}) > 0
           /\ Min({m, l}) <= m /\ Min({m, l}) <= l
           /\ Min({m, l}) = m \/ Min({m, l}) = l
<1>1. CASE m <= l
  BY <1>1 DEF Min
<1>2. CASE ~(m <= l)
  BY <1>2 DEF Min
<1> QED  BY <1>1, <1>2

-----------------------------------------------------------------------------
(* The invariant                                                           *)

\* The frame whose octets are read.
Frame == sent[acted + 1]

\* Every variable has its type.
Typed ==
    /\ sent \in Conversations
    /\ wire \in Seq(Octet) /\ read_buf \in Seq(Octet)
    /\ header_buf \in Seq(Octet) /\ Len(header_buf) < HEAD_SIZE
    /\ control_buf \in Seq(Octet)
    /\ rd \in {"await", "busy", "returned"}
    /\ state \in {"Header", "Payload"}
    /\ cur.len \in Nat /\ cur_payload_read \in 0 .. cur.len
    /\ acted \in Nat /\ acted <= Len(sent)
    /\ data_len \in Nat /\ granted \in Nat
    /\ streams \in [DOMAIN streams -> Seq(Octet)]

\* A read begins when the one before it is used up.
ReadUsed == rd = "await" => read_buf = <<>>

\* Between two frames, the octets kept, read and on the wire are those of the
\* frames that have not acted.
InHeader ==
    state = "Header" /\ rd # "returned" =>
        header_buf \o (read_buf \o wire) = LeftOf(sent)[acted]

\* In a frame, the header is the frame's, what was read of its payload is in
\* control_buf or at the end of its stream's body, and the rest of the payload
\* comes before the frames after it.
InPayload ==
    state = "Payload" =>
        /\ rd # "returned"
        /\ acted < Len(sent)
        /\ header_buf = <<>>
        /\ Means(cur, Frame)
        /\ cur_payload_read < cur.len
        /\ read_buf \o wire
             = SubSeq(Frame.payload, cur_payload_read + 1, Len(Frame.payload))
                 \o LeftOf(sent)[acted + 1]
        /\ ~Direct(cur) =>
             control_buf = SubSeq(Frame.payload, 1, cur_payload_read)
        /\ Direct(cur) /\ cur.sid \in DOMAIN streams =>
             \E b \in Seq(Octet) :
                 streams[cur.sid]
                   = b \o SubSeq(Frame.payload, 1, cur_payload_read)

\* The inductive invariant.
FInv == Typed /\ ReadUsed /\ InHeader /\ InPayload

\* It holds at first.
LEMMA InitHolds == Init => FInv
<1> SUFFICES ASSUME Init PROVE FInv
  OBVIOUS
<1>1. sent \in Conversations /\ wire = FlattenSeq(Frames(sent))
  BY DEF Init, Frames
<1>2. /\ LeftOf(sent)[0] = wire
      /\ LeftOf(sent)[0] \in Seq(Octet)
  BY <1>1, Left
<1>3. <<>> \in Seq(Octet) /\ Len(<<>>) = 0
  BY EmptySeq
<1>4. PICK N \in Nat : N = Len(sent)
  BY <1>1, Conversation
<1>5. Typed
  <2>1. streams \in [DOMAIN streams -> Seq(Octet)]
    BY DEF Init
  <2>2. cur.len = 0 /\ cur_payload_read = 0
    BY DEF Init
  <2> QED  BY <1>1, <1>2, <1>3, <1>4, <2>1, <2>2 DEF Init, Typed, HEAD_SIZE
<1>6. ReadUsed /\ InPayload
  BY DEF Init, ReadUsed, InPayload
<1>7. InHeader
  <2>1. <<>> \o wire = wire
    BY <1>2, ConcatEmptySeq
  <2> QED  BY <1>2, <2>1 DEF Init, InHeader
<1> QED  BY <1>5, <1>6, <1>7 DEF FInv

\* The octets still to come, cut where a read ends.
LEMMA ReadKeeps == FInv /\ Read => FInv'
<1> SUFFICES ASSUME FInv, Read PROVE FInv'
  OBVIOUS
<1>1. PICK n \in 1 .. Len(wire) :
        /\ read_buf' = SubSeq(wire, 1, n)
        /\ wire' = SubSeq(wire, n + 1, Len(wire))
  BY DEF Read
<1>2. /\ rd = "await" /\ rd' = "busy" /\ data_len' = 0
      /\ sent' = sent /\ state' = state /\ header_buf' = header_buf
      /\ cur' = cur /\ cur_payload_read' = cur_payload_read
      /\ control_buf' = control_buf /\ streams' = streams
      /\ granted' = granted /\ acted' = acted
  BY DEF Read, parser
<1>3. /\ Typed /\ InHeader /\ InPayload /\ read_buf = <<>>
  BY <1>2 DEF FInv, ReadUsed
<1>4. wire \in Seq(Octet) /\ n \in Nat /\ n <= Len(wire)
  <2>1. wire \in Seq(Octet)
    BY <1>3 DEF Typed
  <2> QED  BY <2>1, LenProperties
<1>5. /\ read_buf' \in Seq(Octet) /\ wire' \in Seq(Octet)
      /\ read_buf' \o wire' = wire
  BY <1>1, <1>4, Parts
<1>6. read_buf' \o wire' = read_buf \o wire
  BY <1>3, <1>4, <1>5, ConcatEmptySeq
<1>7. Typed'
  BY <1>2, <1>3, <1>5 DEF Typed
<1>8. ReadUsed'
  BY <1>2 DEF ReadUsed
<1>9. InHeader'
  BY <1>2, <1>3, <1>6, Zenon DEF InHeader
<1>10. InPayload'
  <2>1. Frame' = Frame
    BY <1>2 DEF Frame
  <2> QED  BY <1>2, <1>3, <1>6, <2>1, Zenon DEF InPayload
<1> QED  BY <1>7, <1>8, <1>9, <1>10 DEF FInv

\* The end of a read takes no octets.
LEMMA EndReadKeeps == FInv /\ EndRead => FInv'
<1> SUFFICES ASSUME FInv, EndRead PROVE FInv'
  OBVIOUS
<1>1. /\ rd = "busy" /\ rd' = "await" /\ read_buf = <<>> /\ read_buf' = read_buf
      /\ granted' = granted + data_len
      /\ sent' = sent /\ wire' = wire /\ state' = state
      /\ header_buf' = header_buf /\ cur' = cur
      /\ cur_payload_read' = cur_payload_read /\ control_buf' = control_buf
      /\ streams' = streams /\ data_len' = data_len /\ acted' = acted
  BY DEF EndRead, parser, effect
<1>2. Typed /\ InHeader /\ InPayload
  BY DEF FInv
<1>3. Typed'
  BY <1>1, <1>2 DEF Typed
<1>4. ReadUsed'
  BY <1>1 DEF ReadUsed
<1>5. InHeader'
  BY <1>1, <1>2, Zenon DEF InHeader
<1>6. InPayload'
  <2>1. Frame' = Frame
    BY <1>1 DEF Frame
  <2> QED  BY <1>1, <1>2, <2>1, Zenon DEF InPayload
<1> QED  BY <1>3, <1>4, <1>5, <1>6 DEF FInv

-----------------------------------------------------------------------------
(* A frame takes effect                                                    *)

\* The state of Delivery.
Bodies == [sid \in DOMAIN streams |-> BodyOf(sid)]
Used   == granted + (IF rd = "await" THEN 0 ELSE data_len)
Closed == (rd = "returned")

\* Delivery's steps about this state, with HEADERS ...
LEMMA NamedOpen ==
    ASSUME NEW f,
           Bodies' = [s \in DOMAIN Bodies \cup {f.sid} |->
                        IF s = f.sid THEN <<>> ELSE Bodies[s]],
           spawned' = spawned, pongs' = pongs, Used' = Used, Closed' = Closed
    PROVE  Promise!Open(f)
  BY DEF Bodies, Used, Closed, Promise!Open

\* ... with RST_STREAM ...
LEMMA NamedCancel ==
    ASSUME NEW f,
           Bodies' = [s \in DOMAIN Bodies \ {f.sid} |-> Bodies[s]],
           spawned' = spawned, pongs' = pongs, Used' = Used, Closed' = Closed
    PROVE  Promise!Cancel(f)
  BY DEF Bodies, Used, Closed, Promise!Cancel, Promise!Without

\* ... with PING ...
LEMMA NamedEcho ==
    ASSUME NEW f, pongs' = Append(pongs, f.payload),
           Bodies' = Bodies, spawned' = spawned, Used' = Used, Closed' = Closed
    PROVE  Promise!Echo(f)
  BY DEF Bodies, Used, Closed, Promise!Echo

\* ... with DATA ...
LEMMA NamedDeliver ==
    ASSUME NEW f
    PROVE  Promise!Deliver(f) <=>
             LET body == Bodies[f.sid] \o Promise!Body(f) IN
             /\ Used' = Used + Len(f.payload)
             /\ \/ /\ f.sid \notin DOMAIN Bodies
                   /\ Bodies' = Bodies /\ spawned' = spawned /\ Closed' = Closed
                \/ /\ f.sid \in DOMAIN Bodies /\ ~f.end
                   /\ Bodies' = [Bodies EXCEPT ![f.sid] = body]
                   /\ spawned' = spawned /\ Closed' = Closed
                \/ /\ f.sid \in DOMAIN Bodies /\ f.end
                   /\ Bodies' = [s \in DOMAIN Bodies \ {f.sid} |-> Bodies[s]]
                   /\ \/ /\ Len(body) >= GrpcPrefix
                         /\ spawned' = Append(spawned, <<f.sid, body>>)
                         /\ Closed' = Closed
                      \/ /\ Len(body) < GrpcPrefix
                         /\ Closed' = TRUE
                         /\ spawned' = spawned
             /\ pongs' = pongs
  BY DEF Bodies, Used, Closed, Promise!Deliver, Promise!Without

\* ... and with any frame.
LEMMA NamedAct ==
    Promise!Act <=>
        /\ ~Closed
        /\ acted < Len(sent)
        /\ acted' = acted + 1
        /\ \/ Frame.kind = "Headers" /\ Promise!Open(Frame)
           \/ Frame.kind = "Data" /\ Promise!Deliver(Frame)
           \/ Frame.kind = "Reset" /\ Promise!Cancel(Frame)
           \/ Frame.kind = "Ping" /\ Promise!Echo(Frame)
        /\ sent' = sent
  BY DEF Closed, Frame, Promise!Act

\* Octets are numbers.
LEMMA Difference ==
    /\ \A o \in Octet : o \in Nat
    /\ \A l, q \in Nat : l - q \in Int /\ l - q <= l
  BY DEF Octet

\* The padding that the parser strips is the padding that the sender added.
LEMMA Stripped ==
    ASSUME NEW f, Sound(f), NEW header, Means(header, f)
    PROVE  /\ strip_data_padding(header.flags, f.payload) = Promise!Body(f)
           /\ Promise!Body(f) \in Seq(Octet)
<1>1. PICK p \in Seq(Octet) : p = f.payload
  BY DEF Sound, FrameType
<1>2. PICK L \in Nat : L = Len(p)
  BY LenProperties
<1>3. CASE f.padded
  <2>1. L > 1 + p[1]
    BY <1>1, <1>2, <1>3 DEF Sound
  <2>2. Promise!Body(f) = SubSeq(p, 2, L - p[1])
    BY <1>1, <1>2, <1>3 DEF Promise!Body
  <2>3. strip_data_padding(header.flags, p) = SubSeq(p, 2, L - p[1])
    BY <1>2, <1>3 DEF strip_data_padding, Means
  <2>4. L # 0
    BY <1>1, <1>2, <1>3, EmptySeq DEF Sound
  <2>5. p[1] \in Octet
    <3>1. 1 \in 1 .. Len(p)
      BY <1>2, <2>4
    <3> QED  BY <3>1, ElementOfSeq
  <2>6. PICK m \in Int : m = L - p[1] /\ m <= L
    <3>1. p[1] \in Nat
      BY <2>5, Difference, Zenon
    <3>2. L - p[1] \in Int /\ L - p[1] <= L
      BY <3>1, Difference, Zenon
    <3> QED  BY <3>2, Zenon
  <2>7. \A i \in 2 .. m : p[i] \in Octet
    <3>1. \A i \in 2 .. m : i \in 1 .. Len(p)
      BY <1>2, <2>6
    <3> QED  BY <3>1, ElementOfSeq
  <2>8. SubSeq(p, 2, m) \in Seq(Octet)
    BY <2>7, SubSeqProperties
  <2> QED  BY <1>1, <2>2, <2>3, <2>6, <2>8
<1>4. CASE ~f.padded
  <2>1. Promise!Body(f) = p
    BY <1>1, <1>4 DEF Promise!Body
  <2>2. strip_data_padding(header.flags, p) = p
    BY <1>4 DEF strip_data_padding, Means
  <2> QED  BY <1>1, <2>1, <2>2
<1> QED  BY <1>3, <1>4

\* The header of the next frame has been read, and the frame is complete.
Ready(header) ==
    /\ Typed /\ rd = "busy" /\ acted < Len(sent)
    /\ Sound(Frame) /\ Means(header, Frame)

\* What every complete frame does.
Completes ==
    /\ state' = "Header" /\ sent' = sent /\ granted' = granted
    /\ acted' = acted + 1

\* The types of what a frame changes.
EffectTyped ==
    /\ streams' \in [DOMAIN streams' -> Seq(Octet)]
    /\ data_len' \in Nat
    /\ rd' \in {"busy", "returned"}

\* Between frames the bodies are those of the streams.
LEMMA PlainBodies ==
    state = "Header" /\ streams \in [DOMAIN streams -> Seq(Octet)]
        => Bodies = streams
<1> SUFFICES ASSUME state = "Header",
                    streams \in [DOMAIN streams -> Seq(Octet)]
             PROVE  Bodies = streams
  OBVIOUS
<1>1. \A sid : BodyOf(sid) = streams[sid]
  BY DEF BodyOf
<1>2. Bodies = [sid \in DOMAIN streams |-> streams[sid]]
  BY <1>1 DEF Bodies
<1> QED  BY <1>2

\* The same, one step later.
LEMMA PlainBodiesNext ==
    state' = "Header" /\ streams' \in [DOMAIN streams' -> Seq(Octet)]
        => Bodies' = streams'
<1>1. (state = "Header" /\ streams \in [DOMAIN streams -> Seq(Octet)]
          => Bodies = streams)'
  BY PlainBodies, PTL
<1> QED  BY <1>1

\* Frames without a body.
LEMMA OthersAct ==
    ASSUME NEW header, NEW payload, Ready(header), Completes,
           Bodies = streams, payload = Frame.payload, Frame.kind # "Data",
           process_frame(header, payload)
    PROVE  EffectTyped /\ Promise!Act
<1>1. /\ rd = "busy" /\ acted < Len(sent)
      /\ streams \in [DOMAIN streams -> Seq(Octet)] /\ data_len \in Nat
      /\ header.kind = Frame.kind /\ header.sid = Frame.sid
  BY DEF Ready, Typed, Means
<1>2. /\ state' = "Header" /\ sent' = sent /\ granted' = granted
      /\ acted' = acted + 1
  BY DEF Completes
<1>3. PICK sid : sid = Frame.sid /\ sid = header.sid
  BY <1>1
<1>4. \/ header.kind = "Headers" /\ HeadersFrame(header)
      \/ header.kind = "Reset" /\ ResetFrame(header)
      \/ header.kind = "Ping" /\ PingFrame(payload)
  BY <1>1 DEF process_frame
<1>5. ASSUME rd' = rd, data_len' = data_len
      PROVE  Used' = Used /\ Closed' = Closed /\ ~Closed
  BY <1>1, <1>2, <1>5 DEF Used, Closed
<1>6. CASE header.kind = "Headers" /\ HeadersFrame(header)
  <2>1. /\ streams' = [s \in DOMAIN streams \cup {sid} |->
                         IF s = sid THEN <<>> ELSE streams[s]]
        /\ rd' = rd /\ data_len' = data_len /\ spawned' = spawned
        /\ pongs' = pongs
    BY <1>3, <1>6 DEF HeadersFrame
  <2>2. streams' \in [DOMAIN streams' -> Seq(Octet)]
    <3>1. <<>> \in Seq(Octet)
      BY EmptySeq
    <3>2. \A s \in DOMAIN streams : streams[s] \in Seq(Octet)
      BY <1>1
    <3> QED  BY <2>1, <3>1, <3>2
  <2>3. Bodies' = streams'
    BY <1>2, <2>2, PlainBodiesNext
  <2>4. Promise!Open(Frame)
    <3>1. Used' = Used /\ Closed' = Closed
      BY <1>5, <2>1
    <3>2. Bodies' = [s \in DOMAIN Bodies \cup {Frame.sid} |->
                      IF s = Frame.sid THEN <<>> ELSE Bodies[s]]
      BY <1>3, <2>1, <2>3
    <3> QED  BY <2>1, <3>1, <3>2, NamedOpen
  <2>5. Promise!Act
    BY <1>1, <1>2, <1>5, <1>6, <2>1, <2>4, NamedAct
  <2> QED  BY <1>1, <2>1, <2>2, <2>5 DEF EffectTyped
<1>7. CASE header.kind = "Reset" /\ ResetFrame(header)
  <2>1. /\ streams' = [s \in DOMAIN streams \ {sid} |-> streams[s]]
        /\ rd' = rd /\ data_len' = data_len /\ spawned' = spawned
        /\ pongs' = pongs
    BY <1>3, <1>7 DEF ResetFrame, Close
  <2>2. streams' \in [DOMAIN streams' -> Seq(Octet)]
    BY <1>1, <2>1
  <2>3. Bodies' = streams'
    BY <1>2, <2>2, PlainBodiesNext
  <2>4. Promise!Cancel(Frame)
    <3>1. Used' = Used /\ Closed' = Closed
      BY <1>5, <2>1
    <3>2. Bodies' = [s \in DOMAIN Bodies \ {Frame.sid} |-> Bodies[s]]
      BY <1>3, <2>1, <2>3
    <3> QED  BY <2>1, <3>1, <3>2, NamedCancel
  <2>5. Promise!Act
    BY <1>1, <1>2, <1>5, <1>7, <2>1, <2>4, NamedAct
  <2> QED  BY <1>1, <2>1, <2>2, <2>5 DEF EffectTyped
<1>8. CASE header.kind = "Ping" /\ PingFrame(payload)
  <2>1. /\ streams' = streams /\ pongs' = Append(pongs, Frame.payload)
        /\ rd' = rd /\ data_len' = data_len /\ spawned' = spawned
    BY <1>8 DEF PingFrame
  <2>2. streams' \in [DOMAIN streams' -> Seq(Octet)]
    BY <1>1, <2>1
  <2>3. Bodies' = Bodies
    BY <1>2, <2>1, <2>2, PlainBodiesNext
  <2>4. Promise!Echo(Frame)
    <3>1. Used' = Used /\ Closed' = Closed
      BY <1>5, <2>1
    <3> QED  BY <2>1, <2>3, <3>1, NamedEcho
  <2>5. Promise!Act
    BY <1>1, <1>2, <1>5, <1>8, <2>1, <2>4, NamedAct
  <2> QED  BY <1>1, <2>1, <2>2, <2>5 DEF EffectTyped
<1> QED  BY <1>4, <1>6, <1>7, <1>8

\* The body that a DATA frame makes.
Made(header, data) ==
    /\ \A s \in DOMAIN streams : s # header.sid => Bodies[s] = streams[s]
    /\ header.sid \in DOMAIN streams =>
         /\ data = Bodies[header.sid] \o Promise!Body(Frame)
         /\ data \in Seq(Octet)

\* A DATA frame whose body is known does what Delivery does with it.
LEMMA DataActs ==
    ASSUME NEW header, NEW data, Ready(header), Completes,
           Made(header, data), Frame.kind = "Data", DataComplete(header, data)
    PROVE  EffectTyped /\ Promise!Act
<1>1. /\ rd = "busy" /\ acted < Len(sent)
      /\ streams \in [DOMAIN streams -> Seq(Octet)] /\ data_len \in Nat
      /\ granted \in Nat
      /\ header.len = Len(Frame.payload) /\ header.sid = Frame.sid
      /\ is_end_stream(header.flags) <=> Frame.end
  BY DEF Ready, Typed, Means
<1>2. /\ state' = "Header" /\ sent' = sent /\ granted' = granted
      /\ acted' = acted + 1
  BY DEF Completes
<1>3. PICK sid : sid = Frame.sid /\ sid = header.sid
  BY <1>1
<1>4. header.len \in Nat
  BY <1>1, Difference DEF Ready, Sound
<1>5. /\ data_len' = data_len + header.len
      /\ pongs' = pongs
  BY DEF DataComplete
<1>6. data_len' \in Nat
  BY <1>1, <1>4, <1>5
<1>7. DOMAIN Bodies = DOMAIN streams
  BY DEF Bodies
<1>8. ASSUME rd' \in {"busy", "returned"} PROVE Used' = Used + Len(Frame.payload)
  BY <1>1, <1>2, <1>4, <1>5, <1>8 DEF Used
<1>9. ~Closed /\ (rd' = rd => Closed' = Closed) /\ (rd' = "returned" => Closed' = TRUE)
  BY <1>1 DEF Closed
<1>10. ASSUME rd' \in {"busy", "returned"}, Promise!Deliver(Frame)
       PROVE  Promise!Act
  BY <1>1, <1>2, <1>9, <1>10, NamedAct
<1> DEFINE body == Bodies[sid] \o Promise!Body(Frame)
<1>11. CASE sid \notin DOMAIN streams /\ rd' = rd /\ streams' = streams
            /\ spawned' = spawned
  <2>1. streams' \in [DOMAIN streams' -> Seq(Octet)]
    BY <1>1, <1>11
  <2>2. Bodies' = streams'
    BY <1>2, <2>1, PlainBodiesNext
  <2>3. \A s \in DOMAIN streams : Bodies[s] = streams[s]
    BY <1>3, <1>11 DEF Made
  <2>4. Bodies = streams
    BY <1>1, <1>7, <2>3 DEF Bodies
  <2>5. Bodies' = Bodies
    BY <1>11, <2>2, <2>4
  <2>6. Promise!Deliver(Frame)
    BY <1>1, <1>3, <1>5, <1>7, <1>8, <1>9, <1>11, <2>5, NamedDeliver
  <2> QED  BY <1>1, <1>6, <1>10, <1>11, <2>1, <2>6 DEF EffectTyped
<1>12. CASE sid \in DOMAIN streams
  <2>1. data = body /\ data \in Seq(Octet)
    BY <1>3, <1>12 DEF Made
  <2>2. \A s \in DOMAIN streams : s # sid => Bodies[s] = streams[s]
    BY <1>3 DEF Made
  <2> HIDE DEF body
  <2>3. CASE ~Frame.end /\ rd' = rd /\ spawned' = spawned
             /\ streams' = [streams EXCEPT ![sid] = data]
    <3>1. streams' \in [DOMAIN streams' -> Seq(Octet)]
      BY <1>1, <2>1, <2>3
    <3>2. Bodies' = streams'
      BY <1>2, <3>1, PlainBodiesNext
    <3>3. streams' = [Bodies EXCEPT ![sid] = body]
      <4>1. streams' = [s \in DOMAIN streams |-> IF s = sid THEN data ELSE streams[s]]
        BY <1>1, <2>3
      <4>2. [Bodies EXCEPT ![sid] = body]
              = [s \in DOMAIN streams |-> IF s = sid THEN body ELSE Bodies[s]]
        BY <1>7
      <4> QED  BY <2>1, <2>2, <4>1, <4>2
    <3>4. Promise!Deliver(Frame)
      BY <1>1, <1>3, <1>5, <1>7, <1>8, <1>9, <1>12, <2>3, <3>2, <3>3, NamedDeliver
         DEF body
    <3> QED  BY <1>1, <1>6, <1>10, <2>3, <3>1, <3>4 DEF EffectTyped
  <2>4. CASE Frame.end /\ streams' = Close(sid)
    <3>1. streams' = [s \in DOMAIN streams \ {sid} |-> streams[s]]
      BY <2>4 DEF Close
    <3>2. streams' \in [DOMAIN streams' -> Seq(Octet)]
      BY <1>1, <3>1
    <3>3. Bodies' = streams'
      BY <1>2, <3>2, PlainBodiesNext
    <3>4. Bodies' = [s \in DOMAIN Bodies \ {Frame.sid} |-> Bodies[s]]
      BY <1>3, <1>7, <2>2, <3>1, <3>3
    <3>5. CASE /\ Len(data) >= GrpcPrefix /\ rd' = rd
               /\ spawned' = Append(spawned, <<sid, data>>)
      <4>1. Promise!Deliver(Frame)
        BY <1>1, <1>3, <1>5, <1>7, <1>8, <1>9, <1>12, <2>1, <2>4, <3>4, <3>5,
           NamedDeliver DEF body
      <4> QED  BY <1>1, <1>6, <1>10, <3>2, <3>5, <4>1 DEF EffectTyped
    <3>6. CASE /\ Len(data) < GrpcPrefix /\ rd' = "returned" /\ spawned' = spawned
      <4>1. Promise!Deliver(Frame)
        BY <1>1, <1>3, <1>5, <1>7, <1>8, <1>9, <1>12, <2>1, <2>4, <3>4, <3>6,
           NamedDeliver DEF body
      <4> QED  BY <1>1, <1>6, <1>10, <3>2, <3>6, <4>1 DEF EffectTyped
    <3> QED  BY <1>1, <1>3, <1>12, <2>4, <3>5, <3>6 DEF DataComplete
  <2> QED  BY <1>1, <1>3, <1>12, <2>3, <2>4 DEF DataComplete
<1> QED  BY <1>1, <1>3, <1>11, <1>12 DEF DataComplete

\* process_frame, given the payload of the frame.
LEMMA FrameActs ==
    ASSUME NEW header, NEW payload, Ready(header), Completes,
           Bodies = streams, payload = Frame.payload,
           process_frame(header, payload)
    PROVE  EffectTyped /\ Promise!Act
<1>1. CASE Frame.kind = "Data"
  <2>1. header.kind = "Data" /\ Sound(Frame) /\ Means(header, Frame)
    BY <1>1 DEF Ready, Means
  <2>2. DataFrame(header, payload)
    BY <2>1 DEF process_frame
  <2>3. PICK data : /\ data = streams[header.sid]
                                \o strip_data_padding(header.flags, payload)
                    /\ DataComplete(header, data)
    BY <2>2 DEF DataFrame
  <2>4. /\ strip_data_padding(header.flags, payload) = Promise!Body(Frame)
        /\ Promise!Body(Frame) \in Seq(Octet)
    BY <2>1, Stripped
  <2>5. ASSUME header.sid \in DOMAIN streams PROVE data \in Seq(Octet)
    <3>1. streams[header.sid] \in Seq(Octet)
      BY <2>5 DEF Ready, Typed
    <3> QED  BY <2>3, <2>4, <3>1, ConcatProperties
  <2>6. Made(header, data)
    BY <2>3, <2>4, <2>5, Zenon DEF Made
  <2> QED  BY <1>1, <2>3, <2>6, DataActs
<1>2. CASE Frame.kind # "Data"
  BY <1>2, OthersAct
<1> QED  BY <1>1, <1>2

-----------------------------------------------------------------------------
(* The steps of the parser                                                 *)

\* A step that Delivery does not see.
LEMMA Unseen ==
    ASSUME sent' = sent, acted' = acted, Bodies' = Bodies, spawned' = spawned,
           pongs' = pongs, Used' = Used, Closed' = Closed
    PROVE  UNCHANGED Promise!vars
  BY DEF Bodies, Used, Closed, Promise!vars

\* The frame that is read next is one of the conversation.
LEMMA FrameSound ==
    ASSUME Typed, acted < Len(sent)
    PROVE  /\ Sound(Frame)
           /\ acted + 1 \in Nat /\ acted + 1 <= Len(sent)
           /\ Len(Frame.payload) \in Nat /\ Frame.payload \in Seq(Octet)
           /\ LeftOf(sent)[acted + 1] \in Seq(Octet)
           /\ LeftOf(sent)[acted] = Octets(Frame) \o LeftOf(sent)[acted + 1]
<1>1. PICK n \in Nat, N \in Nat : n = acted /\ N = Len(sent) /\ n < N
  BY Conversation DEF Typed
<1>2. sent \in Conversations
  BY DEF Typed
<1>3. n + 1 \in 1 .. N /\ n + 1 \in Nat /\ n + 1 <= N
  BY <1>1
<1>4. Sound(Frame)
  BY <1>1, <1>2, <1>3, Conversation DEF Frame
<1>5. /\ LeftOf(sent)[n + 1] \in Seq(Octet)
      /\ LeftOf(sent)[n] = Octets(Frame) \o LeftOf(sent)[n + 1]
  BY <1>1, <1>2, <1>3, Left DEF Frame
<1>6. Len(Frame.payload) \in Nat /\ Frame.payload \in Seq(Octet)
  BY <1>4, HeadType, LenProperties
<1> QED  BY <1>1, <1>3, <1>4, <1>5, <1>6

\* Nine octets between frames are the header of the next one, and what comes
\* after them is its payload and the frames after it.
LEMMA HeaderComplete ==
    ASSUME Typed, NEW h \in Seq(Octet), Len(h) = HEAD_SIZE,
           NEW x \in Seq(Octet), h \o x = LeftOf(sent)[acted]
    PROVE  /\ acted < Len(sent)
           /\ Means(parse(h), Frame)
           /\ x = Frame.payload \o LeftOf(sent)[acted + 1]
<1>1. PICK n \in Nat, N \in Nat : n = acted /\ N = Len(sent) /\ n <= N
  BY Conversation DEF Typed
<1>2. sent \in Conversations
  BY DEF Typed
<1>3. n # N
  <2> SUFFICES ASSUME n = N PROVE FALSE
    OBVIOUS
  <2>1. h \o x = <<>>
    BY <1>1, <1>2, Left
  <2>2. h = <<>>
    BY <2>1, ConcatEqualIffEmpty
  <2> QED  BY <2>2, EmptySeq DEF HEAD_SIZE
<1>4. acted < Len(sent)
  BY <1>1, <1>3
<1>5. Sound(Frame)
  BY <1>4, FrameSound
<1>6. PICK g \in Seq(Octet), p \in Seq(Octet), t \in Seq(Octet) :
        /\ g = HeadOf(Frame) /\ Len(g) = HEAD_SIZE /\ p = Frame.payload
        /\ t = LeftOf(sent)[acted + 1]
        /\ h \o x = (g \o p) \o t
  <2>1. /\ HeadOf(Frame) \in Seq(Octet) /\ Len(HeadOf(Frame)) = HEAD_SIZE
        /\ Frame.payload \in Seq(Octet)
        /\ Octets(Frame) = HeadOf(Frame) \o Frame.payload
    BY <1>5, HeadType
  <2>2. /\ LeftOf(sent)[acted + 1] \in Seq(Octet)
        /\ LeftOf(sent)[acted] = Octets(Frame) \o LeftOf(sent)[acted + 1]
    BY <1>4, FrameSound
  <2> QED  BY <2>1, <2>2, Zenon
<1>7. PICK pt \in Seq(Octet) : pt = p \o t
  BY ConcatProperties
<1>8. Regroups(g, p, t)
  BY Regroup
<1>9. SameWhole(h, x, g, pt)
  BY <1>6, <1>7, <1>8, Zenon DEF Regroups, SameWhole
<1>10. h = g /\ x = pt
  BY <1>6, <1>9, SameCut
<1>11. Means(parse(h), Frame)
  BY <1>5, <1>6, <1>10, ParseHead
<1> QED  BY <1>4, <1>6, <1>7, <1>10, <1>11

\* What a step takes of a read.
LEMMA HeaderTaken ==
    ASSUME FInv, rd = "busy", state = "Header", read_buf # <<>>,
           NEW take, take = Min({HEAD_SIZE - Len(header_buf), Len(read_buf)}),
           NEW header, header = header_buf \o SubSeq(read_buf, 1, take)
    PROVE  /\ header \in Seq(Octet) /\ Len(header) \in Nat
           /\ Rest(take) \in Seq(Octet)
           /\ Rest(take) \o wire \in Seq(Octet)
           /\ header \o (Rest(take) \o wire) = LeftOf(sent)[acted]
<1>1. /\ wire \in Seq(Octet) /\ read_buf \in Seq(Octet)
      /\ header_buf \in Seq(Octet) /\ Len(header_buf) < HEAD_SIZE
  BY DEF FInv, Typed
<1>2. PICK a \in Nat : a = Len(header_buf) /\ a < 9
  BY <1>1, LenProperties DEF HEAD_SIZE
<1>3. PICK b \in Nat : b = Len(read_buf) /\ b > 0
  BY <1>1, EmptySeq
<1>4. take \in Nat /\ take <= b
  <2>1. PICK m \in Nat : m = HEAD_SIZE - Len(header_buf) /\ m > 0
    <3>1. 9 - a \in Nat /\ 9 - a > 0
      BY <1>2
    <3> QED  BY <1>2, <3>1 DEF HEAD_SIZE
  <2>2. Min({m, b}) \in Nat /\ Min({m, b}) <= b
    BY <1>3, <2>1, TakeSize
  <2> QED  BY <1>3, <2>1, <2>2
<1>5. SubSeq(read_buf, 1, take) \in Seq(Octet) /\ Rest(take) \in Seq(Octet)
  BY <1>1, <1>3, <1>4, Parts DEF Rest
<1>6. header \in Seq(Octet)
  BY <1>1, <1>5, ConcatProperties
<1>7. Rest(take) \o wire \in Seq(Octet)
  BY <1>1, <1>5, ConcatProperties
<1>8. Taken(header_buf, read_buf, wire, take)
  BY <1>1, <1>3, <1>4, Take
<1>9. header_buf \o (read_buf \o wire) = LeftOf(sent)[acted]
  BY DEF FInv, InHeader
<1>10. header \o (Rest(take) \o wire) = LeftOf(sent)[acted]
  BY <1>8, <1>9, Zenon DEF Taken, Rest
<1>11. Len(header) \in Nat
  BY <1>6, LenProperties
<1> QED  BY <1>5, <1>6, <1>7, <1>10, <1>11

\* The header goes on in the next read.
LEMMA HeaderPart ==
    ASSUME FInv, ParseHeader, state' = "Header", acted' = acted,
           Len(header_buf') < HEAD_SIZE,
           header_buf' \in Seq(Octet), read_buf' \in Seq(Octet),
           header_buf' \o (read_buf' \o wire) = LeftOf(sent)[acted],
           UNCHANGED <<rd, state, cur, cur_payload_read, control_buf, effect>>
    PROVE  FInv' /\ UNCHANGED Promise!vars
<1>1. /\ rd = "busy" /\ sent' = sent /\ wire' = wire /\ granted' = granted
      /\ rd' = rd /\ state' = state /\ cur' = cur /\ streams' = streams
      /\ cur_payload_read' = cur_payload_read /\ control_buf' = control_buf
      /\ spawned' = spawned /\ pongs' = pongs /\ data_len' = data_len
  BY DEF ParseHeader, effect
<1>2. Typed /\ Typed'
  BY <1>1 DEF FInv, Typed
<1>3. ReadUsed' /\ InPayload'
  BY <1>1 DEF ReadUsed, InPayload
<1>4. InHeader'
  BY <1>1, Zenon DEF InHeader
<1>5. Bodies' = Bodies /\ Used' = Used /\ Closed' = Closed
  BY <1>1 DEF Bodies, BodyOf, Used, Closed
<1> QED  BY <1>1, <1>2, <1>3, <1>4, <1>5, Unseen DEF FInv

\* A frame has acted; the parser stands in front of the next one.
LEMMA FrameDone ==
    ASSUME Typed, EffectTyped, acted < Len(sent), state' = "Header",
           sent' = sent, wire' = wire, granted' = granted, acted' = acted + 1,
           header_buf' = <<>>, read_buf' \in Seq(Octet),
           control_buf' \in Seq(Octet), cur'.len \in Nat,
           cur_payload_read' \in 0 .. cur'.len,
           read_buf' \o wire = LeftOf(sent)[acted + 1]
    PROVE  FInv'
<1>1. /\ acted + 1 \in Nat /\ acted + 1 <= Len(sent)
      /\ LeftOf(sent)[acted + 1] \in Seq(Octet)
  BY FrameSound
<1>2. rd' \in {"busy", "returned"} /\ data_len' \in Nat
      /\ streams' \in [DOMAIN streams' -> Seq(Octet)]
  BY DEF EffectTyped
<1>3. <<>> \in Seq(Octet) /\ Len(<<>>) = 0
  BY EmptySeq
<1>4. Typed'
  <2>1. sent' \in Conversations /\ wire' \in Seq(Octet) /\ granted' \in Nat
    BY DEF Typed
  <2>2. header_buf' \in Seq(Octet) /\ Len(header_buf') < HEAD_SIZE
    BY <1>3 DEF HEAD_SIZE
  <2>3. acted' \in Nat /\ acted' <= Len(sent')
    BY <1>1
  <2>4. rd' \in {"await", "busy", "returned"} /\ state' \in {"Header", "Payload"}
    BY <1>2
  <2> QED  BY <1>2, <2>1, <2>2, <2>3, <2>4, Zenon DEF Typed
<1>5. ReadUsed' /\ InPayload'
  BY <1>2 DEF ReadUsed, InPayload
<1>6. InHeader'
  <2>1. <<>> \o LeftOf(sent)[acted + 1] = LeftOf(sent)[acted + 1]
    BY <1>1, ConcatEmptySeq
  <2> QED  BY <2>1, Zenon DEF InHeader
<1> QED  BY <1>4, <1>5, <1>6 DEF FInv

\* A header of a frame without payload completes the frame.
LEMMA HeaderOnly ==
    ASSUME FInv, rd = "busy", state = "Header", acted < Len(sent),
           NEW frame, Means(frame, Frame), NoPayload(frame),
           process_frame(frame, <<>>),
           state' = "Header", sent' = sent, wire' = wire, granted' = granted,
           header_buf' = <<>>, read_buf' \in Seq(Octet),
           control_buf' = control_buf, cur' = frame, cur_payload_read' = 0,
           read_buf' \o wire = Frame.payload \o LeftOf(sent)[acted + 1]
    PROVE  FInv' /\ Promise!Act
<1>1. Typed
  BY DEF FInv
<1>2. PICK p \in Seq(Octet) : p = Frame.payload /\ Sound(Frame)
  BY <1>1, FrameSound
<1>3. p = <<>>
  BY <1>2, EmptySeq DEF Means, NoPayload
<1>4. read_buf' \o wire = LeftOf(sent)[acted + 1]
  <2>1. LeftOf(sent)[acted + 1] \in Seq(Octet)
    BY <1>1, FrameSound
  <2>2. <<>> \o LeftOf(sent)[acted + 1] = LeftOf(sent)[acted + 1]
    BY <2>1, ConcatEmptySeq
  <2> QED  BY <1>2, <1>3, <2>2, Zenon
<1>5. acted' = acted + 1
  BY DEF process_frame
<1>6. Ready(frame) /\ Completes
  BY <1>1, <1>2, <1>5 DEF Ready, Completes
<1>7. Bodies = streams
  BY <1>1, PlainBodies DEF Typed
<1>8. EffectTyped /\ Promise!Act
  <2>1. PICK payload : payload = <<>> /\ payload = Frame.payload
    BY <1>2, <1>3
  <2> QED  BY <1>6, <1>7, <2>1, FrameActs
<1>9. frame.len \in Nat /\ control_buf' \in Seq(Octet)
  BY <1>1 DEF Typed, NoPayload
<1>10. cur'.len \in Nat /\ cur_payload_read' \in 0 .. cur'.len
  BY <1>9
<1> QED  BY <1>1, <1>4, <1>5, <1>8, <1>9, <1>10, FrameDone

\* A payload follows the header.
LEMMA PayloadFollows ==
    ASSUME FInv, rd = "busy", state = "Header", acted < Len(sent),
           NEW frame, Means(frame, Frame), ~NoPayload(frame),
           state' = "Payload", sent' = sent, wire' = wire, granted' = granted,
           header_buf' = <<>>, read_buf' \in Seq(Octet),
           control_buf' = IF Direct(frame) THEN control_buf ELSE <<>>,
           cur' = frame, cur_payload_read' = 0,
           read_buf' \o wire = Frame.payload \o LeftOf(sent)[acted + 1],
           UNCHANGED <<rd, effect>>
    PROVE  FInv' /\ UNCHANGED Promise!vars
<1>1. Typed /\ streams \in [DOMAIN streams -> Seq(Octet)]
  BY DEF FInv, Typed
<1>2. /\ rd' = rd /\ streams' = streams /\ spawned' = spawned
      /\ pongs' = pongs /\ data_len' = data_len /\ acted' = acted
  BY DEF effect
<1>3. PICK p \in Seq(Octet), L \in Nat : p = Frame.payload /\ L = Len(p)
  BY <1>1, FrameSound
<1>4. cur'.len = L /\ L > 0
  BY <1>3 DEF Means, NoPayload
<1>5. <<>> \in Seq(Octet) /\ Len(<<>>) = 0
  BY EmptySeq
<1>6. control_buf' \in Seq(Octet)
  BY <1>1, <1>5 DEF Typed
<1>7. Typed'
  BY <1>1, <1>2, <1>4, <1>5, <1>6 DEF Typed, HEAD_SIZE
<1>8. ReadUsed' /\ InHeader'
  BY <1>2 DEF ReadUsed, InHeader
<1>9. SubSeq(p, 1, 0) = <<>> /\ SubSeq(p, 1, L) = p
  BY <1>3, SubSeqEmpty, SubSeqFull
<1>10. \A s \in DOMAIN streams :
         /\ streams[s] \in Seq(Octet)
         /\ streams[s] = streams[s] \o SubSeq(p, 1, 0)
         /\ SubSeq(streams[s], 1, Len(streams[s]) - 0) = streams[s]
  <2> SUFFICES ASSUME NEW s \in DOMAIN streams
               PROVE  /\ streams[s] \in Seq(Octet)
                      /\ streams[s] = streams[s] \o SubSeq(p, 1, 0)
                      /\ SubSeq(streams[s], 1, Len(streams[s]) - 0) = streams[s]
    OBVIOUS
  <2>1. PICK b \in Seq(Octet), l \in Nat : b = streams[s] /\ l = Len(b)
    BY <1>1, LenProperties
  <2>2. b \o <<>> = b /\ SubSeq(b, 1, Len(b)) = b
    BY ConcatEmptySeq, SubSeqFull
  <2>3. l - 0 = l
    OBVIOUS
  <2> QED  BY <1>9, <2>1, <2>2, <2>3
<1>11. InPayload'
  <2>1. /\ rd' # "returned" /\ acted' < Len(sent') /\ Means(cur', Frame')
        /\ cur_payload_read' < cur'.len
    BY <1>2, <1>4 DEF Frame
  <2>2. read_buf' \o wire' = SubSeq(Frame'.payload, cur_payload_read' + 1,
                                    Len(Frame'.payload))
                               \o LeftOf(sent')[acted' + 1]
    <3>1. 0 + 1 = 1 /\ Frame' = Frame
      BY <1>2 DEF Frame
    <3> QED  BY <1>2, <1>3, <1>9, <3>1
  <2>3. ~Direct(cur') =>
          control_buf' = SubSeq(Frame'.payload, 1, cur_payload_read')
    <3>1. Frame' = Frame
      BY <1>2 DEF Frame
    <3> QED  BY <1>3, <1>9, <3>1
  <2>4. cur'.sid \in DOMAIN streams' =>
          \E b \in Seq(Octet) :
              streams'[cur'.sid]
                = b \o SubSeq(Frame'.payload, 1, cur_payload_read')
    <3>1. Frame' = Frame
      BY <1>2 DEF Frame
    <3> QED  BY <1>2, <1>3, <1>10, <3>1, Zenon
  <2> QED  BY <2>1, <2>2, <2>3, <2>4, Zenon DEF InPayload
<1>12. Bodies' = Bodies
  <2>1. \A s \in DOMAIN streams : BodyOf(s)' = BodyOf(s)
    <3> SUFFICES ASSUME NEW s \in DOMAIN streams PROVE BodyOf(s)' = streams[s]
      BY DEF BodyOf
    <3>1. SubSeq(streams[s], 1, Len(streams[s]) - 0) = streams[s]
      BY <1>10
    <3> QED  BY <1>2, <3>1 DEF BodyOf
  <2> QED  BY <1>2, <2>1 DEF Bodies
<1>13. Used' = Used /\ Closed' = Closed
  BY <1>2 DEF Used, Closed
<1> QED  BY <1>2, <1>7, <1>8, <1>11, <1>12, <1>13, Unseen DEF FInv

\* Every step of the header.
LEMMA HeaderStep ==
    ASSUME FInv, ParseHeader
    PROVE  FInv' /\ (Promise!Act \/ UNCHANGED Promise!vars)
<1>1. PICK take : take = Min({HEAD_SIZE - Len(header_buf), Len(read_buf)})
  OBVIOUS
<1>2. PICK header : header = header_buf \o SubSeq(read_buf, 1, take)
  OBVIOUS
<1>3. /\ rd = "busy" /\ state = "Header" /\ read_buf # <<>>
      /\ read_buf' = Rest(take)
      /\ sent' = sent /\ wire' = wire /\ granted' = granted
  BY <1>1, <1>2 DEF ParseHeader
<1>4. /\ header \in Seq(Octet) /\ Len(header) \in Nat
      /\ Rest(take) \in Seq(Octet)
      /\ Rest(take) \o wire \in Seq(Octet)
      /\ header \o (Rest(take) \o wire) = LeftOf(sent)[acted]
  BY <1>1, <1>2, <1>3, HeaderTaken
<1>5. CASE /\ Len(header) < HEAD_SIZE
           /\ header_buf' = header
           /\ UNCHANGED <<rd, state, cur, cur_payload_read, control_buf, effect>>
  <2>1. state' = "Header" /\ acted' = acted
    BY <1>3, <1>5 DEF effect
  <2> QED  BY <1>3, <1>4, <1>5, <2>1, HeaderPart
<1>6. CASE /\ Len(header) = HEAD_SIZE
           /\ header_buf' = <<>>
           /\ cur' = parse(header)
           /\ cur_payload_read' = 0
           /\ \/ /\ NoPayload(parse(header))
                 /\ process_frame(parse(header), <<>>)
                 /\ UNCHANGED <<state, control_buf>>
              \/ /\ ~NoPayload(parse(header))
                 /\ state' = "Payload"
                 /\ control_buf' = IF Direct(parse(header))
                                     THEN control_buf ELSE <<>>
                 /\ UNCHANGED <<rd, effect>>
  <2>1. PICK frame : frame = parse(header)
    OBVIOUS
  <2>2. /\ acted < Len(sent)
        /\ Means(frame, Frame)
        /\ read_buf' \o wire = Frame.payload \o LeftOf(sent)[acted + 1]
    BY <1>3, <1>4, <1>6, <2>1, HeaderComplete DEF FInv
  <2>3. CASE /\ NoPayload(frame) /\ process_frame(frame, <<>>)
             /\ UNCHANGED <<state, control_buf>>
    <3>1. state' = "Header" /\ control_buf' = control_buf
      BY <1>3, <2>3
    <3> QED  BY <1>3, <1>4, <1>6, <2>1, <2>2, <2>3, <3>1, HeaderOnly
  <2>4. CASE /\ ~NoPayload(frame) /\ state' = "Payload"
             /\ control_buf' = IF Direct(frame) THEN control_buf ELSE <<>>
             /\ UNCHANGED <<rd, effect>>
    BY <1>3, <1>4, <1>6, <2>1, <2>2, <2>4, PayloadFollows
  <2> QED  BY <1>6, <2>1, <2>3, <2>4
<1>7. \/ /\ Len(header) < HEAD_SIZE
         /\ header_buf' = header
         /\ UNCHANGED <<rd, state, cur, cur_payload_read, control_buf, effect>>
      \/ /\ Len(header) = HEAD_SIZE
         /\ header_buf' = <<>>
         /\ cur' = parse(header)
         /\ cur_payload_read' = 0
         /\ \/ /\ NoPayload(parse(header))
               /\ process_frame(parse(header), <<>>)
               /\ UNCHANGED <<state, control_buf>>
            \/ /\ ~NoPayload(parse(header))
               /\ state' = "Payload"
               /\ control_buf' = IF Direct(parse(header))
                                   THEN control_buf ELSE <<>>
               /\ UNCHANGED <<rd, effect>>
  BY <1>1, <1>2, Zenon DEF ParseHeader
<1> QED  BY <1>5, <1>6, <1>7

\* What a step takes of a payload.
PieceTaken(take) ==
    LET p == Frame.payload
        k == cur_payload_read
    IN  /\ k \in Nat /\ take \in Nat /\ k + take \in Nat
        /\ cur.len \in Nat /\ k + take <= cur.len
        /\ cur.len = Len(p)
        /\ p \in Seq(Octet)
        /\ Rest(take) \in Seq(Octet)
        /\ SubSeq(read_buf, 1, take) \in Seq(Octet)
        /\ SubSeq(p, 1, k) \in Seq(Octet)
        /\ SubSeq(p, 1, k + take) \in Seq(Octet)
        /\ Len(SubSeq(p, 1, k)) = k
        /\ Len(SubSeq(p, 1, k + take)) = k + take
        /\ SubSeq(p, 1, k) \o SubSeq(read_buf, 1, take) = SubSeq(p, 1, k + take)
        /\ Rest(take) \o wire
             = SubSeq(p, k + take + 1, Len(p)) \o LeftOf(sent)[acted + 1]

\* It takes that.
LEMMA PayloadTaken ==
    ASSUME FInv, state = "Payload", read_buf # <<>>,
           NEW take, take = Min({Remaining, Len(read_buf)})
    PROVE  PieceTaken(take)
<1>1. /\ Typed /\ wire \in Seq(Octet) /\ read_buf \in Seq(Octet)
      /\ cur.len \in Nat /\ cur_payload_read \in 0 .. cur.len
  BY DEF FInv, Typed
<1>2. /\ acted < Len(sent) /\ Means(cur, Frame) /\ cur_payload_read < cur.len
      /\ read_buf \o wire
           = SubSeq(Frame.payload, cur_payload_read + 1, Len(Frame.payload))
               \o LeftOf(sent)[acted + 1]
  BY DEF FInv, InPayload
<1>3. PICK k \in Nat, L \in Nat :
        k = cur_payload_read /\ L = cur.len /\ k < L /\ L = Len(Frame.payload)
  <2>1. cur_payload_read \in Nat
    BY <1>1
  <2>2. cur.len = Len(Frame.payload)
    BY <1>2 DEF Means
  <2> QED  BY <1>1, <1>2, <2>1, <2>2, Zenon
<1>4. PICK b \in Nat : b = Len(read_buf) /\ b > 0
  BY <1>1, EmptySeq
<1>5. take \in Nat /\ take <= b /\ k + take \in Nat /\ k + take <= L
  <2>1. PICK m \in Nat : m = L - k /\ m > 0
    <3>1. L - k \in Nat /\ L - k > 0
      BY <1>3
    <3> QED  BY <3>1
  <2>2. take = Min({m, b})
    BY <1>3, <1>4, <2>1 DEF Remaining
  <2>3. /\ Min({m, b}) \in Nat /\ Min({m, b}) <= b /\ Min({m, b}) <= m
    BY <1>4, <2>1, TakeSize
  <2>4. PICK n \in Nat : n = take /\ n <= b /\ n <= m
    BY <2>2, <2>3
  <2>5. k + n \in Nat /\ k + n <= L
    BY <1>3, <2>1, <2>4
  <2> QED  BY <2>4, <2>5
<1>6. PICK n \in Nat : n = take /\ n <= Len(read_buf)
  BY <1>4, <1>5
<1>7. PICK p \in Seq(Octet), x \in Seq(Octet) :
        p = Frame.payload /\ x = LeftOf(sent)[acted + 1] /\ Len(p) = L
  BY <1>1, <1>2, <1>3, FrameSound
<1>8. /\ SubSeq(read_buf, 1, n) \in Seq(Octet) /\ Rest(n) \in Seq(Octet)
  BY <1>1, <1>6, Parts DEF Rest
<1>9. NextPiece(p, k, n, read_buf, wire, x)
  <2>1. read_buf \o wire = SubSeq(p, k + 1, Len(p)) \o x
    BY <1>2, <1>3, <1>7, Zenon
  <2>2. k + n <= Len(p)
    BY <1>5, <1>6, <1>7
  <2> QED  BY <1>1, <1>6, <2>1, <2>2, TakePiece
<1>10. /\ SubSeq(p, 1, k) \in Seq(Octet) /\ Len(SubSeq(p, 1, k)) = k
  BY <1>3, <1>7, Parts
<1>11. /\ SubSeq(p, 1, k + n) \in Seq(Octet)
       /\ Len(SubSeq(p, 1, k + n)) = k + n
  BY <1>5, <1>6, <1>7, Parts
<1>12. SubSeq(p, 1, k) \o SubSeq(p, k + 1, k + n) = SubSeq(p, 1, k + n)
  <2>1. k + n <= Len(p)
    BY <1>5, <1>6, <1>7
  <2> QED  BY <2>1, Piece
<1>13. SubSeq(p, 1, k) \o SubSeq(read_buf, 1, n) = SubSeq(p, 1, k + n)
  BY <1>9, <1>12, Zenon DEF NextPiece
<1>14. Rest(n) \o wire = SubSeq(p, k + n + 1, Len(p)) \o x
  BY <1>9, Zenon DEF NextPiece, Rest
<1>15. k \in Nat /\ n \in Nat /\ L \in Nat
  OBVIOUS
<1>16. k + n \in Nat /\ k + n <= L /\ Len(p) = L
  BY <1>5, <1>6, <1>7
<1>17. /\ k = cur_payload_read /\ n = take /\ L = cur.len /\ p = Frame.payload
       /\ x = LeftOf(sent)[acted + 1]
  BY <1>3, <1>6, <1>7
<1>18. p \in Seq(Octet)
  OBVIOUS
<1> QED  BY <1>8, <1>10, <1>11, <1>13, <1>14, <1>15, <1>16, <1>17, <1>18, Zenon
         DEF PieceTaken

\* While DATA arrives at its stream, the body is what was there before it.
LEMMA BodyBefore ==
    ASSUME FInv, state = "Payload", Direct(cur), cur.sid \in DOMAIN streams
    PROVE  /\ BodyOf(cur.sid) \in Seq(Octet)
           /\ streams[cur.sid] = BodyOf(cur.sid)
                                   \o SubSeq(Frame.payload, 1, cur_payload_read)
<1>1. PICK b \in Seq(Octet) :
        streams[cur.sid] = b \o SubSeq(Frame.payload, 1, cur_payload_read)
  BY DEF FInv, InPayload
<1>2. PICK k \in Nat, p \in Seq(Octet) :
        k = cur_payload_read /\ p = Frame.payload /\ k <= Len(p)
  <2>1. /\ Typed /\ acted < Len(sent) /\ cur_payload_read < cur.len
        /\ cur.len = Len(Frame.payload)
    BY DEF FInv, InPayload, Means
  <2>2. /\ cur.len \in Nat /\ cur_payload_read \in 0 .. cur.len
    BY <2>1 DEF Typed
  <2>3. Frame.payload \in Seq(Octet)
    BY <2>1, FrameSound
  <2> QED  BY <2>1, <2>2, <2>3
<1>3. PICK c \in Seq(Octet) : c = SubSeq(p, 1, k) /\ Len(c) = k
  <2>1. k <= Len(p)
    BY <1>2
  <2>2. SubSeq(p, 1, k) \in Seq(Octet) /\ Len(SubSeq(p, 1, k)) = k
    BY <2>1, Parts
  <2> QED  BY <2>2, Zenon
<1>4. SubSeq(b \o c, 1, Len(b \o c) - k) = b
  BY <1>3, BeforeEnd
<1>5. BodyOf(cur.sid) = SubSeq(streams[cur.sid], 1, Len(streams[cur.sid]) - k)
  BY <1>2 DEF BodyOf
<1>6. BodyOf(cur.sid) = b
  BY <1>1, <1>2, <1>3, <1>4, <1>5, Zenon
<1> QED  BY <1>1, <1>6, Zenon

\* A frame whose payload is collected leaves the bodies alone.
LEMMA CollectedBodies ==
    ASSUME Typed, ~Direct(cur) PROVE Bodies = streams
<1>1. streams \in [DOMAIN streams -> Seq(Octet)]
  BY DEF Typed
<1>2. \A sid : BodyOf(sid) = streams[sid]
  BY DEF BodyOf
<1>3. Bodies = [sid \in DOMAIN streams |-> streams[sid]]
  BY <1>2 DEF Bodies
<1> QED  BY <1>1, <1>3

\* The payload goes on in the next read.
LEMMA PayloadPart ==
    ASSUME FInv, rd = "busy", state = "Payload", NEW take, PieceTaken(take),
           cur_payload_read' = cur_payload_read + take,
           cur_payload_read' < cur.len,
           read_buf' = Rest(take),
           sent' = sent, wire' = wire, header_buf' = header_buf, cur' = cur,
           granted' = granted,
           control_buf' = IF Direct(cur) THEN control_buf
                          ELSE control_buf \o SubSeq(read_buf, 1, take),
           streams' = IF Direct(cur) /\ cur.sid \in DOMAIN streams
                        THEN [streams EXCEPT ![cur.sid] =
                                @ \o SubSeq(read_buf, 1, take)]
                        ELSE streams,
           UNCHANGED <<rd, state, spawned, pongs, data_len, acted>>
    PROVE  FInv' /\ UNCHANGED Promise!vars
<1>1. Typed /\ InPayload
  BY DEF FInv
<1>2. PICK p \in Seq(Octet), k \in Nat, n \in Nat, piece \in Seq(Octet),
           c \in Seq(Octet), d \in Seq(Octet) :
        /\ p = Frame.payload /\ k = cur_payload_read /\ n = take
        /\ piece = SubSeq(read_buf, 1, take)
        /\ c = SubSeq(p, 1, k) /\ Len(c) = k
        /\ d = SubSeq(p, 1, k + n) /\ Len(d) = k + n
        /\ c \o piece = d
        /\ k + n \in Nat /\ k + n <= cur.len /\ cur.len \in Nat
        /\ Rest(take) \in Seq(Octet)
        /\ Rest(take) \o wire
             = SubSeq(p, k + n + 1, Len(p)) \o LeftOf(sent)[acted + 1]
  BY DEF PieceTaken
<1>3. /\ rd' = rd /\ state' = state /\ spawned' = spawned /\ pongs' = pongs
      /\ data_len' = data_len /\ acted' = acted
      /\ cur_payload_read' = k + n
  BY <1>2
<1>4. Frame' = Frame
  BY <1>3 DEF Frame
<1>5. streams \in [DOMAIN streams -> Seq(Octet)] /\ control_buf \in Seq(Octet)
  BY <1>1 DEF Typed
<1>6. control_buf' \in Seq(Octet)
  <2>1. control_buf \o piece \in Seq(Octet)
    BY <1>5, ConcatProperties
  <2> QED  BY <1>2, <1>5, <2>1
<1>7. ASSUME ~Direct(cur) PROVE control_buf' = d
  <2>1. control_buf = c
    BY <1>1, <1>2, <1>7 DEF InPayload
  <2> QED  BY <1>2, <1>7, <2>1
<1> DEFINE Kept == /\ DOMAIN streams' = DOMAIN streams
                   /\ streams' \in [DOMAIN streams' -> Seq(Octet)]
                   /\ Bodies' = Bodies
                   /\ Direct(cur) /\ cur.sid \in DOMAIN streams =>
                        \E x \in Seq(Octet) : streams'[cur.sid] = x \o d
<1>8. ASSUME Direct(cur) /\ cur.sid \in DOMAIN streams PROVE Kept
  <2>1. PICK b \in Seq(Octet) :
          /\ b = BodyOf(cur.sid) /\ streams[cur.sid] = b \o c
    BY <1>2, <1>8, BodyBefore
  <2>2. Regroups(b, c, piece)
    BY Regroup
  <2>3. PICK sid : sid = cur.sid
    OBVIOUS
  <2>4. streams' = [streams EXCEPT ![sid] = (b \o c) \o piece]
    BY <1>2, <1>8, <2>1, <2>3
  <2>5. (b \o c) \o piece = b \o d
    BY <1>2, <2>2, Zenon DEF Regroups
  <2>6. PICK e \in Seq(Octet) : e = b \o d
    BY ConcatProperties
  <2>7. streams' = [streams EXCEPT ![sid] = e]
    BY <2>4, <2>5, <2>6
  <2>8. /\ DOMAIN streams' = DOMAIN streams
        /\ streams' \in [DOMAIN streams' -> Seq(Octet)]
        /\ streams'[sid] = e
        /\ \A s \in DOMAIN streams : s # sid => streams'[s] = streams[s]
    BY <1>5, <1>8, <2>3, <2>7
  <2>9. SubSeq(e, 1, Len(e) - (k + n)) = b
    BY <1>2, <2>6, BeforeEnd
  <2>10. ASSUME NEW s \in DOMAIN streams PROVE BodyOf(s)' = BodyOf(s)
    <3>1. CASE s = sid
      <4>1. BodyOf(s)' = SubSeq(streams'[s], 1, Len(streams'[s]) - (k + n))
        BY <1>3, <1>8, <2>3, <3>1 DEF BodyOf, Direct
      <4> QED  BY <2>1, <2>3, <2>8, <2>9, <3>1, <4>1
    <3>2. CASE s # sid
      <4>1. BodyOf(s)' = streams'[s] /\ BodyOf(s) = streams[s]
        BY <2>3, <3>2 DEF BodyOf
      <4> QED  BY <2>8, <3>2, <4>1
    <3> QED  BY <3>1, <3>2
  <2>11. Bodies' = Bodies
    BY <2>8, <2>10 DEF Bodies
  <2>12. \E x \in Seq(Octet) : streams'[cur.sid] = x \o d
    BY <2>3, <2>6, <2>8
  <2> QED  BY <2>8, <2>11, <2>12
<1>9. ASSUME ~(Direct(cur) /\ cur.sid \in DOMAIN streams) PROVE Kept
  <2>1. streams' = streams
    BY <1>9
  <2>2. ASSUME NEW s \in DOMAIN streams PROVE BodyOf(s)' = BodyOf(s)
    <3>1. BodyOf(s)' = streams[s] /\ BodyOf(s) = streams[s]
      BY <1>3, <1>9, <2>1 DEF BodyOf, Direct
    <3> QED  BY <3>1
  <2>3. Bodies' = Bodies
    BY <2>1, <2>2 DEF Bodies
  <2> QED  BY <1>5, <1>9, <2>1, <2>3
<1>10. Kept
  BY <1>8, <1>9
<1>11. Typed'
  <2>1. k + n \in 0 .. cur.len
    BY <1>2
  <2> QED  BY <1>1, <1>2, <1>3, <1>6, <1>10, <2>1 DEF Typed
<1>12. ReadUsed' /\ InHeader'
  BY <1>3 DEF ReadUsed, InHeader
<1>13. InPayload'
  <2>1. /\ rd' # "returned" /\ acted' < Len(sent') /\ header_buf' = <<>>
        /\ Means(cur', Frame') /\ cur_payload_read' < cur'.len
    BY <1>1, <1>3, <1>4 DEF InPayload
  <2>2. read_buf' \o wire' = SubSeq(Frame'.payload, cur_payload_read' + 1,
                                    Len(Frame'.payload))
                               \o LeftOf(sent')[acted' + 1]
    BY <1>2, <1>3, <1>4, Zenon
  <2>3. SubSeq(Frame'.payload, 1, cur_payload_read') = d
    BY <1>2, <1>3, <1>4
  <2>4. ~Direct(cur') => control_buf' = d
    BY <1>7
  <2>5. Direct(cur') /\ cur'.sid \in DOMAIN streams' =>
          \E x \in Seq(Octet) : streams'[cur'.sid] = x \o d
    BY <1>10
  <2> QED  BY <2>1, <2>2, <2>3, <2>4, <2>5, Zenon DEF InPayload
<1>14. Used' = Used /\ Closed' = Closed
  BY <1>3 DEF Used, Closed
<1>15. FInv'
  BY <1>11, <1>12, <1>13 DEF FInv
<1>16. UNCHANGED Promise!vars
  BY <1>3, <1>10, <1>14, Unseen
<1> QED  BY <1>15, <1>16

\* The payload ends, and with it the frame.
LEMMA PayloadLast ==
    ASSUME FInv, rd = "busy", state = "Payload", NEW take, PieceTaken(take),
           cur_payload_read' = cur_payload_read + take,
           cur_payload_read' >= cur.len,
           read_buf' = Rest(take),
           sent' = sent, wire' = wire, header_buf' = header_buf, cur' = cur,
           granted' = granted, state' = "Header",
           control_buf' = IF Direct(cur) THEN control_buf
                          ELSE control_buf \o SubSeq(read_buf, 1, take),
           \/ /\ Direct(cur)
              /\ acted' = acted + 1
              /\ DataComplete(cur, streams[cur.sid] \o SubSeq(read_buf, 1, take))
           \/ /\ ~Direct(cur)
              /\ process_frame(cur, control_buf')
    PROVE  FInv' /\ Promise!Act
<1>1. Typed /\ InPayload /\ control_buf \in Seq(Octet) /\ header_buf' = <<>>
  BY DEF FInv, Typed, InPayload
<1>2. PICK p \in Seq(Octet), k \in Nat, n \in Nat, L \in Nat,
           piece \in Seq(Octet), c \in Seq(Octet), d \in Seq(Octet) :
        /\ p = Frame.payload /\ k = cur_payload_read /\ n = take
        /\ L = Len(p) /\ L = cur.len
        /\ piece = SubSeq(read_buf, 1, take)
        /\ c = SubSeq(p, 1, k) /\ d = SubSeq(p, 1, k + n)
        /\ c \o piece = d
        /\ k + n \in Nat /\ k + n <= L
        /\ Rest(take) \in Seq(Octet)
        /\ Rest(take) \o wire
             = SubSeq(p, k + n + 1, L) \o LeftOf(sent)[acted + 1]
  BY DEF PieceTaken
<1>3. k + n = L
  <2>1. k + n >= L /\ k + n <= L /\ k + n \in Nat
    BY <1>2, Zenon
  <2>2. \A x, y \in Nat : x >= y /\ x <= y => x = y
    OBVIOUS
  <2> QED  BY <2>1, <2>2, Zenon
<1>4. d = p /\ SubSeq(p, L + 1, L) = <<>>
  <2>1. L + 1 \in Int /\ L \in Int /\ L < L + 1
    OBVIOUS
  <2>2. SubSeq(p, L + 1, L) = <<>>
    BY <2>1, SubSeqEmpty
  <2>3. SubSeq(p, 1, L) = p
    BY <1>2, SubSeqFull
  <2> QED  BY <1>2, <1>3, <2>2, <2>3, Zenon
<1>5. read_buf' \o wire = LeftOf(sent)[acted + 1]
  <2>1. LeftOf(sent)[acted + 1] \in Seq(Octet)
    BY <1>1, FrameSound DEF InPayload
  <2>2. <<>> \o LeftOf(sent)[acted + 1] = LeftOf(sent)[acted + 1]
    BY <2>1, ConcatEmptySeq
  <2> QED  BY <1>2, <1>3, <1>4, <2>2, Zenon
<1>6. /\ Sound(Frame) /\ Means(cur, Frame) /\ acted < Len(sent)
      /\ Ready(cur)
  BY <1>1, FrameSound DEF InPayload, Ready
<1>7. control_buf' \in Seq(Octet)
  <2>1. control_buf \o piece \in Seq(Octet)
    BY <1>1, ConcatProperties
  <2> QED  BY <1>1, <1>2, <2>1
<1>8. EffectTyped /\ Promise!Act /\ acted' = acted + 1
  <2>1. CASE ~Direct(cur) /\ process_frame(cur, control_buf')
    <3>1. PICK payload : payload = control_buf'
      OBVIOUS
    <3>2. control_buf = c
      BY <1>1, <1>2, <2>1 DEF InPayload
    <3>3. payload = Frame.payload
      BY <1>2, <1>4, <2>1, <3>1, <3>2
    <3>4. acted' = acted + 1
      BY <2>1 DEF process_frame
    <3>5. Completes
      BY <3>4 DEF Completes
    <3>6. process_frame(cur, payload)
      BY <2>1, <3>1
    <3>7. Bodies = streams
      BY <1>1, <2>1, CollectedBodies
    <3> QED  BY <1>6, <3>3, <3>4, <3>5, <3>6, <3>7, FrameActs
  <2>2. CASE /\ Direct(cur) /\ acted' = acted + 1
             /\ DataComplete(cur, streams[cur.sid] \o SubSeq(read_buf, 1, take))
    <3>1. PICK data : /\ data = streams[cur.sid] \o piece
                      /\ DataComplete(cur, data)
      BY <1>2, <2>2
    <3>2. Frame.kind = "Data" /\ ~Frame.padded
      BY <1>6, <2>2 DEF Direct, Means
    <3>3. Promise!Body(Frame) = p
      BY <1>2, <3>2 DEF Promise!Body
    <3>4. ASSUME cur.sid \in DOMAIN streams
          PROVE  /\ data = Bodies[cur.sid] \o Promise!Body(Frame)
                 /\ data \in Seq(Octet)
      <4>1. PICK b \in Seq(Octet) :
              /\ b = BodyOf(cur.sid) /\ streams[cur.sid] = b \o c
        BY <1>2, <2>2, <3>4, BodyBefore
      <4>2. Regroups(b, c, piece)
        BY Regroup
      <4>3. data = b \o p
        BY <1>2, <1>4, <3>1, <4>1, <4>2, Zenon DEF Regroups
      <4>4. Bodies[cur.sid] = b
        BY <3>4, <4>1 DEF Bodies
      <4>5. data \in Seq(Octet)
        BY <4>3, ConcatProperties
      <4> QED  BY <3>3, <4>3, <4>4, <4>5
    <3>5. \A s \in DOMAIN streams : s # cur.sid => Bodies[s] = streams[s]
      BY DEF Bodies, BodyOf
    <3>6. Made(cur, data)
      BY <3>4, <3>5 DEF Made
    <3>7. Completes
      BY <2>2 DEF Completes
    <3> QED  BY <1>6, <2>2, <3>1, <3>2, <3>6, <3>7, DataActs
  <2> QED  BY <2>1, <2>2
<1>9. /\ read_buf' \in Seq(Octet) /\ cur'.len \in Nat
      /\ cur_payload_read' \in 0 .. cur'.len
  BY <1>2, <1>3
<1> QED  BY <1>1, <1>5, <1>6, <1>7, <1>8, <1>9, FrameDone

\* Every step of the payload.
LEMMA PayloadStep ==
    ASSUME FInv, ParsePayload
    PROVE  FInv' /\ (Promise!Act \/ UNCHANGED Promise!vars)
<1>1. PICK take : take = Min({Remaining, Len(read_buf)})
  OBVIOUS
<1>2. /\ rd = "busy" /\ state = "Payload" /\ read_buf # <<>>
      /\ read_buf' = Rest(take)
      /\ cur_payload_read' = cur_payload_read + take
      /\ control_buf' = IF Direct(cur) THEN control_buf
                        ELSE control_buf \o SubSeq(read_buf, 1, take)
      /\ sent' = sent /\ wire' = wire /\ header_buf' = header_buf
      /\ cur' = cur /\ granted' = granted
  BY <1>1 DEF ParsePayload
<1>3. PieceTaken(take)
  BY <1>1, <1>2, PayloadTaken
<1>4. CASE /\ cur_payload_read' < cur.len
           /\ streams' = IF Direct(cur) /\ cur.sid \in DOMAIN streams
                           THEN [streams EXCEPT ![cur.sid] =
                                   @ \o SubSeq(read_buf, 1, take)]
                           ELSE streams
           /\ UNCHANGED <<rd, state, spawned, pongs, data_len, acted>>
  BY <1>2, <1>3, <1>4, PayloadPart
<1>5. CASE /\ cur_payload_read' >= cur.len
           /\ state' = "Header"
           /\ \/ /\ Direct(cur)
                 /\ acted' = acted + 1
                 /\ DataComplete(cur, streams[cur.sid]
                                        \o SubSeq(read_buf, 1, take))
              \/ /\ ~Direct(cur)
                 /\ process_frame(cur, control_buf')
  BY <1>2, <1>3, <1>5, PayloadLast
<1> QED  BY <1>1, <1>4, <1>5, Zenon DEF ParsePayload

\* A read, and the end of one, are not seen.
LEMMA ReadUnseen == Read => UNCHANGED Promise!vars
<1> SUFFICES ASSUME Read PROVE UNCHANGED Promise!vars
  OBVIOUS
<1>1. /\ sent' = sent /\ state' = state /\ cur' = cur /\ streams' = streams
      /\ cur_payload_read' = cur_payload_read /\ spawned' = spawned
      /\ pongs' = pongs /\ granted' = granted /\ acted' = acted
      /\ rd = "await" /\ rd' = "busy" /\ data_len' = 0
  BY DEF Read, parser
<1>2. Bodies' = Bodies /\ Closed' = Closed
  BY <1>1 DEF Bodies, BodyOf, Closed
<1>3. Used' = Used
  BY <1>1 DEF Used
<1> QED  BY <1>1, <1>2, <1>3, Unseen

\* Its octets are given back when it ends, and were counted before.
LEMMA EndReadUnseen == FInv /\ EndRead => UNCHANGED Promise!vars
<1> SUFFICES ASSUME FInv, EndRead PROVE UNCHANGED Promise!vars
  OBVIOUS
<1>1. /\ sent' = sent /\ state' = state /\ cur' = cur /\ streams' = streams
      /\ cur_payload_read' = cur_payload_read /\ spawned' = spawned
      /\ pongs' = pongs /\ granted' = granted + data_len /\ acted' = acted
      /\ rd = "busy" /\ rd' = "await" /\ data_len' = data_len
  BY DEF EndRead, parser, effect
<1>2. granted \in Nat /\ data_len \in Nat
  BY DEF FInv, Typed
<1>3. Bodies' = Bodies /\ Closed' = Closed /\ Used' = Used
  BY <1>1, <1>2 DEF Bodies, BodyOf, Closed, Used
<1> QED  BY <1>1, <1>3, Unseen

\* Every step keeps the invariant and is a step of Delivery or none.
LEMMA Step ==
    FInv /\ [Next]_vars => FInv' /\ [Promise!Act]_(Promise!vars)
<1> SUFFICES ASSUME FInv, [Next]_vars
             PROVE  FInv' /\ [Promise!Act]_(Promise!vars)
  OBVIOUS
<1>1. CASE Read
  BY <1>1, ReadKeeps, ReadUnseen
<1>2. CASE ParseHeader
  BY <1>2, HeaderStep
<1>3. CASE ParsePayload
  BY <1>3, PayloadStep
<1>4. CASE EndRead
  BY <1>4, EndReadKeeps, EndReadUnseen
<1>5. CASE UNCHANGED vars
  <2>1. /\ sent' = sent /\ wire' = wire /\ rd' = rd /\ read_buf' = read_buf
        /\ state' = state /\ header_buf' = header_buf /\ cur' = cur
        /\ cur_payload_read' = cur_payload_read /\ control_buf' = control_buf
        /\ streams' = streams /\ spawned' = spawned /\ pongs' = pongs
        /\ data_len' = data_len /\ granted' = granted /\ acted' = acted
    BY <1>5 DEF vars
  <2>2. FInv'
    BY <2>1 DEF FInv, Typed, ReadUsed, InHeader, InPayload, Frame, Direct
  <2>3. Bodies' = Bodies /\ Closed' = Closed /\ Used' = Used
    BY <2>1 DEF Bodies, BodyOf, Closed, Used
  <2> QED  BY <2>1, <2>2, <2>3, Unseen
<1> QED  BY <1>1, <1>2, <1>3, <1>4, <1>5 DEF Next

\* The invariant always holds.
LEMMA FInvHolds == Spec => []FInv
<1>1. FInv /\ [Next]_vars => FInv'
  BY Step
<1> QED  BY <1>1, InitHolds, PTL DEF Spec

\* The parser's state is of its type: no more octets of a frame are counted
\* than it has, and no more frames act than were sent.
THEOREM TypeCorrect == Spec => []TypeOK
<1>1. FInv => TypeOK
  <2> SUFFICES ASSUME FInv PROVE TypeOK
    OBVIOUS
  <2>1. Typed
    BY DEF FInv
  <2>2. Len(sent) \in Nat
    BY <2>1, Conversation DEF Typed
  <2>3. acted \in 0 .. Len(sent)
    BY <2>1, <2>2 DEF Typed
  <2>4. \A sid \in DOMAIN streams : streams[sid] \in Seq(Octet)
    BY <2>1 DEF Typed
  <2> QED  BY <2>1, <2>3, <2>4 DEF Typed, TypeOK
<1> QED  BY <1>1, FInvHolds, PTL

\* Wherever the reads cut the octets, the frames take effect whole, once and
\* in order (FrameReader implements Delivery).
THEOREM WholeFramesHolds == Spec => WholeFrames
<1>1. Init => Promise!Init
  <2> SUFFICES ASSUME Init PROVE Promise!Init
    OBVIOUS
  <2>1. [sid \in DOMAIN streams |-> BodyOf(sid)] = [sid \in {} |-> <<>>]
    BY DEF Init
  <2> QED  BY <2>1 DEF Init, Promise!Init
<1>2. FInv /\ [Next]_vars => [Promise!Act]_(Promise!vars)
  BY Step
<1> QED  BY <1>1, <1>2, FInvHolds, PTL DEF Spec, WholeFrames, Promise!Spec
=============================================================================
