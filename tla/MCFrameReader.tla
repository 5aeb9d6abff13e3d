---------------------------- MODULE MCFrameReader ----------------------------
(* Instance of FrameReader for TLC: a request opens, and frames of every     *)
(* sort follow; the longest conversations end with the body of stream 1.     *)
(* Payload octets are distinct per place.                                    *)
EXTENDS FrameReader, FiniteSetsExt

CONSTANT MaxFrames   \* bound: frames after the opening one

Frame(kind, sid, end, padded, payload) ==
    [kind |-> kind, sid |-> sid, end |-> end, padded |-> padded,
     payload |-> payload]

Opening == Frame("Headers", 1, FALSE, FALSE, <<130>>)

Following ==
    { Frame("Headers", 3, FALSE, FALSE, <<131>>),
      Frame("Data", 1, FALSE, FALSE, <<11, 12>>),
      Frame("Data", 1, TRUE, FALSE, <<13>>),
      Frame("Data", 1, TRUE, FALSE, <<>>),
      Frame("Data", 1, FALSE, TRUE, <<1, 14, 15, 0>>),
      Frame("Data", 3, FALSE, FALSE, <<31, 32>>),
      Frame("Ping", 0, FALSE, FALSE, <<1, 2, 3, 4, 5, 6, 7, 8>>),
      Frame("Reset", 1, FALSE, FALSE, <<0, 0, 0, 8>>) }

Talk ==
    {<<Opening>> \o c :
        c \in UNION {[1 .. n -> Following] : n \in 0 .. MaxFrames - 1}
             \cup {d \in [1 .. MaxFrames -> Following] : d[MaxFrames].end}}
=============================================================================
