------------------------------- MODULE Delivery -------------------------------
(***************************************************************************)
(* What the frame reader promises: the frames a client sends take effect   *)
(* whole, once and in order.                                               *)
(***************************************************************************)
EXTENDS Integers, SequencesExt

CONSTANTS
    Conversations,   \* what a client may send: sequences of frames
    GrpcPrefix       \* length of the gRPC message prefix (5 in the code)

VARIABLES
    sent,       \* the frames the client sends
    acted,      \* how many of them have taken effect
    bodies,     \* open stream -> what has arrived of its body
    requests,   \* complete requests, in order
    pongs,      \* payloads of the pings answered
    used,       \* octets of DATA payloads to be given back
    closed

vars == <<sent, acted, bodies, requests, pongs, used, closed>>

Init ==
    /\ sent \in Conversations
    /\ acted = 0
    /\ bodies = [sid \in {} |-> <<>>]
    /\ requests = <<>>
    /\ pongs = <<>>
    /\ used = 0
    /\ closed = FALSE

Body(frame) ==
    IF frame.padded
      THEN SubSeq(frame.payload, 2, Len(frame.payload) - frame.payload[1])
      ELSE frame.payload

Without(sid) == [s \in DOMAIN bodies \ {sid} |-> bodies[s]]

Open(frame) ==
    /\ bodies' = [s \in DOMAIN bodies \cup {frame.sid} |->
                    IF s = frame.sid THEN <<>> ELSE bodies[s]]
    /\ UNCHANGED <<requests, pongs, used, closed>>

\* A body that ends short of the prefix closes the connection.
Deliver(frame) ==
    LET sid  == frame.sid
        body == bodies[sid] \o Body(frame)
    IN  /\ used' = used + Len(frame.payload)
        /\ \/ /\ sid \notin DOMAIN bodies
              /\ UNCHANGED <<bodies, requests, closed>>
           \/ /\ sid \in DOMAIN bodies /\ ~frame.end
              /\ bodies' = [bodies EXCEPT ![sid] = body]
              /\ UNCHANGED <<requests, closed>>
           \/ /\ sid \in DOMAIN bodies /\ frame.end
              /\ bodies' = Without(sid)
              /\ \/ /\ Len(body) >= GrpcPrefix
                    /\ requests' = Append(requests, <<sid, body>>)
                    /\ UNCHANGED closed
                 \/ /\ Len(body) < GrpcPrefix
                    /\ closed' = TRUE
                    /\ UNCHANGED requests
        /\ UNCHANGED pongs

Cancel(frame) ==
    /\ bodies' = Without(frame.sid)
    /\ UNCHANGED <<requests, pongs, used, closed>>

Echo(frame) ==
    /\ pongs' = Append(pongs, frame.payload)
    /\ UNCHANGED <<bodies, requests, used, closed>>

Act ==
    /\ ~closed
    /\ acted < Len(sent)
    /\ acted' = acted + 1
    /\ LET frame == sent[acted + 1] IN
         \/ frame.kind = "Headers" /\ Open(frame)
         \/ frame.kind = "Data" /\ Deliver(frame)
         \/ frame.kind = "Reset" /\ Cancel(frame)
         \/ frame.kind = "Ping" /\ Echo(frame)
    /\ UNCHANGED sent

Spec == Init /\ [][Act]_vars
=============================================================================
