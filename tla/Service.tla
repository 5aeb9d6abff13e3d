------------------------------- MODULE Service -------------------------------
(***************************************************************************)
(* What one connection owes its streams: each lives once, from the         *)
(* client's first frame to one answer.                                     *)
(*                                                                         *)
(*   idle -> receiving -> running -> answered | dropped                    *)
(*                                                                         *)
(* A stream without a body runs at once, a stream over the limit is        *)
(* refused, and "over" is where a stream goes that gets no answer: it was  *)
(* skipped, cancelled, on a connection that ended, or its answer came when *)
(* nobody could write it.                                                  *)
(***************************************************************************)
EXTENDS Integers

CONSTANT Streams   \* stream ids

VARIABLES
    life,      \* stream -> where it is in its life
    closed     \* nothing more is read

vars == <<life, closed>>

Init == life = [s \in Streams |-> "idle"] /\ closed = FALSE

Receiving == {s \in Streams : life[s] = "receiving"}

\* The streams below one that opens will never be opened.
Skipped(sid) == {s \in Streams : s < sid /\ life[s] = "idle"}

Become(over, sid, now) ==
    life' = [s \in Streams |->
               IF s = sid THEN now ELSE IF s \in over THEN "over" ELSE life[s]]

Open(sid) ==
    /\ ~closed
    /\ life[sid] = "idle"
    /\ \E now \in {"receiving", "running", "refused", "over"} :
         Become(Skipped(sid), sid, now)
    /\ UNCHANGED closed

Complete(sid) ==
    /\ ~closed
    /\ life[sid] = "receiving"
    /\ life' = [life EXCEPT ![sid] = "running"]
    /\ UNCHANGED closed

Cancel(sid) ==
    /\ ~closed
    /\ life[sid] = "receiving"
    /\ life' = [life EXCEPT ![sid] = "over"]
    /\ UNCHANGED closed

\* Running streams are finished whether or not anything is read.
Finish(sid) ==
    /\ life[sid] = "running"
    /\ \E now \in {"answered", "dropped", "over"} :
         life' = [life EXCEPT ![sid] = now]
    /\ UNCHANGED closed

\* The connection ends, perhaps on the frame that would have opened a stream.
Close ==
    /\ ~closed
    /\ closed' = TRUE
    /\ \/ life' = [s \in Streams |->
                     IF s \in Receiving THEN "over" ELSE life[s]]
       \/ \E sid \in Streams :
            /\ life[sid] = "idle"
            /\ Become(Skipped(sid) \cup Receiving, sid, "over")

Next ==
    \/ \E sid \in Streams :
         Open(sid) \/ Complete(sid) \/ Cancel(sid) \/ Finish(sid)
    \/ Close

Spec == Init /\ [][Next]_vars
=============================================================================
