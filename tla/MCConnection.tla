---------------------------- MODULE MCConnection ----------------------------
(* Instances of Connection for TLC: the frames the peer may send.          *)
EXTENDS Connection

F(kind, sid, len, flags) ==
    [kind |-> kind, sid |-> sid, len |-> len, pad |-> 0, inc |-> 0,
     flags |-> flags]

\* Requests on three streams: with and without a body, with the header block
\* in one frame, split, or padded and with a priority; bodies in unpadded,
\* padded and empty DATA frames; cancellation.
RequestFrames ==
    { F("Headers", 1, 3, {END_HEADERS}),
      F("Headers", 1, 3, {}),
      F("Continuation", 1, 2, {END_HEADERS}),
      F("Data", 1, 2, {}),
      F("Data", 1, 0, {END_STREAM}),
      [F("Data", 1, 4, {PADDED, END_STREAM}) EXCEPT !.pad = 1],
      F("Reset", 1, 4, {}),
      F("Headers", 3, 3, {END_HEADERS}),
      F("Headers", 3, 3, {END_HEADERS, END_STREAM}),
      F("Data", 3, 2, {END_STREAM}),
      F("Headers", 5, 3, {}),
      F("Data", 0, 2, {}) }

\* Frames that belong to no request, and ones that end the connection.
OtherFrames ==
    { F("Settings", 0, 6, {}),
      F("Settings", 0, 0, {END_STREAM}),
      F("Ping", 0, 8, {}),
      F("Ping", 0, 8, {END_STREAM}),
      F("Ping", 0, 4, {}),
      F("GoAway", 0, 8, {}),
      [F("WindowUpdate", 1, 4, {}) EXCEPT !.inc = 1],
      F("WindowUpdate", 0, 4, {}),
      F("Other", 1, 1, {}),
      F("Settings", 1, 6, {}),
      [F("Data", 1, 2, {PADDED}) EXCEPT !.pad = 1],
      F("Continuation", 1, 2, {}),
      [F("Headers", 5, 9, {END_HEADERS, PADDED, PRIORITY}) EXCEPT !.pad = 1] }

\* Those, and three ways to complete a request.
ControlFrames ==
    OtherFrames \cup
    { F("Headers", 1, 3, {END_HEADERS}),
      F("Data", 1, 2, {END_STREAM}),
      F("Headers", 3, 3, {END_HEADERS, END_STREAM}) }
=============================================================================
