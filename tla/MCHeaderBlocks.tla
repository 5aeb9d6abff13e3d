--------------------------- MODULE MCHeaderBlocks ---------------------------
(* Instances of HeaderBlocks for TLC: two services, one of which shadows a *)
(* path of the other, and a path nobody serves.                            *)
EXTENDS HeaderBlocks

PathA == "/svc.A/m"
PathB == "/svc.B/m"
PathX == "/none"

MCPaths == {PathA, PathB, PathX}
MCServices ==
    << [p \in MCPaths |-> IF p = PathA THEN 0 ELSE None],
       [p \in MCPaths |-> IF p = PathX THEN None ELSE 1] >>
=============================================================================
