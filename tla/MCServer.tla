------------------------------ MODULE MCServer ------------------------------
(***************************************************************************)
(* Instances of Server for TLC.  The connections are not declared          *)
(* symmetric: the run checks a liveness property.  Nothing needs a bound   *)
(* but Conns: every connection arrives once and every worker dies once.    *)
(***************************************************************************)
EXTENDS Server
=============================================================================
