---------------------------- MODULE MCRunPolling ----------------------------
(***************************************************************************)
(* Instances of RunPolling: two runs, two or three requests out at once.   *)
(***************************************************************************)
EXTENDS RunPolling, TLC
=============================================================================
