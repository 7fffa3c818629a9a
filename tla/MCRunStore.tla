----------------------------- MODULE MCRunStore -----------------------------
(***************************************************************************)
(* The run store on a small instance.  The clients are interchangeable.    *)
(***************************************************************************)
EXTENDS RunStore, TLC

ClientSymmetry == Permutations(Clients)
=============================================================================
