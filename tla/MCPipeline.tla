----------------------------- MODULE MCPipeline -----------------------------
(***************************************************************************)
(* Three pipelines over one handle: two judge a decision each, one none.   *)
(* Any two stages have one name, so two of a kind ask a question twice.    *)
(***************************************************************************)
EXTENDS Pipeline, TLC

CONSTANTS p1, p2, p3, d1, d2, classify, check

ThreeWays == p1 :> d1 @@ p2 :> d2 @@ p3 :> Untagged

MCAsksOf == classify :> {"label"} @@ check :> {"claim"}
=============================================================================
