------------------------------- MODULE Places -------------------------------
(***************************************************************************)
(* The entries of a sequence at a set of its places: the filters of the    *)
(* code (`records_for`, `fills`, `expire`), in a form that can be proved    *)
(* about, as SelectSeq has no definition the prover knows.                 *)
(***************************************************************************)
EXTENDS Integers, FiniteSets, Sequences

\* The n-th of a set of numbers, from below.
Nth(I, n) == CHOOSE i \in I : Cardinality({j \in I : j <= i}) = n

\* The entries of s at the places in I, in their order.
At(s, I) == [n \in 1 .. Cardinality(I) |-> s[Nth(I, n)]]
=============================================================================
