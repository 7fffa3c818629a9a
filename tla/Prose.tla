------------------------------- MODULE Prose --------------------------------
(***************************************************************************)
(* The text of a summary, by its length in characters: how                  *)
(* crates/jev-core/src/primitives/explain.rs joins the facts it was told to *)
(* include into one sentence, and which of them it drops for want of room.  *)
(***************************************************************************)
EXTENDS Integers, Sequences, SequencesExt

CONSTANT MaxSummary   \* MAX_SUMMARY

ASSUME MaxSummaryAssumption == MaxSummary \in Nat

\* A fact has the length of its phrase, and may end its sentence itself.
FactSpec == [name : STRING, len : Nat, stops : BOOLEAN]

\* join_sentence and end_sentence: parts are joined by "; " and the last by ", and ",
\* and a sentence that does not end gets its full stop.
Lengthen(len, part) == len + part.len
Sentence(parts) ==
  LET n == Len(parts)
      joined == FoldLeft(Lengthen, 0, parts) + (IF n < 2 THEN 0 ELSE 2 * (n - 2) + 6)
  IN  IF n = 0 THEN 0 ELSE joined + (IF parts[n].stops THEN 0 ELSE 1)

\* The lead, a space and the facts; with no fact, the lead alone.
Length(lead, facts) == IF facts = <<>> THEN lead ELSE lead + 1 + Sentence(facts)

\* Mutant of KeepOne: a fact is kept if the summary before it fits.
KeepOneLate(summary, fact) ==
  IF Length(summary.lead, summary.kept) <= MaxSummary
  THEN [summary EXCEPT !.kept = Append(@, fact)] ELSE summary

\* A fact is kept if the summary still fits with it, and dropped otherwise; a
\* shorter one after it may still be kept.
KeepOne(summary, fact) ==
  LET attempt == Append(summary.kept, fact)
  IN  IF Length(summary.lead, attempt) <= MaxSummary
      THEN [summary EXCEPT !.kept = attempt] ELSE summary

KeepFacts(lead, facts) == FoldLeft(KeepOne, [lead |-> lead, kept |-> <<>>], facts).kept
=============================================================================
