---------------------------- MODULE MCPrimitives ----------------------------
(***************************************************************************)
(* Every primitive on a small spec, with a backend that answers at and just *)
(* beyond each tolerance.  Unit is 300, an f32 a multiple of 3: 0.5 is 150, *)
(* the band (0.4, 0.6) is (120, 180), 0.01 is 3 and 0.05 is 15.             *)
(***************************************************************************)
EXTENDS Primitives, TLC

MCSingle == [v \in 0 .. Unit |-> 3 * ((v + 1) \div 3)]

Labels == <<"a", "b", "c">>
Item(name, rule) == [name |-> name, rule |-> rule]
Fact(name, len, stops) == [name |-> name, len |-> len, stops |-> stops]

MCClassify == [kind |-> "classify", labels |-> Labels]
MCCheck    == [kind |-> "check",
               items |-> <<Item("x", "none"), Item("r", "fails"), Item("y", "none")>>]
MCRules    == [kind |-> "check", items |-> <<Item("r", "holds")>>]
MCGate     == [kind |-> "gate", levels |-> 3]
MCScore    == [kind |-> "score", bands |-> 2, drivers |-> <<"d1", "d2", "d3", "d4">>]
MCRank     == [kind |-> "rank", candidates |-> <<"p", "q", "s">>, levels |-> 2]
MCTwice    == [kind |-> "rank", candidates |-> <<"p", "p">>, levels |-> 2]
MCExplain  == [kind |-> "explain", framings |-> Labels, severity |-> 3,
               leads |-> <<10, 24, 33>>, words |-> <<3, 4, 5>>,
               facts |-> <<Fact("f", 9, FALSE), Fact("g", 4, TRUE), Fact("h", 2, FALSE)>>]

MCJudgments == {<<MCClassify, MCCheck>>, <<MCGate>>, <<MCScore>>, <<MCRank>>, <<MCExplain>>,
                <<MCRules>>, <<MCTwice>>}

Between(labels) == {labels, Reverse(labels)}

\* An answer that lists each label with its weight.
ChoiceAnswers(labels, weights, confidences) ==
  {[type |-> "choice", label |-> l, order |-> o, probabilities |-> ps, confidence |-> c] :
     l \in Range(labels) \cup {"other"}, o \in Between(labels),
     ps \in [Range(labels) -> weights], c \in confidences}

LevelAnswers(levels, weights, scores, confidences) ==
  {[type |-> "score", score |-> s, legend |-> levels, probabilities |-> ps, confidence |-> c] :
     s \in scores, c \in confidences,
     ps \in [0 .. levels - 1 -> weights] \cup {levels - 1 :> Unit}}

Nouls(ps) == {[type |-> "noul", noul |-> TRUE, p |-> p] : p \in ps}

MCAnswers(name, ask) ==
  CASE ask.type = "noul" ->
         IF Head(name) = "fact" THEN Nouls({149, 150})
         ELSE IF Head(name) = "driver" THEN Nouls({0, 148, 149, 150, 300})
         ELSE Nouls({0, 120, 121, 148, 149, 150, 180, 300, 301}) \cup {[type |-> "stream"]}
    [] name = <<"label">> -> ChoiceAnswers(ask.options, {0, 2, 147, 148, 150, 151, 300}, {74, 73, 300})
    [] name = <<"action">> -> ChoiceAnswers(ask.options, {0, 2, 148, 150, 300}, {300, 301})
    [] name = <<"framing">> -> ChoiceAnswers(ask.options, {0, 150}, {300})
    [] name = <<"size_factor">> ->
         LevelAnswers(ask.levels, {0, 1, 150, 299, 300}, {0, 1, 3, 4, 300, 590, 597, 599, 600}, {300})
    [] name = <<"severity">> -> LevelAnswers(ask.levels, {0, 150, 300}, {0, 149, 150, 450, 600}, {300})
    [] OTHER -> LevelAnswers(ask.levels, {0, 100, 149, 151, 300}, {0, 85, 100, 149, 151, 166, 300, 301}, {100, 300})
=============================================================================
