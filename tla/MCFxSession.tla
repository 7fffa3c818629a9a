---------------------------- MODULE MCFxSession ----------------------------
(***************************************************************************)
(* FxSession on a world of two pairs that share a currency: a long EUR/USD  *)
(* adds EUR, a short EUR/USD and a long USD/JPY both add USD.               *)
(***************************************************************************)
EXTENDS FxSession

EurUsd == 0
UsdJpy == 2

MCPairs == {EurUsd, UsdJpy}
MCBase == [p \in MCPairs |-> IF p = EurUsd THEN "EUR" ELSE "USD"]
MCQuote == [p \in MCPairs |-> IF p = EurUsd THEN "USD" ELSE "JPY"]
MCStarting == [c \in {"EUR", "USD", "JPY"} |-> CASE c = "EUR" -> 1 [] c = "USD" -> -1 [] OTHER -> 0]

Signal(pair, at, side) == [pair |-> pair, at |-> at, side |-> side]

\* The exits of the first positions fall before, on and after the later signals;
\* two signals share a bar, and the last bar has one.
MCSignals ==
  {Signal(EurUsd, 0, "short"), Signal(UsdJpy, 0, "long"), Signal(EurUsd, 1, "short"),
   Signal(UsdJpy, 2, "long"), Signal(EurUsd, 3, "long")}

MCStopMove == -2
MCMoves == {0}
MCWideMoves == {-1, 0, 1}
=============================================================================
