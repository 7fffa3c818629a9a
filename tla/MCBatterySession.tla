------------------------- MODULE MCBatterySession -------------------------
(***************************************************************************)
(* BatterySession on a short day and a coarse grid that keep the order of  *)
(* the real asset's bounds: the bands nest, the reserve lies between the   *)
(* highest floor and the start, and an hour discharges more than it        *)
(* charges.                                                                *)
(***************************************************************************)
EXTENDS BatterySession

PerKind(a, b, r) ==
  [k \in ScheduleKinds |-> CASE k = "aggressive" -> a [] k = "balanced" -> b [] OTHER -> r]
MCLow == PerKind(0, 1, 2)
MCHigh == PerKind(7, 6, 6)
MCWeight == PerKind(2, 5, 8)

Window(from, to) == [from |-> from, to |-> to]
MCWindows == {NoWindow, Window(1, 1), Window(1, 2), Window(2, 3)}
\* Every curve over a negative, a low and a high price.
MCAllCurves == [Day -> {-1, 2, 6}]
Flat   == [h \in Day |-> 2]
Early  == [h \in Day |-> IF h < 1 THEN 6 ELSE 4]
Trough == [h \in Day |-> IF h = 1 THEN -2 ELSE 9]
\* A late peak, sold into while the last window is open.
Late   == [h \in Day |-> IF h < 2 THEN 1 ELSE 9]

\* One day of any curve, and three days in a row: rising, falling and mixed in
\* dispersion, each of the few curves on each of the days.
MCWorlds ==
  {<<c>> : c \in MCAllCurves} \cup
    {<<Flat, Early, Late>>, <<Late, Trough, Flat>>, <<Early, Late, Trough>>,
     <<Trough, Flat, Early>>}
=============================================================================
