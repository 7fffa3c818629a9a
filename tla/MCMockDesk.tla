----------------------------- MODULE MCMockDesk -----------------------------
(***************************************************************************)
(* Markets on both sides of each threshold of the rules.  An fx candidate   *)
(* prints on a four-hour bar of two days, with at most one release a day    *)
(* (generate_calendar); a history of two days puts a percentile at 2000.    *)
(***************************************************************************)
EXTENDS MockDesk, TLC

MCSingle == [v \in 0 .. Unit |-> v]

Release(day, hour, kind) ==
  [at |-> 24 * day + hour, kind |-> kind, currency |-> IF kind = "ECB" THEN "EUR" ELSE "USD"]

Days(day) == {<<>>} \cup {<<Release(day, h, k)>> : h \in {8, 12, 14}, k \in {"CPI", "ECB"}}

MCFxWorlds ==
  {[desk |-> "fx", at |-> at, legs |-> legs, calendar |-> today \o tomorrow, clear |-> clear,
    trend |-> trend, vol |-> vol, multiple |-> multiple, share |-> share] :
     at \in {0, 4, 8, 12, 20}, legs \in {{"EUR", "USD"}, {"GBP", "USD"}},
     today \in Days(0), tomorrow \in {<<>>, <<Release(1, 8, "NFP")>>, <<Release(1, 8, "ECB")>>},
     clear \in BOOLEAN, trend \in {0, 619, 620}, vol \in {0, 1050},
     multiple \in {1999, 2000}, share \in {350, 351}}

Early == <<9, 11>>
Late  == <<17, 20>>

\* The solver keeps the reserve-heavy schedule above the floor (BatterySession).
MCBatteryWorlds ==
  {w \in [desk : {"battery"}, afrr : BOOLEAN, notes : {{}, {<<8, 9>>}, {<<20, 23>>, <<12, 14>>}},
          block : {[k \in Range(Kinds) |-> IF k = "balanced" THEN b ELSE c] :
                     b \in {Early, Late}, c \in {<<>>, Early, Late}},
          dips : SUBSET {"balanced", "aggressive"}, spent : SUBSET {"balanced", "reserve_heavy"},
          vol : {0, 500, 2000}, spread : {500, 1111},
          deviation : {-2001, -2000, 0, 1800, 5000}, negative : {0, 2}] :
     w.afrr \/ w.dips = {}}

\* The subjects of the three summaries and the headlines of usual results, in characters.
Callers == {[subject |-> 17, headlines |-> <<78, 52>>], [subject |-> 19, headlines |-> <<69, 56>>],
            [subject |-> 33, headlines |-> <<107, 54>>]}

\* None, a few and many, of one to three digits.
Counts == {0, 1, 2, 3, 40, 214}

AnyCounts ==
  {[desk |-> "summary", audience |-> a, decisions |-> d, interventions |-> i, escalations |-> e,
    calls |-> k * d, failed |-> i, subject |-> c.subject, headlines |-> c.headlines] :
     a \in {"trader", "compliance", "ops"}, d \in Counts, i \in Counts, e \in Counts,
     k \in {2, 5}, c \in Callers}

MCSessions ==
  {s \in AnyCounts : s.escalations <= s.interventions /\ s.interventions <= s.decisions}
=============================================================================
