---------------------------- MODULE MCPremiumPlan ----------------------------
EXTENDS PremiumPlan

CONSTANTS u1, k1, k2

\* The event of one session is delivered twice.
OneTwice == [k \in Checkouts |-> IF k = k1 THEN 2 ELSE 1]

\* A behaviour with two checkouts has one mishap, one without the second has several.
FewMishaps == failures' + losses' <= IF checkout'[k2].pc = "idle" THEN 4 ELSE 1

FewSpec == Init /\ [][Next /\ FewMishaps]_vars /\ Fairness
=============================================================================
