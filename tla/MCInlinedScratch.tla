-------------------------- MODULE MCInlinedScratch --------------------------
(* Queries at any of three snapshots of a table with inlined rows under    *)
(* two schema versions, and, in another catalog with a scratch directory   *)
(* of its own, of a table with the same id.  The first is within the       *)
(* budgets twice, with no temporal column and with three rows for one,     *)
(* and then has a row too many; the second is within them at first, then   *)
(* has a value too many for its four temporal columns, then a version.     *)
EXTENDS InlinedScratch, TLC

CONSTANTS q1, q2, q3, a, b, x, y, r1, r2, r3, r4, r5
Three == {q1, q2, q3}
TwoCatalogs == (q1 :> a) @@ (q2 :> a) @@ (q3 :> b)
TwoDirs == (a :> x) @@ (b :> y)
OneTable == << <<{r1}, {r1, r2}, {r1, r2}>>, <<{}, {r3}, {r3, r4}>>, <<{}, {}, {}>> >>
Other    == << <<{r5}, {r5}, {r5}>>, <<{}, {r1}, {r1}>>, <<{}, {}, {r2}>> >>
TwoTables == (a :> OneTable) @@ (b :> Other)
Temporal == (a :> <<0, 1, 1>>) @@ (b :> <<4, 4, 4>>)
=============================================================================
