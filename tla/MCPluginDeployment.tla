------------------------- MODULE MCPluginDeployment -------------------------
(* The instances of PluginDeployment for TLC: two rivals that would install *)
(* different builds, and one run by itself among outsiders.                *)
EXTENDS PluginDeployment, TLC

CONSTANTS d1, d2, b1, b2
OneRun == {d1}
TwoRuns == {d1, d2}
TwoBuilds == (d1 :> b1) @@ (d2 :> b2)
=============================================================================
