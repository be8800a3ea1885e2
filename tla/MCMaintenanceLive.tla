------------------------- MODULE MCMaintenanceLive -------------------------
(***************************************************************************)
(* The liveness instance: faults may strike at any point, but from some    *)
(* moment on (calm) they stop.  Without that, every procedure could fail   *)
(* at every attempt.                                                       *)
(***************************************************************************)
EXTENDS MCMaintenance

VARIABLE calm

LiveVars == <<vars, calm>>

LiveInit == Init /\ calm = FALSE

Calm == calm = FALSE /\ calm' = TRUE /\ UNCHANGED vars

LiveNext ==
  \/ Calm
  \/ Healthy /\ UNCHANGED calm
  \/ ~calm /\ Next /\ UNCHANGED calm

LiveSpec == LiveInit /\ [][LiveNext]_LiveVars /\ WF_calm(Calm) /\ Fairness
=============================================================================
