------------------------- MODULE DeploymentContract -------------------------
(***************************************************************************)
(* What a deployment is to whoever started it and waits for its exit code: *)
(* a process, and a claim on the volume that may outlive it.               *)
(***************************************************************************)
VARIABLES
  child,  \* the process: before it asks for the claim, with it, or ended
  claim   \* the claim: of nobody, held by this process, or retained, that is
          \* of another one, or left behind by this one or another

vars == <<child, claim>>

Init == child = "starting" /\ claim \in {"none", "retained"}

Obtain ==
  /\ child = "starting" /\ claim = "none"
  /\ child' = "working" /\ claim' = "held"

(* It never got as far, the claim is another's, or the reply to its request*)
(* was lost: then the claim stays.                                         *)
EndUnclaimed ==
  /\ child = "starting" /\ child' = "failed"
  /\ UNCHANGED claim \/ (claim = "none" /\ claim' = "retained")

(* A success has given the claim back.                                     *)
Succeed ==
  /\ child = "working" /\ child' = "succeeded"
  /\ claim' = "none"

(* Of a failure, its report may say that it refused what it found.         *)
FailWorking ==
  /\ child = "working" /\ child' \in {"refused", "failed"}
  /\ claim' \in {"none", "retained"}

(* Others come and go while this process does not hold the claim.          *)
Others ==
  /\ claim # "held" /\ claim' \in {"none", "retained"}
  /\ UNCHANGED child

Next == Obtain \/ EndUnclaimed \/ Succeed \/ FailWorking \/ Others

Spec == Init /\ [][Next]_vars
=============================================================================
